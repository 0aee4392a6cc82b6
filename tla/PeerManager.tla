---------------------------- MODULE PeerManager ----------------------------
(***************************************************************************)
(* PeerManager (src/src/manager.rs): the requests that create, update and  *)
(* delete peers, the listener that replays the durable change events, the  *)
(* nftables reconciler, and recovery at startup.  All of them drive three  *)
(* external states towards the table peers: the WireGuard interfaces in    *)
(* the kernel, the BIRD configuration that `current` points to, and the    *)
(* nftables port set.                                                      *)
(*                                                                         *)
(* A process is at a place, a pair (stage, phase): the stage is the        *)
(* function it executes, the phase the external call that comes next.      *)
(* Each external call is one action, shared by all the functions that make *)
(* it; where a function goes on after the call succeeds or fails is said   *)
(* in PeerFlow.  A call may fail without an effect (Fail) or after it.     *)
(***************************************************************************)
EXTENDS PeerStore, PeerFlow, FiniteSets

CONSTANTS
    Requests,     \* HTTP requests; each executes one operation
    Listener,     \* the task run_peer_change_listener
    Reconcilers,  \* the task that rebuilds the port set; {} leaves it out
    Free,         \* the holder of a mutation lock nobody holds
    NoIface,      \* there is no interface wgp<id>
    Unaliased,    \* wgp<id> was added, its alias and up state are not set
    Mixed,        \* an interface whose settings are not those of one cfg
    NoPort,       \* an interface that has not been given a listen port
    NoCfg, NoKey, \* the fields of a process that has no use for them
    Initial,      \* the tables of peers that the service may start from
    MaxStrays,    \* bound: late renames that may be outstanding at a time
    MaxAdmin,     \* bound: changes made from outside of the service
    MaxCrash      \* bound: crashes of the service or the machine

Procs == Requests \cup {Listener} \cup Reconcilers

Device == [cfg : Cfgs \cup {Mixed}, port : Ports \cup {NoPort}]
BirdConf == [id : PeerIds, cfg : Cfgs]
Listed == [id : PeerIds, cfg : Cfgs, port : Ports]

ASSUME ManagerAssumption ==
    /\ Listener \notin Requests \cup Reconcilers
    /\ Requests \cap Reconcilers = {}
    /\ Free \notin Procs
    /\ NoKey \notin Keys
    /\ NoCfg \notin Cfgs
    /\ Mixed \notin Cfgs
    /\ NoPort \notin Ports
    /\ {NoIface, Unaliased} \cap Device = {}
    /\ NoIface # Unaliased
    /\ \A table \in Initial :
         /\ table \in [PeerIds -> Peer \cup {NoRow}]
         /\ \E n \in 0 .. MaxId : \A id \in PeerIds : table[id] # NoRow <=> id <= n
         /\ \A id \in PeerIds : table[id] # NoRow =>
              /\ table[id].status \in {"active", "disabled"}
              /\ table[id].key \notin TestKeys
              /\ \A other \in PeerIds \ {id} : table[other] # NoRow =>
                   /\ table[other].key # table[id].key
                   /\ table[other].port # table[id].port
    /\ MaxStrays \in Nat
    /\ MaxAdmin \in Nat
    /\ MaxCrash \in Nat

VARIABLES
    wg,        \* wgp<id> in the kernel
    bird,      \* the configurations in the generation `current` points to
    strays,    \* renames of `current` that dropped requests have left behind
    late,      \* history: such a rename was done after the last good sync
    nft,       \* the set autopeer-ports
    peerLock,  \* mutation_locks: the process that holds the lock of a key
    proc,      \* what each process executes, and its local variables
    mode,      \* "up", "down", or the step of recover that comes next
    listed,    \* the local variable `peers` of recover
    admin,     \* changes from outside so far
    crashes,   \* crashes so far
    faulty     \* whether external calls may still fail

birdVars == <<bird, strays, late>>
managerVars == <<wg, birdVars, nft, peerLock, proc, mode, listed, admin, crashes, faulty>>
vars == <<storeVars, managerVars>>

Modes ==
    {"up", "down", "list", "wireguard", "nft", "bird", "remove", "managed",
     "changes", "drop", "activate"}

(***************************************************************************)
(* id, port and cfg are the peer that a function works on, old the         *)
(* configuration that was read from its row, op the operation of the event *)
(* that the listener handles, snap the result of the last list_peers.      *)
(***************************************************************************)
Local ==
    [stage : Stages, phase : Phases, key : Keys \cup {NoKey},
     id : PeerIds \cup {0}, port : Ports, cfg : Cfgs \cup {NoCfg},
     old : Cfgs \cup {NoCfg}, op : {"upsert", "delete"},
     snap : SUBSET Listed]

Blank(stage) ==
    [stage |-> stage, phase |-> "idle", key |-> NoKey, id |-> 0, port |-> 0,
     cfg |-> NoCfg, old |-> NoCfg, op |-> "upsert", snap |-> {}]

(***************************************************************************)
(* Every variable keeps its type.                                          *)
(***************************************************************************)
TypeOK ==
    /\ StoreTypeOK
    /\ wg \in [PeerIds -> Device \cup {NoIface, Unaliased}]
    /\ bird \in SUBSET BirdConf
    /\ strays \subseteq [by : Requests, conf : SUBSET BirdConf]
    /\ late \in BOOLEAN
    /\ nft \in SUBSET Ports
    /\ peerLock \in [Keys -> Procs \cup {Free}]
    /\ proc \in [Procs -> Local]
    /\ mode \in Modes
    /\ listed \in [PeerIds -> Peer \cup {NoRow}]
    /\ admin \in 0 .. MaxAdmin
    /\ crashes \in 0 .. MaxCrash
    /\ faulty \in BOOLEAN

BirdOf(listing) == {[id |-> p.id, cfg |-> p.cfg] : p \in listing}
PortsOf(listing) == {p.port : p \in listing}
DeviceOf(row) == [cfg |-> row.cfg, port |-> row.port]

(***************************************************************************)
(* Goto(p, place, snap) moves p to a place.  A process that returns drops  *)
(* its guard on the mutation lock, and so does the listener before it      *)
(* deletes the event; compensation works on the configuration that was     *)
(* read from the row.  The id of a deleted peer is kept for properties.    *)
(***************************************************************************)
Locked(f) == f \notin {"idle", "ack"}

Moved(local, place, snap) ==
    IF place.phase = "idle"
      THEN [Blank(place.stage) EXCEPT
              !.id = IF place.stage = "deleted" THEN local.id ELSE 0]
      ELSE [local EXCEPT
              !.stage = place.stage, !.phase = place.phase, !.snap = snap,
              !.cfg = IF place.stage \in {"undo_update", "undo_delete"}
                        THEN local.old ELSE local.cfg]

Goto(p, place, snap) ==
    /\ proc' = [proc EXCEPT ![p] = Moved(proc[p], place, snap)]
    /\ peerLock' = [k \in Keys |->
                      IF peerLock[k] = p /\ ~Locked(place.phase) THEN Free
                      ELSE peerLock[k]]

\* Where p goes on after the call it is at.
Branch(p, ok) ==
    LET go == Program(proc[p].stage, proc[p].phase)
    IN  IF ok THEN go.ok ELSE go.err

Continue(p, ok) == Goto(p, Branch(p, ok), {})

Busy(p) == proc[p].phase # "idle"

(***************************************************************************)
(* An external call of p in phase f that reports success (ok) or, after it *)
(* had its effect, failure.                                                *)
(***************************************************************************)
Call(p, f, ok) ==
    /\ mode = "up"
    /\ proc[p].phase = f
    /\ ok \/ faulty
    /\ UNCHANGED <<mode, listed, admin, crashes, faulty>>

\* A write of p's row.  No row makes it fail, except where only an error of
\* the database counts as failure.
RowWritten(p, ok) ==
    ok /\ (Exists(proc[p].id) \/ proc[p].stage \in {"undo_update", "undo_delete"})

(***************************************************************************)
(* The calls that fail without an effect: PostgreSQL, DNS, netlink, BIRD   *)
(* and nft, with their timeouts.                                           *)
(***************************************************************************)
Fail(p) ==
    /\ mode = "up"
    /\ faulty
    /\ Busy(p)
    /\ Continue(p, FALSE)
    /\ UNCHANGED <<storeVars, wg, birdVars, nft, mode, listed, admin, crashes, faulty>>

(***************************************************************************)
(* A request starts when it gets the mutation lock of its machine.         *)
(***************************************************************************)
Begin(r, op, k, c) ==
    /\ mode = "up"
    /\ proc[r] = Blank("ready")
    /\ peerLock[k] = Free
    /\ (c = NoCfg) <=> (op = "delete")
    /\ peerLock' = [peerLock EXCEPT ![k] = r]
    /\ proc' = [proc EXCEPT ![r] =
                  [Blank(op) EXCEPT !.key = k, !.cfg = c,
                     !.phase = IF op = "create" THEN "reserve" ELSE "read"]]
    /\ UNCHANGED <<storeVars, wg, birdVars, nft, mode, listed, admin, crashes, faulty>>

(***************************************************************************)
(* The handler future of a request is dropped: its client went away.       *)
(***************************************************************************)
\* Faulty variant: the guard on the lock outlives the future.
Cancel_KeepLock(r) ==
    /\ mode = "up"
    /\ Busy(r)
    /\ proc' = [proc EXCEPT ![r] = Blank("failed")]
    /\ UNCHANGED <<storeVars, wg, birdVars, nft, peerLock, mode, listed, admin, crashes, faulty>>

Cancel(r) ==
    /\ mode = "up"
    /\ Busy(r)
    /\ Goto(r, Return("failed"), {})
    /\ UNCHANGED <<storeVars, wg, birdVars, nft, mode, listed, admin, crashes, faulty>>

(***************************************************************************)
(* The future is dropped while a rename of `current` is under way, and     *)
(* with it the bird lock; tokio's blocking pool still has the rename to    *)
(* do.  It is the one that brings in the new generation, which is written  *)
(* unless `current` shows that configuration, or the one that goes back    *)
(* when BIRD has refused the new generation.                               *)
(***************************************************************************)
CancelRename(r) ==
    LET want == BirdOf(proc[r].snap) IN
    /\ mode = "up"
    /\ proc[r].phase = "bird_sync"
    /\ Cardinality(strays) < MaxStrays
    /\ bird = {} \/ bird # want
    /\ \/ /\ strays' = strays \cup {[by |-> r, conf |-> want]}
          /\ UNCHANGED bird
       \/ /\ faulty
          /\ strays' = strays \cup {[by |-> r, conf |-> bird]}
          /\ bird' = want
    /\ Goto(r, Return("failed"), {})
    /\ UNCHANGED <<storeVars, late, wg, nft, mode, listed, admin, crashes, faulty>>

\* A rename that was left behind is done.  The generation it leads to may
\* have been removed by then, all of it or some files.
LateRename(s) ==
    /\ mode = "up"
    /\ bird' \in SUBSET s.conf
    /\ strays' = strays \ {s}
    /\ late' = (late \/ bird' # bird)
    /\ UNCHANGED <<storeVars, wg, nft, peerLock, proc, mode, listed, admin, crashes, faulty>>

(***************************************************************************)
(* reserve_peer, under port_lock: a new id, and the first port from the    *)
(* preferred one on that neither the kernel nor the table uses.            *)
(***************************************************************************)
InKernel(port) == \E id \in PeerIds : wg[id] \in Device /\ wg[id].port = port

\* Faulty variant: the ports of peers that are not configured yet are offered.
FreePorts_KernelOnly == {port \in Ports : ~InKernel(port)}

FreePorts == {port \in Ports : ~PortTaken(port) /\ ~InKernel(port)}

Increment(k, port) == (port + NumPorts - Preferred[k]) % NumPorts

\* Faulty variant: the search does not wrap around at the end of the range.
FirstPort_NoWrap(k) ==
    CHOOSE port \in Preferred[k] .. 2 * NumPorts :
        /\ ~PortTaken(port) /\ ~InKernel(port)
        /\ \A other \in Preferred[k] .. port - 1 : PortTaken(other) \/ InKernel(other)

FirstPort(k) ==
    CHOOSE port \in FreePorts :
        \A other \in FreePorts : Increment(k, port) <= Increment(k, other)

Insert(id, row) ==
    /\ WriteRow(id, row)
    /\ nextId' = nextId + 1

ReservePeer(r, ok) ==
    LET me == proc[r]
        row == [key |-> me.key, cfg |-> me.cfg, port |-> FirstPort(me.key),
                status |-> "provisioning"]
    IN
    /\ Call(r, "reserve", ok)
    /\ nextId \in PeerIds
    /\ ~KeyTaken(me.key)
    /\ FreePorts # {}
    /\ me.key \notin TestKeys
    /\ Insert(nextId, row)
    /\ IF ok
         THEN /\ proc' = [proc EXCEPT ![r] =
                           [Moved(me, Branch(r, TRUE), {}) EXCEPT
                              !.id = nextId, !.port = row.port]]
              /\ UNCHANGED peerLock
         ELSE Continue(r, FALSE)
    /\ UNCHANGED <<wg, birdVars, nft>>

\* A create that uses up an id and ends here: a test, which rolls the INSERT
\* back, one for which there is no port, or an error after allocate_peer_id.
ReserveNothing(r, answer) ==
    LET me == proc[r] IN
    /\ Call(r, "reserve", TRUE)
    /\ nextId \in PeerIds
    /\ ~KeyTaken(me.key)
    /\ IF answer = "tested" THEN me.key \in TestKeys /\ FreePorts # {}
       ELSE FreePorts = {} \/ faulty
    /\ nextId' = nextId + 1
    /\ Goto(r, Return(answer), {})
    /\ UNCHANGED <<rows, events, wg, birdVars, nft>>

\* PeerError::AlreadyExists, or the sequence has no id left.
ReserveRefused(r) ==
    /\ Call(r, "reserve", TRUE)
    /\ KeyTaken(proc[r].key) \/ nextId \notin PeerIds
    /\ Continue(r, FALSE)
    /\ UNCHANGED <<storeVars, wg, birdVars, nft>>

(***************************************************************************)
(* get_peer of update_peer and delete_peer.                                *)
(***************************************************************************)
ReadPeer(r) ==
    LET me == proc[r]
        id == IdOf(me.key)
    IN
    /\ Call(r, "read", TRUE)
    /\ IF KeyTaken(me.key) /\ (me.stage = "update" => rows[id].status # "deleting")
         THEN /\ proc' = [proc EXCEPT ![r] =
                           [Moved(me, Branch(r, TRUE), {}) EXCEPT
                              !.id = id, !.port = rows[id].port, !.old = rows[id].cfg]]
              /\ UNCHANGED peerLock
         ELSE Continue(r, FALSE)
    /\ UNCHANGED <<storeVars, wg, birdVars, nft>>

(***************************************************************************)
(* The statements on the row of a peer.                                    *)
(***************************************************************************)
StoreDesired(r, ok) ==
    /\ Call(r, "desire", ok)
    /\ update_peer_desired(proc[r].id, proc[r].cfg, proc[r].port)
    /\ Continue(r, RowWritten(r, ok))
    /\ UNCHANGED <<nextId, wg, birdVars, nft>>

MarkDeleting(r, ok) ==
    /\ Call(r, "mark", ok)
    /\ set_status(proc[r].id, "deleting")
    /\ Continue(r, RowWritten(r, ok))
    /\ UNCHANGED <<nextId, wg, birdVars, nft>>

Activate(p, ok) ==
    /\ Call(p, "activate", ok)
    /\ set_status(proc[p].id, "active")
    /\ Continue(p, RowWritten(p, ok))
    /\ UNCHANGED <<nextId, wg, birdVars, nft>>

DropRow(p, ok) ==
    /\ Call(p, "drop_row", ok)
    /\ delete_row(proc[p].id)
    /\ Continue(p, RowWritten(p, ok))
    /\ UNCHANGED <<nextId, wg, birdVars, nft>>

(***************************************************************************)
(* WireGuard.  ensure_wg_interface adds a missing interface, then sets its *)
(* MTU, alias and up state; configure_peer sets port, key and endpoint,    *)
(* then configure_local_address the address.  An attempt that stops half   *)
(* way leaves an interface without an alias, or with settings of two       *)
(* configurations.  The kernel refuses a port that another interface has.  *)
(*                                                                         *)
(* The cfg of a Device is the configuration that the interface carries:    *)
(* its MTU, peer key and endpoint are those of cfg, and its addresses are  *)
(* among those of the interface.  An address is only ever added, so an     *)
(* interface may still have addresses of the configurations it carried     *)
(* before; PeerSettings models the addresses one by one.                   *)
(***************************************************************************)
Blend(have, want) == IF have = want THEN want ELSE Mixed

Ensured(device, cfg) ==
    IF device \in Device THEN [device EXCEPT !.cfg = Blend(@, cfg)]
    ELSE [cfg |-> Mixed, port |-> NoPort]

EnsureInterface(p, ok) ==
    LET me == proc[p] IN
    /\ Call(p, "ensure", ok)
    /\ \/ wg' = [wg EXCEPT ![me.id] = Ensured(@, me.cfg)]
       \/ /\ ~ok
          /\ wg[me.id] = NoIface
          /\ wg' = [wg EXCEPT ![me.id] = Unaliased]
    /\ Continue(p, ok)
    /\ UNCHANGED <<storeVars, birdVars, nft>>

PortClash(id, port) ==
    \E other \in PeerIds \ {id} : wg[other] \in Device /\ wg[other].port = port

Configure(p, ok) ==
    LET me == proc[p] IN
    /\ Call(p, "configure", ok)
    /\ wg[me.id] \in Device
    /\ ~PortClash(me.id, me.port)
    /\ wg' = [wg EXCEPT ![me.id] =
                [cfg |-> IF ok THEN me.cfg ELSE Blend(@.cfg, me.cfg), port |-> me.port]]
    /\ Continue(p, ok)
    /\ UNCHANGED <<storeVars, birdVars, nft>>

ConfigureRefused(p) ==
    /\ Call(p, "configure", TRUE)
    /\ PortClash(proc[p].id, proc[p].port)
    /\ Continue(p, FALSE)
    /\ UNCHANGED <<storeVars, wg, birdVars, nft>>

RemoveInterface(p, ok) ==
    /\ Call(p, "remove_if", ok)
    /\ wg' = [wg EXCEPT ![proc[p].id] = NoIface]
    /\ Continue(p, ok)
    /\ UNCHANGED <<storeVars, birdVars, nft>>

(***************************************************************************)
(* BIRD and nftables are rebuilt from list_peers, which runs before their  *)
(* lock is taken: what is written may be older than what it replaces.  A   *)
(* sync is a call of BirdRegister, which BirdGenerations is shown to       *)
(* implement: when it fails it may leave BIRD with no configuration at     *)
(* all, and LateRename is the register's Stray.                            *)
(***************************************************************************)
ListPeers(p) ==
    /\ \E f \in {"bird_list", "nft_list"} : Call(p, f, TRUE)
    /\ Goto(p, Branch(p, TRUE), Listing(rows))
    /\ UNCHANGED <<storeVars, wg, birdVars, nft>>

Synced(listing, ok) ==
    /\ bird' \in {BirdOf(listing)} \cup (IF ok THEN {} ELSE {{}})
    /\ late' = (late /\ ~ok)
    /\ UNCHANGED strays

SyncBird(p, ok) ==
    /\ Call(p, "bird_sync", ok)
    /\ Synced(proc[p].snap, ok)
    /\ Continue(p, ok)
    /\ UNCHANGED <<storeVars, wg, nft>>

SyncNft(p, ok) ==
    /\ Call(p, "nft_sync", ok)
    /\ nft' = PortsOf(proc[p].snap)
    /\ Continue(p, ok)
    /\ UNCHANGED <<storeVars, wg, birdVars>>

(***************************************************************************)
(* The listener.  sync_pending_peer_changes walks over the events that     *)
(* list_peer_changes returned; only the listener deletes events, so those  *)
(* it has not reached are still in the table, and taking any event of the  *)
(* table next covers every walk.  A change that fails keeps its event, for *)
(* the retry that a notification or the 30 second timer triggers.          *)
(***************************************************************************)
\* Faulty variant: the listener does not wait for the mutation lock.
TakeChange_NoLock(c) ==
    /\ mode = "up"
    /\ ~Busy(Listener)
    /\ events[c] > 0
    /\ peerLock' = [peerLock EXCEPT ![c.key] = Listener]
    /\ proc' = [proc EXCEPT ![Listener] =
                  [Blank("change") EXCEPT !.phase = "read", !.key = c.key,
                                          !.id = c.id, !.op = c.op]]
    /\ UNCHANGED <<storeVars, wg, birdVars, nft, mode, listed, admin, crashes, faulty>>

TakeChange(c) ==
    /\ mode = "up"
    /\ ~Busy(Listener)
    /\ events[c] > 0
    /\ peerLock[c.key] = Free
    /\ peerLock' = [peerLock EXCEPT ![c.key] = Listener]
    /\ proc' = [proc EXCEPT ![Listener] =
                  [Blank("change") EXCEPT !.phase = "read", !.key = c.key,
                                          !.id = c.id, !.op = c.op]]
    /\ UNCHANGED <<storeVars, wg, birdVars, nft, mode, listed, admin, crashes, faulty>>

ChangeStage(row) ==
    CASE row = NoRow                          -> "withdraw"
      [] row # NoRow /\ row.status = "disabled" -> "withdraw"
      [] row # NoRow /\ row.status = "deleting" -> "purge"
      [] row # NoRow /\ row.status = "active"   -> "reapply"
      [] OTHER                                -> "promote"

\* get_peer_by_id of apply_peer_change.
ReadChange ==
    LET me == proc[Listener]
        row == rows[me.id]
        stage == ChangeStage(row)
    IN
    /\ Call(Listener, "read", TRUE)
    /\ proc' = [proc EXCEPT ![Listener] =
                  [me EXCEPT
                     !.stage = stage,
                     !.phase = IF stage \in {"reapply", "promote"} THEN "ensure" ELSE "bird_list",
                     !.port = IF row = NoRow THEN 0 ELSE row.port,
                     !.cfg = IF row = NoRow THEN NoCfg ELSE row.cfg]]
    /\ UNCHANGED <<storeVars, wg, birdVars, nft, peerLock>>

Ack(ok) ==
    LET me == proc[Listener] IN
    /\ Call(Listener, "ack", ok)
    /\ delete_peer_change([id |-> me.id, key |-> me.key, op |-> me.op])
    /\ Continue(Listener, ok)
    /\ UNCHANGED <<nextId, wg, birdVars, nft>>

(***************************************************************************)
(* The reconciler's interval fires.                                        *)
(***************************************************************************)
\* Faulty variant: the reconciler runs only when there is a change to apply.
Tick_OnChange(p) ==
    /\ mode = "up"
    /\ ~Busy(p)
    /\ events # NoChanges
    /\ proc' = [proc EXCEPT ![p] = [Blank("reconcile") EXCEPT !.phase = "nft_list"]]
    /\ UNCHANGED <<storeVars, wg, birdVars, nft, peerLock, mode, listed, admin, crashes, faulty>>

Tick(p) ==
    /\ mode = "up"
    /\ ~Busy(p)
    /\ proc' = [proc EXCEPT ![p] = [Blank("reconcile") EXCEPT !.phase = "nft_list"]]
    /\ UNCHANGED <<storeVars, wg, birdVars, nft, peerLock, mode, listed, admin, crashes, faulty>>

(***************************************************************************)
(* Writes from outside of the service, which the trigger sees as well: an  *)
(* administrator sets the status or the configuration of a peer, or        *)
(* deletes its row.                                                        *)
(***************************************************************************)
AdminWrite(id) ==
    /\ admin < MaxAdmin
    /\ Exists(id)
    /\ \/ \E status \in {"disabled", "provisioning"} : set_status(id, status)
       \/ \E c \in Cfgs : WriteRow(id, [rows[id] EXCEPT !.cfg = c])
       \/ delete_row(id)
    /\ admin' = admin + 1
    /\ UNCHANGED <<nextId, wg, birdVars, nft, peerLock, proc, mode, listed, crashes, faulty>>

(***************************************************************************)
(* Somebody reloads the nftables ruleset, which empties the port set.      *)
(***************************************************************************)
FirewallReload ==
    /\ admin < MaxAdmin
    /\ nft' = {}
    /\ admin' = admin + 1
    /\ UNCHANGED <<storeVars, wg, birdVars, peerLock, proc, mode, listed, crashes, faulty>>

(***************************************************************************)
(* The service dies; a machine that restarts also loses its interfaces,    *)
(* the port set and the generations under /run.                            *)
(***************************************************************************)
Stopped(p) ==
    IF ~Busy(p) THEN proc[p]
    ELSE Blank(IF p \in Requests THEN "failed" ELSE "ready")

Crash(reboot) ==
    /\ mode # "down"
    /\ crashes < MaxCrash
    /\ crashes' = crashes + 1
    /\ mode' = "down"
    /\ proc' = [p \in Procs |-> Stopped(p)]
    /\ peerLock' = [k \in Keys |-> Free]
    /\ listed' = [id \in PeerIds |-> NoRow]
    /\ IF reboot
         THEN wg' = [id \in PeerIds |-> NoIface] /\ bird' = {} /\ nft' = {}
         ELSE UNCHANGED <<wg, bird, nft>>
    /\ strays' = {}
    /\ late' = FALSE
    /\ UNCHANGED <<storeVars, admin, faulty>>

(***************************************************************************)
(* recover.  main runs it before it starts the other tasks and opens the   *)
(* listener, and dies when it fails.  Every step works on the rows listed  *)
(* at its start.  A loop over peers is one step: when it fails, it has     *)
(* been through some of them.                                              *)
(***************************************************************************)
NoRows == [id \in PeerIds |-> NoRow]
Desired == {id \in PeerIds : Wanted(listed[id])}
Unwanted == {id \in PeerIds : listed[id] # NoRow /\ ~Wanted(listed[id])}
ToDelete == {id \in PeerIds : listed[id] # NoRow /\ listed[id].status = "deleting"}

Recovering(step, next, ok) ==
    /\ mode = step
    /\ mode' = IF ok THEN next ELSE "down"
    /\ listed' = IF ok /\ next # "up" THEN listed ELSE NoRows
    /\ UNCHANGED <<nextId, peerLock, proc, admin, faulty>>

Restart ==
    /\ mode = "down"
    /\ mode' = "list"
    /\ UNCHANGED <<storeVars, wg, birdVars, nft, peerLock, proc, listed, admin, crashes, faulty>>

RecoverList ==
    /\ mode = "list"
    /\ mode' = "wireguard"
    /\ listed' = rows
    /\ UNCHANGED <<storeVars, wg, birdVars, nft, peerLock, proc, admin, crashes, faulty>>

\* A step of recover fails without an effect.
RecoverFail ==
    /\ faulty
    /\ \E step \in Modes \ {"up", "down"} : Recovering(step, step, FALSE)
    /\ UNCHANGED <<rows, events, wg, birdVars, nft, crashes>>

RecoverWireguard(ok) ==
    LET clear == {id \in Desired : ~PortClash(id, listed[id].port)} IN
    /\ Recovering("wireguard", "nft", ok)
    /\ IF ok THEN clear = Desired ELSE faulty \/ clear # Desired
    /\ \E done \in IF ok THEN {Desired} ELSE SUBSET clear :
       \E half \in IF ok THEN {0} ELSE {0} \cup (Desired \ done) :
       \E device \in IF half = 0 THEN {NoIface}
                     ELSE {Ensured(wg[half], listed[half].cfg)}
                          \cup (IF wg[half] = NoIface THEN {Unaliased} ELSE {}) :
         wg' = [id \in PeerIds |-> CASE id = half   -> device
                                     [] id \in done  -> DeviceOf(listed[id])
                                     [] OTHER        -> wg[id]]
    /\ UNCHANGED <<rows, events, birdVars, nft, crashes>>

RecoverNft(ok) ==
    /\ ok \/ faulty
    /\ Recovering("nft", "bird", ok)
    /\ nft' = PortsOf(Listing(listed))
    /\ UNCHANGED <<rows, events, wg, birdVars, crashes>>

RecoverBird(ok) ==
    /\ ok \/ faulty
    /\ Recovering("bird", "remove", ok)
    /\ Synced(Listing(listed), ok)
    /\ UNCHANGED <<rows, events, wg, nft, crashes>>

\* delete_interface for each id of a set.
RecoverSweep(step, next, ids, ok) ==
    /\ ok \/ faulty
    /\ Recovering(step, next, ok)
    /\ \E done \in IF ok THEN {ids} ELSE SUBSET ids :
         wg' = [id \in PeerIds |-> IF id \in done THEN NoIface ELSE wg[id]]
    /\ UNCHANGED <<rows, events, birdVars, nft, crashes>>

RecoverRemove(ok) == RecoverSweep("remove", "managed", Unwanted, ok)

\* list_managed_interfaces finds the interfaces with an alias.
RecoverManaged(ok) ==
    RecoverSweep("managed", "changes",
                 {id \in PeerIds \ Desired : wg[id] \in Device}, ok)

\* Faulty variant: the events are left to the listener.
RecoverChanges_Skip(ok) == RecoverSweep("changes", "drop", {}, ok)

RecoverChanges(ok) ==
    RecoverSweep("changes", "drop",
                 {id \in PeerIds : ~Exists(id) /\ \E c \in Change :
                     c.id = id /\ c.op = "delete" /\ events[c] > 0}, ok)

\* A row that is gone by now makes recover return NotFound.
RecoverDrop(ok) ==
    LET present == {id \in ToDelete : Exists(id)} IN
    /\ Recovering("drop", "activate", ok)
    /\ IF ok THEN present = ToDelete ELSE faulty \/ present # ToDelete
    /\ \E done \in IF ok THEN {ToDelete} ELSE SUBSET present : delete_rows(done)
    /\ UNCHANGED <<wg, birdVars, nft, crashes>>

\* Faulty variant: the outbox is emptied, as if recover had applied it.
RecoverActivate_ClearOutbox(ok) ==
    LET present == {id \in Desired : Exists(id)} IN
    /\ Recovering("activate", "up", ok)
    /\ IF ok THEN present = Desired ELSE faulty \/ present # Desired
    /\ rows' = [id \in PeerIds |->
                  IF ok /\ id \in Desired THEN [rows[id] EXCEPT !.status = "active"]
                  ELSE rows[id]]
    /\ events' = IF ok THEN NoChanges ELSE events
    /\ UNCHANGED <<wg, birdVars, nft, crashes>>

RecoverActivate(ok) ==
    LET present == {id \in Desired : Exists(id)} IN
    /\ Recovering("activate", "up", ok)
    /\ IF ok THEN present = Desired ELSE faulty \/ present # Desired
    /\ \E done \in IF ok THEN {Desired} ELSE SUBSET present :
         /\ activate_rows(done)
         /\ crashes' = IF ok \/ done = {} THEN crashes ELSE crashes + 1
    /\ crashes' \in 0 .. MaxCrash
    /\ UNCHANGED <<wg, birdVars, nft>>

(***************************************************************************)
(* The service is up, its external state is that of the table, and no      *)
(* event is left.                                                          *)
(***************************************************************************)
DeviceFor(row) == IF Wanted(row) THEN DeviceOf(row) ELSE NoIface

Init ==
    /\ rows \in Initial
    /\ events = NoChanges
    /\ nextId \in 1 .. MaxId + 1
    /\ \A id \in PeerIds : Exists(id) <=> id < nextId
    /\ wg = [id \in PeerIds |-> DeviceFor(rows[id])]
    /\ bird = BirdOf(Listing(rows))
    /\ strays = {}
    /\ late = FALSE
    /\ nft = PortsOf(Listing(rows))
    /\ peerLock = [k \in Keys |-> Free]
    /\ proc = [p \in Procs |-> Blank("ready")]
    /\ mode = "up"
    /\ listed = NoRows
    /\ admin = 0
    /\ crashes = 0
    /\ faulty = TRUE

\* A call that every function makes.
SharedStep(p) ==
    \/ ConfigureRefused(p)
    \/ ListPeers(p)
    \/ \E ok \in BOOLEAN :
        \/ Activate(p, ok)
        \/ DropRow(p, ok)
        \/ EnsureInterface(p, ok)
        \/ Configure(p, ok)
        \/ RemoveInterface(p, ok)
        \/ SyncBird(p, ok)
        \/ SyncNft(p, ok)

RequestStep(r) ==
    \/ \E answer \in {"failed", "tested"} : ReserveNothing(r, answer)
    \/ ReserveRefused(r)
    \/ ReadPeer(r)
    \/ \E ok \in BOOLEAN :
        \/ ReservePeer(r, ok)
        \/ StoreDesired(r, ok)
        \/ MarkDeleting(r, ok)

ListenerStep ==
    \/ \E c \in Change : TakeChange(c)
    \/ ReadChange
    \/ \E ok \in BOOLEAN : Ack(ok)

RecoverStep ==
    \/ Restart
    \/ RecoverList
    \/ RecoverFail
    \/ \E ok \in BOOLEAN :
        \/ RecoverWireguard(ok)
        \/ RecoverNft(ok)
        \/ RecoverBird(ok)
        \/ RecoverRemove(ok)
        \/ RecoverManaged(ok)
        \/ RecoverChanges(ok)
        \/ RecoverDrop(ok)
        \/ RecoverActivate(ok)

\* Nothing is left to do.
Quiescent ==
    /\ mode = "up"
    /\ events = NoChanges
    /\ \A p \in Procs : ~Busy(p)
    /\ UNCHANGED vars

Next ==
    \/ \E r \in Requests, k \in Keys, c \in Cfgs \cup {NoCfg},
          op \in {"create", "update", "delete"} : Begin(r, op, k, c)
    \/ \E r \in Requests : RequestStep(r) \/ Cancel(r) \/ CancelRename(r)
    \/ \E s \in strays : LateRename(s)
    \/ \E p \in Procs : SharedStep(p) \/ Fail(p)
    \/ ListenerStep
    \/ \E p \in Reconcilers : Tick(p)
    \/ \E id \in PeerIds : AdminWrite(id)
    \/ FirewallReload
    \/ \E reboot \in BOOLEAN : Crash(reboot)
    \/ RecoverStep
    \/ Quiescent

Spec == Init /\ [][Next]_vars

(***************************************************************************)
(* Liveness is stated for a service whose external calls succeed from some *)
(* time on.  A process that has a step to make makes it: tasks and request *)
(* handlers are futures that the runtime polls, every external call has a  *)
(* timeout, the listener retries and the reconciler ticks every 30 s, and  *)
(* systemd restarts the service.                                           *)
(***************************************************************************)
Heal ==
    /\ faulty
    /\ faulty' = FALSE
    /\ UNCHANGED <<storeVars, wg, birdVars, nft, peerLock, proc, mode, listed, admin, crashes>>

Fairness ==
    /\ WF_vars(Heal)
    /\ WF_vars(RecoverStep)
    /\ WF_vars((Busy(Listener) /\ SharedStep(Listener)) \/ ListenerStep)
    /\ \A r \in Requests : WF_vars(Busy(r) /\ (SharedStep(r) \/ RequestStep(r)))
    /\ \A p \in Reconcilers : WF_vars((Busy(p) /\ SharedStep(p)) \/ Tick(p))

LiveSpec == Init /\ [][Next \/ Heal]_vars /\ Fairness

-----------------------------------------------------------------------------
(***************************************************************************)
(* Safety.                                                                 *)
(***************************************************************************)

(***************************************************************************)
(* Two processes never work on one machine at a time, whatever the path    *)
(* they take through compensation, cancellation and crashes                *)
(* (operation_lock in create_peer, update_peer, delete_peer and            *)
(* apply_peer_change).                                                     *)
(***************************************************************************)
MutualExclusion ==
    \A p, q \in Procs :
        /\ Locked(proc[p].phase) /\ Locked(proc[q].phase)
        /\ proc[p].key = proc[q].key /\ proc[p].key # NoKey
        => p = q

(***************************************************************************)
(* No change is forgotten: while the service is up, a peer has an          *)
(* interface exactly when its row wants one, the interface carries what    *)
(* the row asks for, and the row is settled, or there is a durable event   *)
(* that will make the listener look at the peer again.  This is what the   *)
(* outbox, the order "apply, then delete the event" in                     *)
(* sync_pending_peer_changes, and recover are there for.                   *)
(***************************************************************************)
Settled(id) ==
    /\ wg[id] = DeviceFor(rows[id])
    /\ Exists(id) => rows[id].status \in {"active", "disabled"}

KernelCovered ==
    mode = "up" => \A id \in PeerIds : Settled(id) \/ Pending(id)

(***************************************************************************)
(* The same for BIRD, which every change rebuilds as a whole: `current`    *)
(* holds the wanted peers, or an event is left that rebuilds it.  Lists    *)
(* that were read before the bird lock was taken are therefore harmless in *)
(* the end (sync_bird_configs).  The one exception is a rename that a      *)
(* dropped request left to the runtime (atomic_switch_current): when it is *)
(* done after the last event was deleted, nothing repairs it before the    *)
(* next sync that succeeds, and until then `late` holds.                   *)
(***************************************************************************)
BirdCovered ==
    mode = "up" =>
        \/ bird = BirdOf(Listing(rows))
        \/ \E c \in Change : events[c] > 0
        \/ late

(***************************************************************************)
(* When recover is through, the interfaces are those that the table it     *)
(* listed at its start asks for, each carries its settings, and the BIRD   *)
(* configuration is that of the table: nothing that a crash left half way, *)
(* with or without an alias, and nothing whose row went away while the     *)
(* service was down, is overlooked.                                        *)
(***************************************************************************)
RecoveryRepairs ==
    [][mode = "activate" /\ mode' = "up" =>
         /\ \A id \in PeerIds : wg[id] = DeviceFor(listed[id])
         /\ bird = BirdOf(Listing(listed))]_vars

(***************************************************************************)
(* create_peer and update_peer answer success only when the interface of   *)
(* the peer carries the settings that were asked for, at that very moment  *)
(* and whatever other processes, administrators and earlier attempts did   *)
(* to it.                                                                  *)
(***************************************************************************)
SuccessMeansApplied ==
    [][\A r \in Requests :
         /\ proc[r].stage \in {"create", "update"}
         /\ proc'[r].stage \in {"created", "updated"}
         => wg'[proc[r].id] = [cfg |-> proc[r].cfg, port |-> proc[r].port]]_vars

(***************************************************************************)
(* Once delete_peer has answered success, neither the row nor the          *)
(* interface of that peer comes back, through late events, compensation of *)
(* other requests, crashes and recovery.                                   *)
(***************************************************************************)
DeletedStaysGone ==
    \A r \in Requests : proc[r].stage = "deleted" =>
        ~Exists(proc[r].id) /\ wg[proc[r].id] = NoIface

(***************************************************************************)
(* What reserve_peer hands out never clashes with an interface that is in  *)
(* the kernel for another peer, while rows and interfaces come and go in   *)
(* requests, compensation and the listener.                                *)
(***************************************************************************)
NoPortShared ==
    \A i, j \in PeerIds : i # j /\ Exists(i) /\ wg[j] \in Device =>
        wg[j].port # rows[i].port

Outbox == INSTANCE PeerOutbox WITH
    Peers   <- PeerIds,
    Devices <- Device \cup {NoIface, Unaliased},
    target  <- [id \in PeerIds |-> DeviceFor(rows[id])],
    resting <- {id \in PeerIds : Exists(id) => rows[id].status \in {"active", "disabled"}},
    actual  <- wg,
    pending <- {id \in PeerIds : Pending(id)},
    open    <- mode = "up"

(***************************************************************************)
(* The service keeps the rules of PeerOutbox, whoever works on a peer:     *)
(* nobody touches an interface without a durable event behind him, through *)
(* all compensation, and the last event of a peer is deleted only when the *)
(* interface and the row are in order at that very moment, although the    *)
(* listener deletes it after it has given up the mutation lock.            *)
(* KernelCovered follows from it.                                          *)
(***************************************************************************)
KeepsOutbox == Outbox!Spec

-----------------------------------------------------------------------------
(***************************************************************************)
(* Liveness, under LiveSpec.                                               *)
(***************************************************************************)

(***************************************************************************)
(* When requests, administrators and failures come to an end, the service  *)
(* reaches, for good, a state in which all events are handled, every       *)
(* interface and the BIRD configuration are those of the table, and no row *)
(* is left half way.  BIRD alone may stay behind the table, if the rename  *)
(* of a dropped request is done after the last sync (see BirdCovered).     *)
(***************************************************************************)
Converges ==
    <>[](/\ mode = "up"
         /\ events = NoChanges
         /\ \A id \in PeerIds : Settled(id)
         /\ bird = BirdOf(Listing(rows)) \/ late)

(***************************************************************************)
(* The port set is finally that of the table: the reconciler repairs it    *)
(* after a reload of the firewall and after every stale write, its own     *)
(* included (sync_nft_ports lists before it locks).                        *)
(***************************************************************************)
PortsConverge == <>[](nft = PortsOf(Listing(rows)))

(***************************************************************************)
(* A request that holds a mutation lock gives it back.                     *)
(***************************************************************************)
LocksReleased == \A k \in Keys : []<>(peerLock[k] = Free)

-----------------------------------------------------------------------------
(***************************************************************************)
(* What comments and the README say of the code, and the code does not do. *)
(***************************************************************************)

(***************************************************************************)
(* The README: "`DELETE /api/peers` removes the BIRD configuration and     *)
(* WireGuard interface."                                                   *)
(***************************************************************************)
DeleteRemovesBird ==
    \A r \in Requests : proc[r].stage = "deleted" =>
        \A conf \in bird : conf.id # proc[r].id

(***************************************************************************)
(* peer.rs calls a Disabled peer "administratively down": the service does *)
(* not bring it up by itself.                                              *)
(***************************************************************************)
DisabledIsKept ==
    [][\A id \in PeerIds :
         /\ Exists(id) /\ rows[id].status = "disabled"
         /\ rows'[id] # NoRow /\ admin' = admin
         => rows'[id].status \in {"disabled", "deleting"}]_vars

=============================================================================
