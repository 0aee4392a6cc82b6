-------------------------- MODULE PeerPortsProofs --------------------------
(***************************************************************************)
(* Proof that reserve_peer never hands out a port that an interface of     *)
(* another peer still listens on, for any number of requests, machines,    *)
(* peers, ports, failures and crashes.  It holds as long as nobody but the *)
(* service writes the table: when an administrator deletes the row of a    *)
(* peer whose settings are being applied, its port is free in the table,   *)
(* and in the kernel soon is not.                                          *)
(***************************************************************************)
EXTENDS PeerCoverageProofs

USE DEF birdVars

(***************************************************************************)
(* The functions that may still configure the port which they have read    *)
(* from the row, or reserved, and that still own the row.                  *)
(***************************************************************************)
PortStages ==
    {"create", "update", "undo_update", "delete", "undo_delete", "reapply", "promote"}

Holds(l) ==
    /\ l.stage \in PortStages
    /\ Locked(l.phase)
    /\ l.phase \notin {"reserve", "read"}

(***************************************************************************)
(* The inductive invariant.  NoPortShared relates rows and interfaces; an  *)
(* interface gets its port from a process, or from the rows that recovery  *)
(* has listed, so both must still agree with the rows; and then the rows   *)
(* must have different ports.                                              *)
(***************************************************************************)
DistinctPorts ==
    \A i, j \in PeerIds : i # j /\ Exists(i) /\ Exists(j) => rows[i].port # rows[j].port

PortsHeld ==
    \A p \in Procs : Holds(proc[p]) =>
        Exists(proc[p].id) /\ rows[proc[p].id].port = proc[p].port

ListedNow == mode = "wireguard" => listed = rows

PortsOK == DistinctPorts /\ NoPortShared /\ PortsHeld /\ ListedNow

PortInv == CoverInv /\ (admin = 0 => PortsOK)

(***************************************************************************)
(* The steps that change a row or an interface, and those of others.       *)
(***************************************************************************)
LEMMA PortKinds ==
    ASSUME [Next]_vars
    PROVE  \/ UNCHANGED <<rows, wg>>
           \/ \E p \in Procs, ok \in BOOLEAN :
                \/ Activate(p, ok) \/ DropRow(p, ok) \/ EnsureInterface(p, ok)
                \/ Configure(p, ok) \/ RemoveInterface(p, ok)
           \/ \E r \in Requests, ok \in BOOLEAN :
                ReservePeer(r, ok) \/ StoreDesired(r, ok) \/ MarkDeleting(r, ok)
           \/ \E id \in PeerIds : AdminWrite(id)
           \/ \E reboot \in BOOLEAN : Crash(reboot)
           \/ RecoverStep
<1>. USE DEF storeVars
<1>1. ASSUME NEW r \in Requests, NEW k \in Keys, NEW c \in Cfgs \cup {NoCfg},
             NEW op \in {"create", "update", "delete"}, Begin(r, op, k, c)
      PROVE  UNCHANGED <<rows, wg>>
  BY <1>1 DEF Begin
<1>2. ASSUME NEW r \in Requests, RequestStep(r) \/ Cancel(r) \/ CancelRename(r)
      PROVE  \/ UNCHANGED <<rows, wg>>
             \/ \E ok \in BOOLEAN :
                  ReservePeer(r, ok) \/ StoreDesired(r, ok) \/ MarkDeleting(r, ok)
  BY <1>2 DEF RequestStep, Cancel, CancelRename, ReserveNothing, ReserveRefused, ReadPeer
<1>3. ASSUME NEW p \in Procs, SharedStep(p) \/ Fail(p)
      PROVE  \/ UNCHANGED <<rows, wg>>
             \/ \E ok \in BOOLEAN :
                  \/ Activate(p, ok) \/ DropRow(p, ok) \/ EnsureInterface(p, ok)
                  \/ Configure(p, ok) \/ RemoveInterface(p, ok)
  BY <1>3 DEF SharedStep, Fail, ConfigureRefused, ListPeers, SyncBird, SyncNft
<1>4. ListenerStep => UNCHANGED <<rows, wg>>
  BY DEF ListenerStep, TakeChange, ReadChange, Ack, delete_peer_change
<1>5. ASSUME NEW p \in Reconcilers, Tick(p)
      PROVE  UNCHANGED <<rows, wg>>
  BY <1>5 DEF Tick
<1>6. FirewallReload \/ Quiescent \/ UNCHANGED vars => UNCHANGED <<rows, wg>>
  BY DEF FirewallReload, Quiescent, vars, managerVars
<1>7. ASSUME NEW s \in strays, LateRename(s)
      PROVE  UNCHANGED <<rows, wg>>
  BY <1>7 DEF LateRename
<1>. QED BY <1>1, <1>2, <1>3, <1>4, <1>5, <1>6, <1>7 DEF Next

\* As long as admin is 0, nobody but the service has written a row.
LEMMA Untouched ==
    ASSUME IndInv, [Next]_vars, admin' = 0
    PROVE  admin = 0 /\ \A id \in PeerIds : ~AdminWrite(id)
<1>0. admin \in Nat
  BY ManagerAssumption DEF IndInv, StateOK
<1>1. ASSUME NEW r \in Requests, RequestStep(r) \/ Cancel(r) \/ CancelRename(r)
      PROVE  admin' = admin
  BY <1>1 DEF RequestStep, Cancel, CancelRename, ReserveNothing, ReserveRefused, ReadPeer,
              ReservePeer, StoreDesired, MarkDeleting, Call
<1>2. ASSUME NEW p \in Procs, SharedStep(p) \/ Fail(p)
      PROVE  admin' = admin
  BY <1>2 DEF SharedStep, Fail, ConfigureRefused, ListPeers, Activate, DropRow, EnsureInterface,
              Configure, RemoveInterface, SyncBird, SyncNft, Call
<1>3. ListenerStep => admin' = admin
  BY DEF ListenerStep, TakeChange, ReadChange, Ack, Call
<1>4. RecoverStep => admin' = admin
  <2>1. Restart \/ RecoverList \/ RecoverFail => admin' = admin
    BY DEF Restart, RecoverList, RecoverFail, Recovering
  <2>2. ASSUME NEW ok \in BOOLEAN,
               RecoverWireguard(ok) \/ RecoverNft(ok) \/ RecoverBird(ok)
               \/ RecoverRemove(ok) \/ RecoverManaged(ok) \/ RecoverChanges(ok)
               \/ RecoverDrop(ok) \/ RecoverActivate(ok)
        PROVE  admin' = admin
    BY <2>2 DEF RecoverWireguard, RecoverNft, RecoverBird, RecoverRemove, RecoverManaged,
                RecoverChanges, RecoverSweep, RecoverDrop, RecoverActivate, Recovering
  <2>. QED BY <2>1, <2>2 DEF RecoverStep
<1>5. Quiescent \/ UNCHANGED vars => admin' = admin
  BY DEF Quiescent, vars, managerVars
<1>6. \A id \in PeerIds : AdminWrite(id) => admin' = admin + 1
  BY DEF AdminWrite
<1>7. FirewallReload => admin' = admin + 1
  BY DEF FirewallReload
<1>8. \/ \E r \in Requests, k \in Keys, c \in Cfgs \cup {NoCfg},
            op \in {"create", "update", "delete"} : Begin(r, op, k, c)
      \/ \E p \in Reconcilers : Tick(p)
      \/ \E reboot \in BOOLEAN : Crash(reboot)
      \/ \E s \in strays : LateRename(s)
      => admin' = admin
  BY DEF Begin, Tick, Crash, LateRename
<1>9. admin' \in {admin, admin + 1}
  BY <1>1, <1>2, <1>3, <1>4, <1>5, <1>6, <1>7, <1>8 DEF Next
<1>. QED BY <1>0, <1>6, <1>9

(***************************************************************************)
(* Where a process that holds a port comes from.                           *)
(***************************************************************************)
LEMMA HeldId ==
    ASSUME IndInv, RunningOK, NEW p \in Procs, Holds(proc[p])
    PROVE  /\ proc[p].id \in PeerIds /\ proc[p].id # 0
           /\ Busy(p) /\ Locked(proc[p].phase) /\ proc[p].port \in Ports
<1>1. Busy(p) /\ proc[p].stage # "reconcile"
  BY DEF Holds, Locked, Busy, PortStages
<1>2. proc[p].id \in PeerIds
  BY <1>1, IdAtWork DEF Holds
<1>. QED BY <1>1, <1>2, StoreFacts, PlaceFacts DEF Holds

LEMMA SyncOn ==
    ASSUME IndInv, NEW p \in Procs, proc[p].phase \in BirdPhases \cup NftPhases
    PROVE  LET t == Branch(p, TRUE) IN
           t.phase = "idle" \/ t.stage = "change" \/ t.stage = proc[p].stage
<1>. DEFINE s == proc[p].stage
            f == proc[p].phase
            t == Branch(p, TRUE)
<1>1. s \in Stages /\ f \in PhasesOf(s)
  BY PlaceFacts
<1>2. t = Program(s, f).ok
  BY DEF Branch
<1>. HIDE DEF t
<1>3. CASE f \in BirdPhases /\ s \in ApplyStages
  <2>1. t \in {At(s, "bird_sync"), ApplyDone(s)}
    BY <1>2, <1>3, ApplyFlow DEF Go, BirdPhases
  <2>2. t.stage = s
    BY <2>1 DEF At, ApplyDone
  <2>. QED BY <2>2 DEF t
<1>4. CASE f \in BirdPhases /\ s \in RemoveStages
  <2>1. t \in {At(s, "bird_sync"), At(s, "remove_if")}
    BY <1>2, <1>4, RemoveFlow DEF Go, BirdPhases
  <2>2. t.stage = s
    BY <2>1 DEF At
  <2>. QED BY <2>2 DEF t
<1>5. CASE f \in NftPhases
  <2>1. s \in NftStages
    BY <1>1, <1>5, StagesOfPhase
  <2>2. t \in {At(s, "nft_sync"), NftDone(s)}
    BY <1>2, <1>5, <2>1, NftFlow DEF Go, NftPhases
  <2>3. t.phase = "idle" \/ t.stage = "change" \/ t.stage = s
    BY <2>1, <2>2 DEF At, Return, NftDone, NftStages
  <2>. QED BY <2>3 DEF t
<1>. QED BY <1>1, <1>3, <1>4, <1>5, StagesOfPhase

\* A process takes its port along, and the only ways to a stage with a port
\* from another one are the two compensations that apply the old settings.
LEMMA HoldsOn ==
    ASSUME IndInv, NEW p \in Procs, NEW t, Busy(p), Onto(p, t), Holds(proc'[p]),
           \/ t = Branch(p, FALSE) \/ t.phase = "idle" \/ t.stage = "change"
           \/ t.stage = proc[p].stage /\ proc[p].phase \notin {"reserve", "read"}
    PROVE  Holds(proc[p]) /\ proc'[p].id = proc[p].id /\ proc'[p].port = proc[p].port
<1>. DEFINE s == proc[p].stage
            f == proc[p].phase
<1>1. s \in Stages /\ f \in PhasesOf(s) /\ f # "idle"
  BY PlaceFacts DEF Busy
<1>2. t.stage \in PortStages /\ t.phase # "idle"
  BY DEF Onto, Holds, Locked
<1>3. proc'[p].id = proc[p].id /\ proc'[p].port = proc[p].port
  BY <1>2 DEF Onto
<1>4. s \in PortStages /\ f \notin {"reserve", "read"} => Holds(proc[p])
  BY <1>1, StagesOfPhase DEF Holds, Locked, PortStages
<1>5. CASE t = Branch(p, FALSE)
  <2>1. ErrorTurn(s, f, t)
    BY <1>1, <1>5, ErrorFlow DEF Branch
  <2>2. CASE t = At("undo_update", "desire") /\ s = "update" /\ f \in ApplyPhases
    BY <1>3, <1>4, <2>2 DEF PortStages, ApplyPhases, BirdPhases
  <2>3. CASE t = At("undo_delete", "activate") /\ s = "delete" /\ f \in RemovePhases
    BY <1>3, <1>4, <2>3 DEF PortStages, RemovePhases, BirdPhases
  <2>4. \/ t = At("undo_update", "desire") /\ s = "update" /\ f \in ApplyPhases
        \/ t = At("undo_delete", "activate") /\ s = "delete" /\ f \in RemovePhases
    BY <1>2, <2>1 DEF ErrorTurn, At, Return, PortStages
  <2>. QED BY <1>3, <2>2, <2>3, <2>4
<1>6. CASE t.stage = s /\ f \notin {"reserve", "read"}
  BY <1>2, <1>3, <1>4, <1>6
<1>. QED BY <1>2, <1>5, <1>6 DEF PortStages

LEMMA HoldsBefore ==
    ASSUME IndInv, RunningOK, EventsOK, NEW owner, Known(owner), [Next]_vars,
           NEW p \in Procs, Holds(proc'[p])
    PROVE  \/ /\ Holds(proc[p])
              /\ proc'[p].id = proc[p].id /\ proc'[p].port = proc[p].port
           \/ p \in Requests /\ ReservePeer(p, TRUE)
           \/ /\ rows' = rows /\ Exists(proc'[p].id)
              /\ proc'[p].port = rows[proc'[p].id].port
<1>. DEFINE Before == /\ Holds(proc[p])
                      /\ proc'[p].id = proc[p].id /\ proc'[p].port = proc[p].port
            Now == /\ rows' = rows /\ Exists(proc'[p].id)
                   /\ proc'[p].port = rows[proc'[p].id].port
<1>0. Busy(p)'
  BY DEF Holds, Locked, Busy
<1>1. proc'[p] = proc[p] => Before
  OBVIOUS
<1>. HIDE DEF Before
<1>2. ASSUME NEW q \in Procs, NEW t, Busy(q), Onto(q, t),
             \/ t = Branch(q, FALSE) \/ t.phase = "idle" \/ t.stage = "change"
             \/ t.stage = proc[q].stage /\ proc[q].phase \notin {"reserve", "read"}
      PROVE  Before
  <2>1. CASE q = p
    BY <1>2, <2>1, HoldsOn DEF Before
  <2>2. CASE q # p
    BY <1>1, <1>2, <2>2 DEF Onto
  <2>. QED BY <2>1, <2>2
<1>3. ASSUME NEW q \in Procs, NEW t, Moves(q, t)
      PROVE  Before
  <2>1. Busy(q) /\ Onto(q, t)
    BY <1>3, MoveLeads DEF Moves
  <2>2. t \in {Return("failed"), Return("tested")} => t.phase = "idle"
    BY DEF Return, At
  <2>3. proc[q].phase \in BirdPhases \cup NftPhases => proc[q].phase \notin {"reserve", "read"}
    BY DEF BirdPhases, NftPhases
  <2>. QED BY <1>2, <1>3, <2>1, <2>2, <2>3, SyncOn DEF Moves
<1>4. ASSUME NEW q \in Procs, NEW ok \in BOOLEAN, Writes(q, ok)
      PROVE  Before
  <2>. DEFINE t == Branch(q, RowWritten(q, ok))
  <2>1. Busy(q) /\ Onto(q, t) /\ proc[q].phase \notin {"reserve", "read"}
    BY <1>4, WriteLeads DEF Writes
  <2>2. ~RowWritten(q, ok) => t = Branch(q, FALSE)
    BY DEF Branch
  <2>3. RowWritten(q, ok) => t.stage = proc[q].stage \/ t.phase = "idle"
    BY <1>4, WritePlaces DEF Writes
  <2>. QED BY <1>2, <2>1, <2>2, <2>3
<1>5. ASSUME NEW q \in Procs, NEW ok \in BOOLEAN, NEW device, Touches(q, ok, device)
      PROVE  Before
  <2>. DEFINE t == Branch(q, ok)
  <2>1. /\ Busy(q) /\ Onto(q, t) /\ proc[q].phase \notin {"reserve", "read"}
        /\ ok => t \in {At(proc[q].stage, "configure"), At(proc[q].stage, "bird_list"),
                        RemoveDone(proc[q].stage)}
    BY <1>5, TouchLeads DEF Touches
  <2>2. ~ok => t = Branch(q, FALSE)
    BY <1>5
  <2>. HIDE DEF t
  <2>3. ok => t.stage = proc[q].stage
    BY <2>1 DEF At, RemoveDone
  <2>. QED BY <1>2, <1>5, <2>1, <2>2, <2>3
<1>6. ASSUME NEW r \in Requests, NEW ok \in BOOLEAN, ReservePeer(r, ok)
      PROVE  Before \/ (p \in Requests /\ ReservePeer(p, TRUE))
  <2>1. CASE r = p
    <3>1. ok
      BY <1>0, <1>6, <2>1, ReserveFacts DEF Busy
    <3>. QED BY <1>6, <2>1, <3>1
  <2>2. CASE r # p
    BY <1>1, <1>6, <2>2, ReserveFacts
  <2>. QED BY <2>1, <2>2
<1>7. ASSUME NEW r \in Requests, NEW l, Reads(r, l)
      PROVE  Before \/ Now
  <2>1. CASE r = p
    <3>1. proc'[p] = l
      BY <1>7, <2>1, RequestReads
    <3>2. rows' = rows /\ Exists(l.id) /\ l.port = rows[l.id].port
      BY <1>7 DEF Reads
    <3>. QED BY <3>1, <3>2 DEF Exists
  <2>2. CASE r # p
    BY <1>1, <1>7, <2>2, RequestReads DEF Advances
  <2>. QED BY <2>1, <2>2
<1>8. CASE ReadChange
  <2>1. CASE p = Listener
    <3>1. proc'[p].stage = ChangeStage(rows[proc[p].id]) /\ proc'[p].stage \in PortStages
      BY <1>8, <2>1, ReadFacts DEF Holds
    <3>2. rows[proc[p].id] # NoRow
      BY <3>1 DEF ChangeStage, PortStages
    <3>. QED BY <1>8, <2>1, <3>2, ReadFacts DEF Exists
  <2>2. CASE p # Listener
    BY <1>1, <1>8, <2>2, ReadFacts
  <2>. QED BY <2>1, <2>2
<1>9. ASSUME NEW c \in Change, TakeChange(c)
      PROVE  Before
  <2>1. p # Listener
    BY <1>9, TakeFacts DEF Holds, PortStages
  <2>. QED BY <1>1, <1>9, <2>1, TakeFacts
<1>10. ASSUME NEW ok \in BOOLEAN, Ack(ok)
       PROVE  Before
  BY <1>0, <1>1, <1>10, AckFacts
<1>11. ASSUME NEW q \in Procs, NEW l, Starts(q, l)
       PROVE  Before
  <2>1. CASE q = p
    <3>1. ~Holds(l)
      BY <1>11 DEF Starts, Holds, PortStages
    <3>. QED BY <1>11, <2>1, <3>1, StartFacts
  <2>2. CASE q # p
    BY <1>1, <1>11, <2>2, StartFacts DEF Advances
  <2>. QED BY <2>1, <2>2
<1>12. ASSUME NEW reboot \in BOOLEAN, Crash(reboot)
       PROVE  FALSE
  BY <1>0, <1>12, CrashFacts
<1>13. Rests \/ (\E id \in PeerIds : \E row : Intervenes(id, row)) \/ RecoverStep => Before
  BY <1>1, RecoverModes DEF Rests, Intervenes
<1>. QED BY <1>3, <1>4, <1>5, <1>6, <1>7, <1>8, <1>9, <1>10, <1>11, <1>12, <1>13, Kinds
         DEF Before

(***************************************************************************)
(* A row keeps its port, and a new row has one that is free.               *)
(***************************************************************************)
LEMMA NewPort ==
    ASSUME IndInv, NEW owner, Known(owner), NEW r \in Requests, NEW ok \in BOOLEAN,
           ReservePeer(r, ok)
    PROVE  /\ nextId \in PeerIds /\ ~Exists(nextId) /\ rows'[nextId] # NoRow
           /\ rows'[nextId].port \in FreePorts
           /\ ok => proc'[r].id = nextId /\ proc'[r].port = rows'[nextId].port
           /\ \A id \in PeerIds \ {nextId} : rows'[id] = rows[id]
           /\ wg' = wg /\ mode = "up" /\ mode' = "up"
<1>. DEFINE me == proc[r]
            port == FirstPort(me.key)
            row == [key |-> me.key, cfg |-> me.cfg, port |-> port, status |-> "provisioning"]
<1>0. /\ r \in Procs /\ rows \in [PeerIds -> Peer \cup {NoRow}]
      /\ me \in Local /\ proc \in [Procs -> Local]
  BY DEF Procs, IndInv, StateOK, StoreTypeOK, ProcOK
<1>1. /\ nextId \in PeerIds /\ ~Exists(nextId) /\ rows'[nextId] # NoRow /\ me.key \in Keys
      /\ \A id \in PeerIds \ {nextId} : rows'[id] = rows[id]
  BY GrowsInserted DEF Exists
<1>2. port \in FreePorts
  BY <1>1, FirstPortOK DEF ReservePeer
<1>3. rows' = [rows EXCEPT ![nextId] = row]
  BY DEF ReservePeer, Insert, WriteRow
<1>4. rows'[nextId].port = port
  BY <1>0, <1>1, <1>3
<1>. HIDE DEF port
<1>5. ASSUME ok
      PROVE  proc'[r].id = nextId /\ proc'[r].port = port
  <2>. DEFINE l == [Moved(me, Branch(r, TRUE), {}) EXCEPT !.id = nextId, !.port = port]
  <2>1. proc' = [proc EXCEPT ![r] = l]
    BY <1>5 DEF ReservePeer, port
  <2>2. Branch(r, TRUE) = At("create", "ensure")
    BY ReserveFacts, FirstSteps DEF Branch
  <2>3. l.id = nextId /\ l.port = port
    BY <1>0, <2>2 DEF Moved, Local, At
  <2>. HIDE DEF l
  <2>. QED BY <1>0, <2>1, <2>3
<1>. QED BY <1>1, <1>2, <1>4, <1>5, ReserveFacts

LEMMA RecoverPorts ==
    ASSUME IndInv, RecoverStep
    PROVE  \A id \in PeerIds : Exists(id)' => Exists(id) /\ rows'[id].port = rows[id].port
<1>0. rows \in [PeerIds -> Peer \cup {NoRow}]
  BY DEF IndInv, StateOK, StoreTypeOK
<1>1. Restart \/ RecoverList \/ RecoverFail => rows' = rows
  BY DEF Restart, RecoverList, RecoverFail, storeVars
<1>2. ASSUME NEW ok \in BOOLEAN,
             RecoverWireguard(ok) \/ RecoverNft(ok) \/ RecoverBird(ok)
             \/ RecoverRemove(ok) \/ RecoverManaged(ok) \/ RecoverChanges(ok)
      PROVE  rows' = rows
  BY <1>2 DEF RecoverWireguard, RecoverNft, RecoverBird, RecoverRemove, RecoverManaged,
              RecoverChanges, RecoverSweep
<1>3. ASSUME NEW ok \in BOOLEAN, RecoverDrop(ok)
      PROVE  \A id \in PeerIds : Exists(id)' => rows'[id] = rows[id]
  BY <1>3 DEF RecoverDrop, delete_rows, Exists
<1>4. ASSUME NEW ok \in BOOLEAN, RecoverActivate(ok), NEW id \in PeerIds
      PROVE  Exists(id)' => Exists(id) /\ rows'[id].port = rows[id].port
  <2>1. PICK done : activate_rows(done) /\ \A i \in done : Exists(i)
    BY <1>4 DEF RecoverActivate
  <2>2. rows'[id] = IF id \in done THEN [rows[id] EXCEPT !.status = "active"] ELSE rows[id]
    BY <2>1 DEF activate_rows
  <2>3. Exists(id) => [rows[id] EXCEPT !.status = "active"].port = rows[id].port
    BY <1>0 DEF Exists, Peer
  <2>. QED BY <2>1, <2>2, <2>3 DEF Exists
<1>. QED BY <1>1, <1>2, <1>3, <1>4 DEF RecoverStep, Exists

LEMMA RowPorts ==
    ASSUME IndInv, RunningOK, PortsHeld, [Next]_vars, \A id \in PeerIds : ~AdminWrite(id)
    PROVE  \/ \E r \in Requests, ok \in BOOLEAN : ReservePeer(r, ok)
           \/ \A id \in PeerIds : Exists(id)' => Exists(id) /\ rows'[id].port = rows[id].port
<1>. DEFINE Kept == \A id \in PeerIds : Exists(id)' => Exists(id) /\ rows'[id].port = rows[id].port
<1>0. rows \in [PeerIds -> Peer \cup {NoRow}] /\ Requests \subseteq Procs
  BY DEF IndInv, StateOK, StoreTypeOK, Procs
<1>1. rows' = rows => Kept
  BY DEF Exists
<1>2. ASSUME NEW i \in PeerIds, Exists(i), NEW row, rows' = [rows EXCEPT ![i] = row],
             row.port = rows[i].port
      PROVE  Kept
  BY <1>0, <1>2 DEF Exists
<1>. HIDE DEF Kept
<1>3. ASSUME NEW i, NEW status, i \in PeerIds, set_status(i, status)
      PROVE  Kept
  <2>1. CASE Exists(i)
    <3>1. [rows[i] EXCEPT !.status = status].port = rows[i].port
      BY <1>0, <1>3, <2>1 DEF Exists, Peer
    <3>. QED BY <1>2, <1>3, <2>1, <3>1 DEF set_status, WriteRow
  <2>2. CASE ~Exists(i)
    BY <1>1, <1>3, <2>2 DEF set_status
  <2>. QED BY <2>1, <2>2
<1>4. ASSUME NEW p \in Procs, NEW ok \in BOOLEAN, Activate(p, ok) \/ MarkDeleting(p, ok)
      PROVE  Kept
  <2>1. Busy(p) /\ proc[p].phase \in {"activate", "mark"}
    BY <1>4 DEF Activate, MarkDeleting, Call, Busy
  <2>2. proc[p].id \in PeerIds
    BY <2>1, IdAtWork, PlaceFacts, StagesOfPhase
  <2>. QED BY <1>3, <1>4, <2>2 DEF Activate, MarkDeleting
<1>5. ASSUME NEW p \in Procs, NEW ok \in BOOLEAN, DropRow(p, ok)
      PROVE  Kept
  <2>1. \A id \in PeerIds : Exists(id)' => rows'[id] = rows[id]
    BY <1>0, <1>5 DEF DropRow, delete_row, Exists
  <2>. QED BY <2>1 DEF Kept, Exists
<1>6. ASSUME NEW r \in Requests, NEW ok \in BOOLEAN, StoreDesired(r, ok)
      PROVE  Kept
  <2>. DEFINE i == proc[r].id
              row == [rows[i] EXCEPT !.cfg = proc[r].cfg, !.port = proc[r].port,
                                     !.status = "provisioning"]
  <2>1. proc[r].phase = "desire" /\ r \in Procs
    BY <1>0, <1>6 DEF StoreDesired, Call
  <2>2. proc[r].stage \in {"update", "undo_update"}
    BY <2>1, PlaceFacts, StagesOfPhase
  <2>3. Holds(proc[r])
    BY <2>1, <2>2 DEF Holds, PortStages, Locked
  <2>4. i \in PeerIds /\ Exists(i) /\ rows[i].port = proc[r].port
    BY <2>1, <2>3, HeldId DEF PortsHeld
  <2>5. row.port = rows[i].port
    BY <1>0, <2>4 DEF Exists, Peer
  <2>6. rows' = [rows EXCEPT ![i] = row]
    BY <1>6, <2>4 DEF StoreDesired, update_peer_desired, WriteRow
  <2>. HIDE DEF row, i
  <2>. QED BY <1>2, <2>4, <2>5, <2>6
<1>7. ASSUME NEW p \in Procs, NEW ok \in BOOLEAN,
             EnsureInterface(p, ok) \/ Configure(p, ok) \/ RemoveInterface(p, ok)
      PROVE  Kept
  BY <1>1, <1>7 DEF EnsureInterface, Configure, RemoveInterface, storeVars
<1>8. (\E reboot \in BOOLEAN : Crash(reboot)) \/ RecoverStep => Kept
  BY <1>1, RecoverPorts DEF Crash, storeVars, Kept
<1>. QED BY <1>0, <1>1, <1>4, <1>5, <1>6, <1>7, <1>8, PortKinds DEF Kept

(***************************************************************************)
(* While a process holds a port, nobody deletes the row.                   *)
(***************************************************************************)
LEMMA RowHeld ==
    ASSUME IndInv, RunningOK, NEW owner, Known(owner), PortsHeld, [Next]_vars,
           \A id \in PeerIds : ~AdminWrite(id),
           NEW p \in Procs, Holds(proc[p]), Holds(proc'[p]), NEW id, proc[p].id = id
    PROVE  Exists(id)'
<1>1. id \in PeerIds /\ id # 0 /\ Busy(p) /\ Locked(proc[p].phase) /\ Exists(id)
  BY HeldId DEF PortsHeld
<1>0. rows \in [PeerIds -> Peer \cup {NoRow}] /\ Requests \subseteq Procs
  BY DEF IndInv, StateOK, StoreTypeOK, Procs
<1>2. ASSUME NEW q \in Procs, NEW ok \in BOOLEAN, DropRow(q, ok)
      PROVE  Exists(id)'
  <2>1. CASE proc[q].id # id
    BY <1>0, <1>1, <1>2, <2>1 DEF DropRow, delete_row, Exists
  <2>2. CASE proc[q].id = id
    <3>1. proc[q].phase = "drop_row"
      BY <1>2 DEF DropRow, Call
    <3>2. q = p
      BY <1>1, <2>2, <3>1, Alone DEF Locked
    <3>3. proc[p].stage = "delete"
      BY <3>1, <3>2, PlaceFacts, StagesOfPhase DEF Holds, PortStages
    <3>4. PICK t : Goto(p, t, {}) /\ t \in {Return("deleted"), Return("failed")}
      BY <1>2, <3>1, <3>2, <3>3, DropFlow DEF DropRow, Continue, Branch, Go
    <3>5. t.phase = "idle"
      BY <3>4 DEF Return, At
    <3>6. proc'[p].phase = "idle"
      BY <3>4, <3>5, GotoOnto DEF Onto
    <3>. QED BY <3>6 DEF Holds, Locked
  <2>. QED BY <2>1, <2>2
<1>3. ASSUME NEW q \in Procs, NEW ok \in BOOLEAN,
             Activate(q, ok) \/ MarkDeleting(q, ok) \/ StoreDesired(q, ok)
      PROVE  Exists(id)'
  <2>1. Busy(q) /\ proc[q].phase \in {"activate", "mark", "desire"}
    BY <1>3 DEF Activate, MarkDeleting, StoreDesired, Call, Busy
  <2>2. proc[q].id \in PeerIds /\ proc[q].cfg \in Cfgs \cup {NoCfg} /\ proc[q].port \in Ports
        /\ (proc[q].phase = "desire" => proc[q].cfg \in Cfgs)
    BY <2>1, IdAtWork, PlaceFacts, StagesOfPhase DEF Local
  <2>3. \/ UNCHANGED <<rows, events>>
        \/ \E row : Written(proc[q].id, row) /\ row # NoRow
    BY <1>3, <2>1, <2>2, StoreFacts, StatusWritten, DesiredWritten
       DEF Activate, MarkDeleting, StoreDesired, Call, Statuses
  <2>. QED BY <1>0, <1>1, <2>2, <2>3 DEF Written, Exists
<1>4. ASSUME NEW r \in Requests, NEW ok \in BOOLEAN, ReservePeer(r, ok)
      PROVE  Exists(id)'
  BY <1>1, <1>4, NewPort DEF Exists
<1>5. ASSUME NEW q \in Procs, NEW ok \in BOOLEAN,
             EnsureInterface(q, ok) \/ Configure(q, ok) \/ RemoveInterface(q, ok)
      PROVE  Exists(id)'
  BY <1>1, <1>5 DEF EnsureInterface, Configure, RemoveInterface, storeVars, Exists
<1>6. (\E reboot \in BOOLEAN : Crash(reboot)) \/ UNCHANGED <<rows, wg>> => Exists(id)'
  BY <1>1 DEF Crash, storeVars, Exists
<1>7. ~RecoverStep
  BY <1>1, RecoverModes DEF RunningOK
<1>. QED BY <1>0, <1>2, <1>3, <1>4, <1>5, <1>6, <1>7, PortKinds

(***************************************************************************)
(* An interface keeps its port, loses it, or gets the one of its row.      *)
(***************************************************************************)
LEMMA WgPorts ==
    ASSUME IndInv, RunningOK, PortsHeld, ListedNow, [Next]_vars, NEW id \in PeerIds,
           wg'[id] \in Device
    PROVE  \/ wg[id] \in Device /\ wg'[id].port = wg[id].port
           \/ wg'[id].port = NoPort
           \/ Exists(id) /\ wg'[id].port = rows[id].port
<1>. DEFINE Ok == \/ wg[id] \in Device /\ wg'[id].port = wg[id].port
                  \/ wg'[id].port = NoPort
                  \/ Exists(id) /\ wg'[id].port = rows[id].port
<1>0. /\ wg \in [PeerIds -> Device \cup {NoIface, Unaliased}] /\ Requests \subseteq Procs
      /\ Unaliased \notin Device /\ NoIface \notin Device
  BY ManagerAssumption DEF IndInv, StateOK, Procs
<1>1. wg' = wg => Ok
  OBVIOUS
<1>2. ASSUME wg'[id] = NoIface \/ wg'[id] = Unaliased
      PROVE  Ok
  BY <1>0, <1>2
<1>3. ASSUME NEW cfg, wg'[id] = Ensured(wg[id], cfg)
      PROVE  Ok
  <2>1. CASE wg[id] \in Device
    BY <1>3, <2>1 DEF Ensured, Device
  <2>2. CASE wg[id] \notin Device
    BY <1>3, <2>2 DEF Ensured
  <2>. QED BY <2>1, <2>2
<1>. HIDE DEF Ok
<1>4. ASSUME NEW p \in Procs, NEW ok \in BOOLEAN, EnsureInterface(p, ok)
      PROVE  Ok
  <2>1. \/ wg' = [wg EXCEPT ![proc[p].id] = Ensured(wg[proc[p].id], proc[p].cfg)]
        \/ wg' = [wg EXCEPT ![proc[p].id] = Unaliased]
    BY <1>4 DEF EnsureInterface
  <2>2. CASE proc[p].id = id
    BY <1>0, <1>2, <1>3, <2>1, <2>2
  <2>3. CASE proc[p].id # id
    BY <1>0, <2>1, <2>3 DEF Ok
  <2>. QED BY <2>2, <2>3
<1>5. ASSUME NEW p \in Procs, NEW ok \in BOOLEAN, Configure(p, ok)
      PROVE  Ok
  <2>0. PICK cfg : wg' = [wg EXCEPT ![proc[p].id] = [cfg |-> cfg, port |-> proc[p].port]]
    BY <1>5 DEF Configure
  <2>1. proc[p].phase = "configure"
    BY <1>5 DEF Configure, Call
  <2>2. proc[p].stage \in ApplyStages
    BY <2>1, PlaceFacts, StagesOfPhase
  <2>3. Holds(proc[p])
    BY <2>1, <2>2 DEF Holds, PortStages, ApplyStages, Locked
  <2>4. Exists(proc[p].id) /\ rows[proc[p].id].port = proc[p].port
    BY <2>3 DEF PortsHeld
  <2>5. CASE proc[p].id = id
    <3>1. wg'[id].port = proc[p].port
      BY <1>0, <2>0, <2>5
    <3>. QED BY <2>4, <2>5, <3>1 DEF Ok
  <2>6. CASE proc[p].id # id
    BY <1>0, <2>0, <2>6 DEF Ok
  <2>. QED BY <2>5, <2>6
<1>6. ASSUME NEW p \in Procs, NEW ok \in BOOLEAN, RemoveInterface(p, ok)
      PROVE  Ok
  BY <1>0, <1>2, <1>6 DEF RemoveInterface, Ok
<1>7. ASSUME NEW ok \in BOOLEAN, RecoverWireguard(ok)
      PROVE  Ok
  <2>1. listed = rows
    BY <1>7 DEF RecoverWireguard, Recovering, ListedNow
  <2>. DEFINE clear == {i \in Desired : ~PortClash(i, listed[i].port)}
              Done(done, half, device) ==
                [i \in PeerIds |-> CASE i = half   -> device
                                     [] i \in done  -> DeviceOf(listed[i])
                                     [] OTHER        -> wg[i]]
              Half(half) == {Ensured(wg[half], listed[half].cfg)}
                            \cup (IF wg[half] = NoIface THEN {Unaliased} ELSE {})
  <2>2. \E done \in IF ok THEN {Desired} ELSE SUBSET clear :
        \E half \in IF ok THEN {0} ELSE {0} \cup (Desired \ done) :
        \E device \in IF half = 0 THEN {NoIface} ELSE Half(half) :
          wg' = Done(done, half, device)
    BY <1>7 DEF RecoverWireguard
  <2>. HIDE DEF Done, Half
  <2>3. PICK done, half, device :
          /\ done \subseteq Desired
          /\ wg' = Done(done, half, device)
          /\ half # 0 => device \in Half(half) /\ half \notin done
    BY <2>2
  <2>4. id # 0
    BY StoreFacts
  <2>5. CASE id = half
    <3>1. wg'[id] = device
      BY <2>3, <2>4, <2>5 DEF Done
    <3>2. device \in Half(half)
      BY <2>3, <2>4, <2>5
    <3>3. device \in {Ensured(wg[id], listed[id].cfg), Unaliased}
      BY <2>5, <3>2 DEF Half
    <3>. QED BY <1>2, <1>3, <3>1, <3>3 DEF Ok
  <2>6. CASE id # half /\ id \in done
    <3>1. wg'[id] = DeviceOf(rows[id]) /\ Exists(id)
      BY <2>1, <2>3, <2>6 DEF Done, Desired, Wanted, Exists
    <3>. QED BY <3>1 DEF DeviceOf, Ok
  <2>7. CASE id # half /\ id \notin done
    BY <2>3, <2>7 DEF Done, Ok
  <2>. QED BY <2>5, <2>6, <2>7
<1>8. CASE RecoverStep
  <2>1. CASE mode # "wireguard"
    <3>1. wg'[id] = wg[id] \/ wg'[id] = NoIface
      BY <1>8, <2>1, RecoverWg
    <3>. QED BY <1>2, <3>1 DEF Ok
  <2>2. CASE mode = "wireguard"
    <3>1. \/ \E ok \in BOOLEAN : RecoverWireguard(ok)
          \/ RecoverFail
      BY <1>8, <2>2 DEF RecoverStep, Restart, RecoverList, RecoverNft, RecoverBird, RecoverRemove,
            RecoverManaged, RecoverChanges, RecoverSweep, RecoverDrop, RecoverActivate, Recovering
    <3>. QED BY <1>1, <1>7, <3>1 DEF RecoverFail, Ok
  <2>. QED BY <2>1, <2>2
<1>9. ASSUME NEW reboot \in BOOLEAN, Crash(reboot)
      PROVE  Ok
  BY <1>1, <1>2, <1>9, CrashFacts
<1>10. ASSUME NEW p \in Procs, NEW ok \in BOOLEAN,
              \/ Activate(p, ok) \/ DropRow(p, ok)
              \/ StoreDesired(p, ok) \/ MarkDeleting(p, ok)
       PROVE  Ok
  BY <1>1, <1>10 DEF Activate, DropRow, StoreDesired, MarkDeleting
<1>11. ASSUME NEW r \in Requests, NEW ok \in BOOLEAN, ReservePeer(r, ok)
       PROVE  Ok
  BY <1>1, <1>11 DEF ReservePeer
<1>12. (\E i \in PeerIds : AdminWrite(i)) \/ UNCHANGED <<rows, wg>> => Ok
  BY <1>1 DEF AdminWrite
<1>. QED BY <1>0, <1>4, <1>5, <1>6, <1>8, <1>9, <1>10, <1>11, <1>12, PortKinds DEF Ok

(***************************************************************************)
(* The invariant holds at the start and is kept.                           *)
(***************************************************************************)
LEMMA PortsInit ==
    ASSUME Init
    PROVE  PortsOK
<1>1. \A i, j \in PeerIds : i # j /\ Exists(i) /\ Exists(j) => rows[i].port # rows[j].port
  BY ManagerAssumption DEF Init, Exists
<1>2. \A j \in PeerIds : wg[j] \in Device => Exists(j) /\ wg[j].port = rows[j].port
  BY ManagerAssumption DEF Init, DeviceFor, DeviceOf, Wanted, Exists
<1>3. DistinctPorts /\ NoPortShared
  BY <1>1, <1>2 DEF DistinctPorts, NoPortShared
<1>4. PortsHeld /\ ListedNow
  BY DEF Init, PortsHeld, ListedNow, Holds, Blank, PortStages
<1>. QED BY <1>3, <1>4 DEF PortsOK

LEMMA PortsHeldStep ==
    ASSUME IndInv, RunningOK, EventsOK, NEW owner, Known(owner), PortsHeld, [Next]_vars,
           \A id \in PeerIds : ~AdminWrite(id)
    PROVE  PortsHeld'
<1>1. ASSUME NEW p \in Procs, Holds(proc'[p]), NEW id, id = proc'[p].id
      PROVE  rows'[id] # NoRow /\ rows'[id].port = proc'[p].port
  <2>1. CASE Holds(proc[p]) /\ proc'[p].id = proc[p].id /\ proc'[p].port = proc[p].port
    <3>1. id \in PeerIds /\ Exists(id) /\ rows[id].port = proc[p].port
      BY <1>1, <2>1, HeldId DEF PortsHeld
    <3>2. rows'[id] # NoRow
      BY <1>1, <2>1, RowHeld DEF Exists
    <3>3. rows'[id].port = rows[id].port
      BY <3>1, <3>2, RowPorts, NewPort DEF Exists
    <3>. QED BY <2>1, <3>1, <3>2, <3>3
  <2>2. CASE p \in Requests /\ ReservePeer(p, TRUE)
    BY <1>1, <2>2, NewPort
  <2>3. CASE /\ rows' = rows /\ Exists(proc'[p].id)
             /\ proc'[p].port = rows[proc'[p].id].port
    BY <1>1, <2>3 DEF Exists
  <2>. QED BY <1>1, <2>1, <2>2, <2>3, HoldsBefore
<1>. QED BY <1>1 DEF PortsHeld, Exists

LEMMA ListedNowStep ==
    ASSUME IndInv, RunningOK, ListedNow, [Next]_vars, \A id \in PeerIds : ~AdminWrite(id)
    PROVE  ListedNow'
<1>. SUFFICES ASSUME mode' = "wireguard"
              PROVE  listed' = rows'
  BY DEF ListedNow
<1>1. CASE RecoverStep
  <2>1. CASE RecoverList
    BY <2>1 DEF RecoverList, storeVars
  <2>2. CASE Restart
    BY <2>2 DEF Restart
  <2>3. CASE RecoverFail
    BY <2>3 DEF RecoverFail, Recovering
  <2>4. ASSUME NEW ok \in BOOLEAN,
               \/ RecoverWireguard(ok) \/ RecoverNft(ok) \/ RecoverBird(ok)
               \/ RecoverRemove(ok) \/ RecoverManaged(ok) \/ RecoverChanges(ok)
               \/ RecoverDrop(ok) \/ RecoverActivate(ok)
        PROVE  FALSE
    BY <2>4 DEF RecoverWireguard, RecoverNft, RecoverBird, RecoverRemove, RecoverManaged,
                RecoverChanges, RecoverSweep, RecoverDrop, RecoverActivate, Recovering
  <2>. QED BY <1>1, <2>1, <2>2, <2>3, <2>4 DEF RecoverStep
<1>2. CASE ~RecoverStep
  <2>1. mode = "wireguard" /\ listed' = listed
    BY <1>2, ModeKinds
  <2>2. rows' = rows
    <3>1. mode # "up"
      BY <2>1
    <3>2. ASSUME NEW p \in Procs, NEW ok \in BOOLEAN,
                 \/ Activate(p, ok) \/ DropRow(p, ok) \/ EnsureInterface(p, ok)
                 \/ Configure(p, ok) \/ RemoveInterface(p, ok)
                 \/ ReservePeer(p, ok) \/ StoreDesired(p, ok) \/ MarkDeleting(p, ok)
          PROVE  FALSE
      BY <3>1, <3>2 DEF Activate, DropRow, EnsureInterface, Configure, RemoveInterface,
                        ReservePeer, StoreDesired, MarkDeleting, Call
    <3>3. (\E reboot \in BOOLEAN : Crash(reboot)) => rows' = rows
      BY DEF Crash, storeVars
    <3>. QED BY <1>2, <3>2, <3>3, PortKinds DEF Procs
  <2>. QED BY <2>1, <2>2 DEF ListedNow
<1>. QED BY <1>1, <1>2

LEMMA PortsStep ==
    ASSUME CoverInv, PortsOK, [Next]_vars, \A id \in PeerIds : ~AdminWrite(id)
    PROVE  PortsOK'
<1>. USE DEF CoverInv, PortsOK
<1>0. PICK owner : Known(owner)
  BY DEF OwnerOK
<1>1. PortsHeld' /\ ListedNow'
  BY <1>0, PortsHeldStep, ListedNowStep
<1>2. \A id \in PeerIds : Exists(id) => rows[id].port \in Ports
  BY StoreFacts DEF StoreTypeOK, Exists, Peer
<1>3. CASE \E r \in Requests, ok \in BOOLEAN : ReservePeer(r, ok)
  <2>1. /\ nextId \in PeerIds /\ wg' = wg
        /\ \A id \in PeerIds \ {nextId} : rows'[id] = rows[id]
        /\ rows'[nextId].port \in FreePorts
    BY <1>0, <1>3, NewPort
  <2>2. \A id \in PeerIds : Exists(id) => rows'[nextId].port # rows[id].port
    BY <2>1 DEF FreePorts, PortTaken
  <2>3. \A id \in PeerIds : wg[id] \in Device => rows'[nextId].port # wg[id].port
    BY <2>1 DEF FreePorts, InKernel
  <2>4. DistinctPorts'
    BY <2>1, <2>2 DEF DistinctPorts, Exists
  <2>5. NoPortShared'
    BY <2>1, <2>3 DEF NoPortShared, Exists
  <2>. QED BY <1>1, <2>4, <2>5
<1>4. CASE \A id \in PeerIds : Exists(id)' => Exists(id) /\ rows'[id].port = rows[id].port
  <2>1. DistinctPorts'
    BY <1>4 DEF DistinctPorts
  <2>2. ASSUME NEW i \in PeerIds, NEW j \in PeerIds, i # j, Exists(i)', wg'[j] \in Device
        PROVE  wg'[j].port # rows'[i].port
    <3>1. Exists(i) /\ rows'[i].port = rows[i].port /\ rows[i].port \in Ports
      BY <1>2, <1>4, <2>2
    <3>2. CASE wg[j] \in Device /\ wg'[j].port = wg[j].port
      BY <2>2, <3>1, <3>2 DEF NoPortShared
    <3>3. CASE wg'[j].port = NoPort
      BY <3>1, <3>3, ManagerAssumption
    <3>4. CASE Exists(j) /\ wg'[j].port = rows[j].port
      BY <2>2, <3>1, <3>4 DEF DistinctPorts
    <3>. QED BY <2>2, <3>2, <3>3, <3>4, WgPorts
  <2>3. NoPortShared'
    BY <2>2 DEF NoPortShared
  <2>. QED BY <1>1, <2>1, <2>3
<1>. QED BY <1>3, <1>4, RowPorts

LEMMA PortInvariant == Spec => []PortInv
<1>1. Init => PortInv
  BY CoverInit, PortsInit DEF PortInv
<1>2. PortInv /\ [Next]_vars => PortInv'
  <2>. SUFFICES ASSUME PortInv, [Next]_vars
                PROVE  PortInv'
    OBVIOUS
  <2>1. CoverInv'
    BY CoverStep DEF PortInv
  <2>2. ASSUME admin' = 0
        PROVE  PortsOK'
    <3>1. admin = 0 /\ \A id \in PeerIds : ~AdminWrite(id)
      BY <2>2, Untouched DEF PortInv, CoverInv
    <3>. QED BY <3>1, PortsStep DEF PortInv
  <2>. QED BY <2>1, <2>2 DEF PortInv
<1>. QED BY <1>1, <1>2, PTL DEF Spec

(***************************************************************************)
(* reserve_peer never hands out a port on which the interface of another   *)
(* peer listens, and no path through compensation, the listener or         *)
(* recovery gives one to an interface, as long as nobody but the service   *)
(* has written the table.                                                  *)
(***************************************************************************)
THEOREM NoPortTwice == Spec => [](admin = 0 => NoPortShared)
<1>1. PortInv => (admin = 0 => NoPortShared)
  BY DEF PortInv, PortsOK
<1>. QED BY <1>1, PortInvariant, PTL
=============================================================================
