------------------------- MODULE PeerCoverageProofs -------------------------
(***************************************************************************)
(* Proofs that PeerManager forgets no change: whatever requests, the       *)
(* listener, administrators, crashes and recovery do, an interface and the *)
(* BIRD configuration are those of the table, or a durable event is left   *)
(* that leads to them; only BIRD may be changed once more without an       *)
(* event, by a rename that a dropped request left behind.  For any number  *)
(* of requests, machines, peers, ports, failures, crashes, late renames    *)
(* and changes from outside.                                               *)
(***************************************************************************)
EXTENDS PeerManagerProofs

USE DEF birdVars

(***************************************************************************)
(* The listener deletes the event it handles when it has given up the      *)
(* mutation lock.  That event is therefore no cover for a request that     *)
(* works on the same peer meanwhile: what counts are the events beside it. *)
(***************************************************************************)
Handled == [id |-> proc[Listener].id, key |-> proc[Listener].key, op |-> proc[Listener].op]

Left(c) == events[c] > IF Busy(Listener) /\ c = Handled THEN 1 ELSE 0

More(id) == \E c \in Change : c.id = id /\ Left(c)
MoreDelete(id) == \E c \in Change : c.id = id /\ c.op = "delete" /\ Left(c)
AnyLeft == \E c \in Change : Left(c)

DeletePending(id) == \E c \in Change : c.id = id /\ c.op = "delete" /\ events[c] > 0

(***************************************************************************)
(* Every id belongs to one machine for good: ids are not reused, so rows,  *)
(* events and processes agree on the key of an id.  This is why the lock   *)
(* of a machine, which is taken by key, protects what is found by id.      *)
(***************************************************************************)
Known(owner) ==
    /\ owner \in [PeerIds -> Keys \cup {NoKey}]
    /\ \A id \in PeerIds : Exists(id) => rows[id].key = owner[id] /\ id < nextId
    /\ \A c \in Change : events[c] > 0 => c.key = owner[c.id] /\ c.id < nextId
    /\ \A p \in Procs : Busy(p) /\ proc[p].id # 0 =>
         /\ proc[p].key = owner[proc[p].id] /\ proc[p].key # NoKey
         /\ proc[p].id < nextId

OwnerOK == \E owner : Known(owner)

(***************************************************************************)
(* Nothing runs while the service is down or recovers.  A process works on *)
(* a peer as soon as it has found or reserved its row.  The event that the *)
(* listener handles is still in the table, and the row of a peer with a    *)
(* delete event is gone.                                                   *)
(***************************************************************************)
RunningOK ==
    /\ mode # "up" => \A p \in Procs : ~Busy(p)
    /\ mode \in {"up", "down", "list"} => listed = NoRows
    /\ \A p \in Procs : Busy(p) /\ proc[p].id = 0 =>
         proc[p].phase \in {"reserve", "read"} \/ proc[p].stage = "reconcile"

EventsOK ==
    /\ Busy(Listener) => events[Handled] > 0
    /\ Busy(Listener) /\ proc[Listener].op = "delete" =>
         proc[Listener].stage \in {"change", "withdraw"}
    /\ \A c \in Change : events[c] > 0 /\ c.op = "delete" => ~Exists(c.id)

(***************************************************************************)
(* A request that has written its row has an event behind it until it      *)
(* returns, and so has whoever works on a row that has gone away.          *)
(***************************************************************************)
Working(l) ==
    /\ l.phase \notin {"idle", "reserve", "read", "ack"}
    /\ l.stage # "reconcile"
    /\ ~(l.stage = "update" /\ l.phase = "desire")
    /\ ~(l.stage = "delete" /\ l.phase = "mark")

WorkOK ==
    /\ \A r \in Requests : Working(proc[r]) => More(proc[r].id)
    /\ \A p \in Procs :
         /\ Busy(p) /\ proc[p].id # 0 /\ proc[p].stage \notin {"change", "withdraw"}
         /\ ~Exists(proc[p].id)
         => MoreDelete(proc[p].id)

(***************************************************************************)
(* What a process has done to the interface stays until it returns.        *)
(***************************************************************************)
Applied(l) ==
    /\ l.stage \in {"create", "update", "reapply"}
    /\ l.phase \in BirdPhases \cup NftPhases \cup {"activate"}
    => wg[l.id] = [cfg |-> l.cfg, port |-> l.port]

Removed(l) ==
    l.phase = "drop_row" \/ (l.stage = "withdraw" /\ l.phase \in NftPhases)
    => wg[l.id] = NoIface

EffectOK == \A p \in Procs : Applied(proc[p]) /\ Removed(proc[p])

(***************************************************************************)
(* What the listener has read from the row is still true, or there is an   *)
(* event beside the one it handles; and so is what it has done when it     *)
(* comes to delete the event.                                              *)
(***************************************************************************)
AsRead(l) ==
    /\ Exists(l.id)
    /\ rows[l.id].status = "active" /\ rows[l.id].cfg = l.cfg /\ rows[l.id].port = l.port

HandledOK ==
    LET l == proc[Listener] IN
    /\ l.stage = "reapply" => More(l.id) \/ AsRead(l)
    /\ l.stage \in {"promote", "purge"} /\ l.phase \in NftPhases => More(l.id)
    /\ l.stage = "withdraw" =>
         More(l.id) \/ ~Exists(l.id) \/ rows[l.id].status = "disabled"
    /\ l.phase = "ack" => More(l.id) \/ Settled(l.id)
    /\ l.phase = "ack" /\ l.op = "delete" => MoreDelete(l.id) \/ wg[l.id] = NoIface

(***************************************************************************)
(* An interface that was left without its alias when its row went away is  *)
(* one that list_managed_interfaces does not find: a delete event leads    *)
(* recovery to it.                                                         *)
(***************************************************************************)
StrayOK == \A id \in PeerIds : ~Exists(id) /\ wg[id] = Unaliased => DeletePending(id)

(***************************************************************************)
(* While recovery works, the table may move on, with events; what recovery *)
(* has done so far is done for every row it has listed.                    *)
(***************************************************************************)
ListedOK ==
    mode \notin {"up", "down", "list"} => \A id \in PeerIds :
        /\ rows[id] = listed[id] \/ Pending(id)
        /\ Exists(id) => listed[id] # NoRow
        /\ listed[id] # NoRow /\ ~Exists(id) => DeletePending(id)

RepairOK ==
    /\ mode \in {"nft", "bird", "remove", "managed", "changes", "drop", "activate"} =>
         \A id \in Desired : Exists(id) => wg[id] = DeviceOf(listed[id])
    /\ mode \in {"remove", "managed", "changes", "drop", "activate"} =>
         bird = BirdOf(Listing(listed))
    /\ mode \in {"managed", "changes", "drop", "activate"} =>
         \A id \in Unwanted : wg[id] = NoIface
    /\ mode \in {"changes", "drop", "activate"} =>
         \A id \in PeerIds \ Desired : wg[id] \notin Device
    /\ mode \in {"drop", "activate"} =>
         \A id \in PeerIds : listed[id] = NoRow => wg[id] = NoIface
    /\ mode = "activate" => \A id \in ToDelete : ~Exists(id)

(***************************************************************************)
(* A peer whose deletion was answered with success: nobody works on it but *)
(* the listener, and recovery has not listed it.                           *)
(***************************************************************************)
Gone(id) ==
    /\ id \in PeerIds /\ id < nextId
    /\ ~Exists(id) /\ wg[id] = NoIface /\ listed[id] = NoRow
    /\ \A p \in Procs : Busy(p) /\ proc[p].id = id =>
         p = Listener /\ proc[p].stage \in {"change", "withdraw"}

GoneOK == \A r \in Requests : proc[r].stage = "deleted" => Gone(proc[r].id)

(***************************************************************************)
(* BIRD is covered by any event, whosever it is, unless a late rename has  *)
(* come after the last sync.                                               *)
(***************************************************************************)
Synchronized == NftPhases \cup {"activate", "remove_if", "drop_row", "ack"}

BirdOK ==
    LET l == proc[Listener] IN
    /\ l.phase = "bird_sync" => l.snap = Listing(rows) \/ AnyLeft
    /\ l.phase \in Synchronized => bird = BirdOf(Listing(rows)) \/ late \/ AnyLeft

(***************************************************************************)
(* The kinds of steps, as far as rows, events, interfaces and the places   *)
(* of the processes are concerned.                                         *)
(***************************************************************************)
Rests == UNCHANGED <<rows, events, nextId, wg, proc, mode, listed>>

Starts(p, l) ==
    /\ mode = "up"
    /\ ~Busy(p)
    /\ p # Listener
    /\ l.id = 0
    /\ \/ l.stage \in {"create", "update", "delete"} /\ l.phase \in {"reserve", "read"}
       \/ l.stage = "reconcile" /\ l.phase = "nft_list"
    /\ proc' = [proc EXCEPT ![p] = l]
    /\ UNCHANGED <<rows, events, nextId, wg, mode, listed>>

\* A process goes on after a call that changes no row and no interface.
Moves(p, t) ==
    /\ mode = "up"
    /\ Busy(p)
    /\ \E snap \in SUBSET Listed : Goto(p, t, snap)
    /\ \/ t \in {Return("failed"), Return("tested")} /\ p \in Requests
       \/ t = Branch(p, FALSE)
       \/ t = Branch(p, TRUE) /\ proc[p].phase \in BirdPhases \cup NftPhases
    /\ nextId' \in {nextId, nextId + 1}
    /\ UNCHANGED <<rows, events, wg, mode, listed>>

\* The row of a peer is changed or, with NoRow, deleted.
Written(id, row) ==
    /\ Exists(id)
    /\ rows' = [rows EXCEPT ![id] = row]
    /\ row # NoRow => row \in Peer /\ row.key = rows[id].key
    /\ Enqueue(id, rows[id].key, IF row = NoRow THEN "delete" ELSE "upsert")

Writes(p, ok) ==
    /\ mode = "up"
    /\ proc[p].phase \in {"desire", "mark", "activate", "drop_row"}
    /\ \/ ~Exists(proc[p].id) /\ UNCHANGED <<rows, events>>
       \/ \E row : Written(proc[p].id, row) /\ (row = NoRow <=> proc[p].phase = "drop_row")
    /\ Continue(p, RowWritten(p, ok))
    /\ UNCHANGED <<nextId, wg, mode, listed>>

Touches(p, ok, device) ==
    /\ mode = "up"
    /\ proc[p].phase \in {"ensure", "configure", "remove_if"}
    /\ wg' = [wg EXCEPT ![proc[p].id] = device]
    /\ ok /\ proc[p].phase = "configure" =>
         device = [cfg |-> proc[p].cfg, port |-> proc[p].port]
    /\ proc[p].phase = "remove_if" => device = NoIface
    /\ Continue(p, ok)
    /\ UNCHANGED <<rows, events, nextId, mode, listed>>

Reads(r, l) ==
    /\ mode = "up"
    /\ proc[r].phase = "read"
    /\ l.id \in PeerIds /\ Exists(l.id) /\ rows[l.id].key = l.key
    /\ l.key = proc[r].key /\ l.stage = proc[r].stage /\ l.port = rows[l.id].port
    /\ \/ l.stage = "update" /\ l.phase = "desire"
       \/ l.stage = "delete" /\ l.phase = "mark"
    /\ proc' = [proc EXCEPT ![r] = l]
    /\ UNCHANGED <<rows, events, nextId, wg, mode, listed>>

Intervenes(id, row) ==
    /\ Written(id, row)
    /\ UNCHANGED <<nextId, wg, proc, mode, listed>>

LEMMA StatusWritten ==
    ASSUME StoreTypeOK, NEW id \in PeerIds, NEW status \in Statuses, set_status(id, status)
    PROVE  \/ ~Exists(id) /\ UNCHANGED <<rows, events>>
           \/ \E row : Written(id, row) /\ row # NoRow
<1>1. CASE Exists(id)
  <2>. DEFINE row == [rows[id] EXCEPT !.status = status]
  <2>1. row \in Peer /\ row.key = rows[id].key
    BY <1>1 DEF StoreTypeOK, Exists, Peer
  <2>2. row # NoRow
    BY <2>1, StoreAssumption
  <2>3. Written(id, row)
    BY <1>1, <2>1, <2>2 DEF set_status, WriteRow, Written
  <2>. QED BY <2>2, <2>3
<1>2. CASE ~Exists(id)
  BY <1>2 DEF set_status
<1>. QED BY <1>1, <1>2

LEMMA DesiredWritten ==
    ASSUME StoreTypeOK, NEW id \in PeerIds, NEW cfg \in Cfgs, NEW port \in Ports,
           update_peer_desired(id, cfg, port)
    PROVE  \/ ~Exists(id) /\ UNCHANGED <<rows, events>>
           \/ \E row : Written(id, row) /\ row # NoRow
<1>1. CASE Exists(id)
  <2>. DEFINE row == [rows[id] EXCEPT !.cfg = cfg, !.port = port, !.status = "provisioning"]
  <2>1. row \in Peer /\ row.key = rows[id].key
    BY <1>1 DEF StoreTypeOK, Exists, Peer, Statuses
  <2>2. row # NoRow
    BY <2>1, StoreAssumption
  <2>3. Written(id, row)
    BY <1>1, <2>1, <2>2 DEF update_peer_desired, WriteRow, Written
  <2>. QED BY <2>2, <2>3
<1>2. CASE ~Exists(id)
  BY <1>2 DEF update_peer_desired
<1>. QED BY <1>1, <1>2

LEMMA RowDeleted ==
    ASSUME NEW id \in PeerIds, delete_row(id)
    PROVE  \/ ~Exists(id) /\ UNCHANGED <<rows, events>>
           \/ Written(id, NoRow)
  BY DEF delete_row, Written

(***************************************************************************)
(* What a process works on, by its place.                                  *)
(***************************************************************************)
LEMMA PlaceFacts ==
    ASSUME IndInv, NEW p \in Procs
    PROVE  /\ proc[p] \in Local /\ Shape(proc[p]) /\ Plays(p, proc[p].stage)
           /\ proc[p].stage \in Stages /\ proc[p].phase \in PhasesOf(proc[p].stage)
           /\ proc[p].port \in Ports /\ proc[p].id \in PeerIds \cup {0}
           /\ proc[p].snap \in SUBSET Listed
           /\ proc[p].phase \in {"desire", "ensure", "configure"} => proc[p].cfg \in Cfgs
<1>1. /\ proc[p] \in Local /\ Shape(proc[p]) /\ Plays(p, proc[p].stage)
      /\ proc[p].stage \in Stages /\ proc[p].phase \in PhasesOf(proc[p].stage)
  BY DEF IndInv, ProcOK, Local, Shape
<1>2. proc[p].phase \in {"desire", "ensure", "configure"} => proc[p].stage \in CfgStages
  BY <1>1, StagesOfPhase DEF ApplyStages, CfgStages
<1>. QED BY <1>1, <1>2 DEF Shape, Local

LEMMA IdAtWork ==
    ASSUME IndInv, RunningOK, NEW p \in Procs, Busy(p),
           proc[p].phase \notin {"reserve", "read"}, proc[p].stage # "reconcile"
    PROVE  proc[p].id \in PeerIds
  BY PlaceFacts DEF RunningOK

LEMMA SharedKinds ==
    ASSUME IndInv, RunningOK, NEW p \in Procs, SharedStep(p)
    PROVE  \/ \E t : Moves(p, t)
           \/ \E ok \in BOOLEAN : Writes(p, ok)
           \/ \E ok \in BOOLEAN, device \in Device \cup {NoIface, Unaliased} :
                Touches(p, ok, device)
<1>. DEFINE l == proc[p]
<1>. USE DEF Call, storeVars
<1>1. StoreTypeOK /\ wg \in [PeerIds -> Device \cup {NoIface, Unaliased}]
  BY DEF IndInv, StateOK
<1>2. ASSUME l.phase \in {"ensure", "configure", "remove_if", "activate", "drop_row"}
      PROVE  l.id \in PeerIds /\ Busy(p)
  BY <1>2, IdAtWork, PlaceFacts, StagesOfPhase DEF Busy, ApplyStages, RemoveStages
<1>3. CASE ConfigureRefused(p)
  <2>1. Goto(p, Branch(p, FALSE), {}) /\ Busy(p)
    BY <1>3 DEF ConfigureRefused, Continue, Busy
  <2>2. Moves(p, Branch(p, FALSE))
    BY <1>3, <2>1 DEF ConfigureRefused, Moves
  <2>. QED BY <2>2
<1>4. CASE ListPeers(p)
  <2>1. Listing(rows) \in SUBSET Listed
    BY <1>1, ListingOK DEF StoreTypeOK
  <2>2. Goto(p, Branch(p, TRUE), Listing(rows)) /\ Busy(p)
        /\ l.phase \in BirdPhases \cup NftPhases
    BY <1>4 DEF ListPeers, Busy, BirdPhases, NftPhases
  <2>3. Moves(p, Branch(p, TRUE))
    BY <1>4, <2>1, <2>2 DEF ListPeers, Moves
  <2>. QED BY <2>3
<1>5. ASSUME NEW ok \in BOOLEAN, Activate(p, ok)
      PROVE  Writes(p, ok)
  <2>1. l.phase = "activate" /\ l.id \in PeerIds
    BY <1>2, <1>5 DEF Activate
  <2>2. \/ ~Exists(l.id) /\ UNCHANGED <<rows, events>>
        \/ \E row : Written(l.id, row) /\ row # NoRow
    BY <1>1, <1>5, <2>1, StatusWritten DEF Activate, Statuses
  <2>. QED BY <1>5, <2>1, <2>2 DEF Activate, Writes
<1>6. ASSUME NEW ok \in BOOLEAN, DropRow(p, ok)
      PROVE  Writes(p, ok)
  <2>1. l.phase = "drop_row" /\ l.id \in PeerIds
    BY <1>2, <1>6 DEF DropRow
  <2>2. \/ ~Exists(l.id) /\ UNCHANGED <<rows, events>>
        \/ Written(l.id, NoRow)
    BY <1>6, <2>1, RowDeleted DEF DropRow
  <2>. QED BY <1>6, <2>1, <2>2 DEF DropRow, Writes
<1>7. ASSUME NEW ok \in BOOLEAN, EnsureInterface(p, ok)
      PROVE  \E device \in Device \cup {NoIface, Unaliased} : Touches(p, ok, device)
  <2>1. l.phase = "ensure" /\ l.id \in PeerIds /\ l.cfg \in Cfgs
    BY <1>2, <1>7, PlaceFacts DEF EnsureInterface
  <2>2. Ensured(wg[l.id], l.cfg) \in Device
    BY <2>1, EnsuredOK
  <2>3. \/ wg' = [wg EXCEPT ![l.id] = Ensured(wg[l.id], l.cfg)]
        \/ wg' = [wg EXCEPT ![l.id] = Unaliased]
    BY <1>7 DEF EnsureInterface
  <2>4. Touches(p, ok, Ensured(wg[l.id], l.cfg)) \/ Touches(p, ok, Unaliased)
    BY <1>7, <2>1, <2>3 DEF EnsureInterface, Touches
  <2>. QED BY <2>2, <2>4
<1>8. ASSUME NEW ok \in BOOLEAN, Configure(p, ok)
      PROVE  \E device \in Device \cup {NoIface, Unaliased} : Touches(p, ok, device)
  <2>. DEFINE d == [cfg |-> IF ok THEN l.cfg ELSE Blend(wg[l.id].cfg, l.cfg), port |-> l.port]
  <2>1. l.phase = "configure" /\ l.id \in PeerIds /\ l.cfg \in Cfgs /\ l.port \in Ports
    BY <1>2, <1>8, PlaceFacts DEF Configure
  <2>2. d \in Device
    BY <2>1 DEF Device, Blend
  <2>3. wg' = [wg EXCEPT ![l.id] = d]
    BY <1>8 DEF Configure
  <2>4. ok => d = [cfg |-> l.cfg, port |-> l.port]
    OBVIOUS
  <2>. HIDE DEF d
  <2>5. Touches(p, ok, d)
    BY <1>8, <2>1, <2>3, <2>4 DEF Configure, Touches
  <2>. QED BY <2>2, <2>5
<1>9. ASSUME NEW ok \in BOOLEAN, RemoveInterface(p, ok)
      PROVE  Touches(p, ok, NoIface)
  BY <1>9 DEF RemoveInterface, Touches
<1>10. ASSUME NEW ok \in BOOLEAN, SyncBird(p, ok) \/ SyncNft(p, ok)
       PROVE  Moves(p, Branch(p, ok))
  <2>1. Goto(p, Branch(p, ok), {}) /\ Busy(p) /\ l.phase \in BirdPhases \cup NftPhases
    BY <1>10 DEF SyncBird, SyncNft, Continue, Busy, BirdPhases, NftPhases
  <2>. QED BY <1>10, <2>1 DEF SyncBird, SyncNft, Moves
<1>. QED BY <1>3, <1>4, <1>5, <1>6, <1>7, <1>8, <1>9, <1>10 DEF SharedStep

LEMMA RequestKinds ==
    ASSUME IndInv, RunningOK, NEW r \in Requests,
           RequestStep(r) \/ Cancel(r) \/ CancelRename(r)
    PROVE  \/ \E t : Moves(r, t)
           \/ \E ok \in BOOLEAN : Writes(r, ok)
           \/ \E ok \in BOOLEAN : ReservePeer(r, ok)
           \/ \E l : Reads(r, l)
<1>. DEFINE me == proc[r]
<1>. USE DEF Call, storeVars
<1>0. r \in Procs /\ StoreTypeOK
  BY DEF Procs, IndInv, StateOK
<1>1. /\ me \in Local /\ Shape(me) /\ Plays(r, me.stage) /\ me.phase \in PhasesOf(me.stage)
      /\ me.stage \in Stages
  BY <1>0, PlaceFacts
<1>2. ASSUME NEW answer \in {"failed", "tested"}, ReserveNothing(r, answer)
      PROVE  Moves(r, Return(answer))
  <2>1. Goto(r, Return(answer), {}) /\ Busy(r)
    BY <1>2 DEF ReserveNothing, Busy
  <2>. QED BY <1>2, <2>1 DEF ReserveNothing, Moves
<1>3. CASE ReserveRefused(r)
  <2>1. Goto(r, Branch(r, FALSE), {}) /\ Busy(r)
    BY <1>3 DEF ReserveRefused, Continue, Busy
  <2>2. Moves(r, Branch(r, FALSE))
    BY <1>3, <2>1 DEF ReserveRefused, Moves
  <2>. QED BY <2>2
<1>4. CASE Cancel(r)
  <2>1. Goto(r, Return("failed"), {}) /\ Busy(r)
    BY <1>4 DEF Cancel
  <2>2. Moves(r, Return("failed"))
    BY <1>4, <2>1 DEF Cancel, Moves
  <2>. QED BY <2>2
<1>5. CASE ReadPeer(r)
  <2>. DEFINE id == IdOf(me.key)
              found == KeyTaken(me.key) /\ (me.stage = "update" => rows[id].status # "deleting")
  <2>1. me.phase = "read" /\ Busy(r)
    BY <1>5 DEF ReadPeer, Busy
  <2>2. CASE found
    <3>. DEFINE t == Branch(r, TRUE)
                l == [Moved(me, t, {}) EXCEPT
                        !.id = id, !.port = rows[id].port, !.old = rows[id].cfg]
    <3>1. id \in PeerIds /\ Exists(id) /\ rows[id].key = me.key
      BY <2>2 DEF KeyTaken, IdOf
    <3>2. me.stage \in {"update", "delete"}
      BY <1>1, <2>1, StagesOfPhase DEF Plays, RequestStages
    <3>3. /\ t.stage = me.stage
          /\ t.phase = IF me.stage = "update" THEN "desire" ELSE "mark"
      BY <2>1, <3>2, FirstSteps DEF Branch, At
    <3>4. proc' = [proc EXCEPT ![r] = l]
      BY <1>5, <2>2 DEF ReadPeer
    <3>5. l = [me EXCEPT !.stage = me.stage, !.snap = {}, !.id = id,
                         !.phase = IF me.stage = "update" THEN "desire" ELSE "mark",
                         !.port = rows[id].port, !.cfg = me.cfg, !.old = rows[id].cfg]
      BY <1>1, <3>2, <3>3 DEF Moved, Local
    <3>. HIDE DEF l
    <3>6. /\ l.id = id /\ l.key = me.key /\ l.stage = me.stage /\ l.port = rows[id].port
          /\ l.phase = IF me.stage = "update" THEN "desire" ELSE "mark"
      BY <1>1, <3>5 DEF Local
    <3>. HIDE DEF id
    <3>7. Reads(r, l)
      BY <1>5, <2>1, <3>1, <3>2, <3>4, <3>6 DEF ReadPeer, Reads
    <3>. QED BY <3>7
  <2>3. CASE ~found
    <3>1. Goto(r, Branch(r, FALSE), {})
      BY <1>5, <2>3 DEF ReadPeer, Continue
    <3>2. Moves(r, Branch(r, FALSE))
      BY <1>5, <2>1, <3>1 DEF ReadPeer, Moves
    <3>. QED BY <3>2
  <2>. QED BY <2>2, <2>3
<1>6. ASSUME NEW ok \in BOOLEAN, StoreDesired(r, ok)
      PROVE  Writes(r, ok)
  <2>1. me.phase = "desire"
    BY <1>6 DEF StoreDesired
  <2>2. me.id \in PeerIds /\ me.cfg \in Cfgs /\ me.port \in Ports
    BY <1>0, <2>1, PlaceFacts, IdAtWork, StagesOfPhase DEF Busy
  <2>3. \/ ~Exists(me.id) /\ UNCHANGED <<rows, events>>
        \/ \E row : Written(me.id, row) /\ row # NoRow
    BY <1>0, <1>6, <2>2, DesiredWritten DEF StoreDesired
  <2>. QED BY <1>6, <2>1, <2>3 DEF StoreDesired, Writes
<1>7. ASSUME NEW ok \in BOOLEAN, MarkDeleting(r, ok)
      PROVE  Writes(r, ok)
  <2>1. me.phase = "mark"
    BY <1>7 DEF MarkDeleting
  <2>2. me.id \in PeerIds
    BY <1>0, <2>1, PlaceFacts, IdAtWork, StagesOfPhase DEF Busy
  <2>3. \/ ~Exists(me.id) /\ UNCHANGED <<rows, events>>
        \/ \E row : Written(me.id, row) /\ row # NoRow
    BY <1>0, <1>7, <2>2, StatusWritten DEF MarkDeleting, Statuses
  <2>. QED BY <1>7, <2>1, <2>3 DEF MarkDeleting, Writes
<1>8. CASE CancelRename(r)
  <2>1. Goto(r, Return("failed"), {}) /\ Busy(r)
    BY <1>8 DEF CancelRename, Busy
  <2>2. Moves(r, Return("failed"))
    BY <1>8, <2>1 DEF CancelRename, Moves
  <2>. QED BY <2>2
<1>. QED BY <1>2, <1>3, <1>4, <1>5, <1>6, <1>7, <1>8 DEF RequestStep

LEMMA OtherKinds ==
    ASSUME IndInv
    PROVE  /\ \A r \in Requests, k \in Keys, c \in Cfgs \cup {NoCfg},
                 op \in {"create", "update", "delete"} :
                Begin(r, op, k, c) => \E l : Starts(r, l)
           /\ \A p \in Reconcilers : Tick(p) => \E l : Starts(p, l)
           /\ \A p \in Procs : Fail(p) => Moves(p, Branch(p, FALSE))
           /\ \A id \in PeerIds : AdminWrite(id) => \E row : Intervenes(id, row)
<1>1. ASSUME NEW r \in Requests, NEW k \in Keys, NEW c \in Cfgs \cup {NoCfg},
             NEW op \in {"create", "update", "delete"}, Begin(r, op, k, c)
      PROVE  \E l : Starts(r, l)
  <2>. DEFINE l == [Blank(op) EXCEPT !.key = k, !.cfg = c,
                      !.phase = IF op = "create" THEN "reserve" ELSE "read"]
  <2>1. l.id = 0 /\ l.stage = op /\ l.phase \in {"reserve", "read"}
    BY DEF Blank
  <2>2. proc' = [proc EXCEPT ![r] = l] /\ ~Busy(r) /\ r # Listener
    BY <1>1, ManagerAssumption DEF Begin, Busy, Blank
  <2>. HIDE DEF l
  <2>3. Starts(r, l)
    BY <1>1, <2>1, <2>2 DEF Begin, Starts, storeVars
  <2>. QED BY <2>3
<1>2. ASSUME NEW p \in Reconcilers, Tick(p)
      PROVE  \E l : Starts(p, l)
  <2>. DEFINE l == [Blank("reconcile") EXCEPT !.phase = "nft_list"]
  <2>1. l.id = 0 /\ l.stage = "reconcile" /\ l.phase = "nft_list"
    BY DEF Blank
  <2>2. proc' = [proc EXCEPT ![p] = l] /\ p # Listener
    BY <1>2, ManagerAssumption DEF Tick
  <2>. HIDE DEF l
  <2>3. Starts(p, l)
    BY <1>2, <2>1, <2>2 DEF Tick, Starts, storeVars
  <2>. QED BY <2>3
<1>3. ASSUME NEW p \in Procs, Fail(p)
      PROVE  Moves(p, Branch(p, FALSE))
  <2>1. Goto(p, Branch(p, FALSE), {}) /\ Busy(p)
    BY <1>3 DEF Fail, Continue
  <2>. QED BY <1>3, <2>1 DEF Fail, Moves, storeVars
<1>4. ASSUME NEW id \in PeerIds, AdminWrite(id)
      PROVE  \E row : Intervenes(id, row)
  <2>1. StoreTypeOK /\ Exists(id)
    BY <1>4 DEF AdminWrite, IndInv, StateOK
  <2>2. \E row : Written(id, row)
    <3>1. ASSUME NEW status \in {"disabled", "provisioning"}, set_status(id, status)
          PROVE  \E row : Written(id, row)
      BY <2>1, <3>1, StatusWritten DEF Statuses
    <3>2. ASSUME NEW c \in Cfgs, WriteRow(id, [rows[id] EXCEPT !.cfg = c])
          PROVE  \E row : Written(id, row)
      <4>. DEFINE row == [rows[id] EXCEPT !.cfg = c]
      <4>1. row \in Peer /\ row.key = rows[id].key
        BY <2>1 DEF StoreTypeOK, Exists, Peer
      <4>2. row # NoRow
        BY <4>1, StoreAssumption
      <4>3. Written(id, row)
        BY <2>1, <3>2, <4>1, <4>2 DEF WriteRow, Written
      <4>. QED BY <4>3
    <3>3. ASSUME delete_row(id)
          PROVE  \E row : Written(id, row)
      BY <2>1, <3>3, RowDeleted
    <3>. QED BY <1>4, <3>1, <3>2, <3>3 DEF AdminWrite
  <2>. QED BY <1>4, <2>2 DEF AdminWrite, Intervenes
<1>. QED BY <1>1, <1>2, <1>3, <1>4

(***************************************************************************)
(* Every step is of one of these kinds.                                    *)
(***************************************************************************)
LEMMA Kinds ==
    ASSUME IndInv, RunningOK, [Next]_vars
    PROVE  \/ Rests
           \/ \E p \in Procs : \E l : Starts(p, l)
           \/ \E p \in Procs : \E t : Moves(p, t)
           \/ \E p \in Procs, ok \in BOOLEAN : Writes(p, ok)
           \/ \E p \in Procs, ok \in BOOLEAN, device \in Device \cup {NoIface, Unaliased} :
                Touches(p, ok, device)
           \/ \E r \in Requests, ok \in BOOLEAN : ReservePeer(r, ok)
           \/ \E r \in Requests : \E l : Reads(r, l)
           \/ \E c \in Change : TakeChange(c)
           \/ ReadChange
           \/ \E ok \in BOOLEAN : Ack(ok)
           \/ \E id \in PeerIds : \E row : Intervenes(id, row)
           \/ \E reboot \in BOOLEAN : Crash(reboot)
           \/ RecoverStep
<1>0. Requests \subseteq Procs /\ Reconcilers \subseteq Procs
  BY DEF Procs
<1>1. CASE \E r \in Requests, k \in Keys, c \in Cfgs \cup {NoCfg},
              op \in {"create", "update", "delete"} : Begin(r, op, k, c)
  BY <1>0, <1>1, OtherKinds
<1>2. CASE \E r \in Requests : RequestStep(r) \/ Cancel(r) \/ CancelRename(r)
  BY <1>0, <1>2, RequestKinds
<1>3. CASE \E p \in Procs : SharedStep(p) \/ Fail(p)
  BY <1>3, SharedKinds, OtherKinds
<1>4. CASE \E p \in Reconcilers : Tick(p)
  BY <1>0, <1>4, OtherKinds
<1>5. CASE \E id \in PeerIds : AdminWrite(id)
  BY <1>5, OtherKinds
<1>6. CASE FirewallReload
  BY <1>6 DEF FirewallReload, Rests, storeVars
<1>7. CASE UNCHANGED vars
  BY <1>7 DEF vars, storeVars, managerVars, Rests
<1>8. CASE ListenerStep
  BY <1>8 DEF ListenerStep
<1>9. CASE \E s \in strays : LateRename(s)
  BY <1>9 DEF LateRename, Rests, storeVars
<1>. QED BY <1>1, <1>2, <1>3, <1>4, <1>5, <1>6, <1>7, <1>8, <1>9 DEF Next, Quiescent

(***************************************************************************)
(* How a process goes on: what it keeps when it moves to a place t, ...    *)
(***************************************************************************)
Onto(p, t) ==
    /\ \A q \in Procs \ {p} : proc'[q] = proc[q]
    /\ proc'[p].stage = t.stage /\ proc'[p].phase = t.phase
    /\ t.phase = "idle" => proc'[p].id = IF t.stage = "deleted" THEN proc[p].id ELSE 0
    /\ t.phase # "idle" =>
         /\ proc'[p].id = proc[p].id /\ proc'[p].key = proc[p].key
         /\ proc'[p].op = proc[p].op /\ proc'[p].port = proc[p].port
         /\ t.stage \notin {"undo_update", "undo_delete"} => proc'[p].cfg = proc[p].cfg

LEMMA GotoOnto ==
    ASSUME IndInv, NEW p \in Procs, NEW t, NEW snap, Goto(p, t, snap)
    PROVE  Onto(p, t)
<1>1. proc' = [proc EXCEPT ![p] = Moved(proc[p], t, snap)] /\ proc \in [Procs -> Local]
  BY DEF Goto, IndInv, ProcOK
<1>2. proc'[p] = Moved(proc[p], t, snap) /\ \A q \in Procs \ {p} : proc'[q] = proc[q]
  BY <1>1
<1>3. proc[p] \in Local
  BY <1>1
<1>4. CASE t.phase = "idle"
  BY <1>2, <1>4 DEF Onto, Moved, Blank
<1>5. CASE t.phase # "idle"
  BY <1>2, <1>3, <1>5 DEF Onto, Moved, Local
<1>. QED BY <1>4, <1>5

(***************************************************************************)
(* ... where a call that fails leads, and where the calls lead that        *)
(* succeed.                                                                *)
(***************************************************************************)
Fails(p, t) ==
    \/ t.phase = "idle" /\ t.stage \in {"failed", "tested", "ready"}
    \/ /\ p \in Requests
       /\ Working(proc[p])
       /\ t.stage \in {"undo_create", "undo_update", "unmark", "undo_delete"}
       /\ t.phase \in {"mark", "desire", "activate", "bird_list", "nft_list"}

LEMMA ErrorLeads ==
    ASSUME IndInv, NEW p \in Procs, Busy(p)
    PROVE  Fails(p, Branch(p, FALSE))
<1>. DEFINE s == proc[p].stage
            f == proc[p].phase
            t == Branch(p, FALSE)
<1>1. s \in Stages /\ f \in PhasesOf(s) /\ f # "idle" /\ Plays(p, s)
  BY PlaceFacts DEF Busy
<1>2. t = Program(s, f).err
  BY DEF Branch
<1>. HIDE DEF t
<1>3. ErrorTurn(s, f, t)
  BY <1>1, <1>2, ErrorFlow
<1>4. CASE t \in {Return("failed"), Return("ready")}
  <2>1. t.phase = "idle" /\ t.stage \in {"failed", "tested", "ready"}
    BY <1>4 DEF Return, At
  <2>. QED BY <2>1 DEF Fails, t
<1>5. CASE t \notin {Return("failed"), Return("ready")}
  <2>1. /\ t.stage \in {"undo_create", "undo_update", "unmark", "undo_delete"}
        /\ t.phase \in {"mark", "desire", "activate", "bird_list", "nft_list"}
    BY <1>3, <1>5 DEF ErrorTurn, At
  <2>2. \/ s = "create" /\ f # "reserve"
        \/ s = "undo_create"
        \/ s = "update" /\ f \in ApplyPhases
        \/ s = "delete" /\ f \in NftPhases
        \/ s = "delete" /\ f \in RemovePhases
    BY <1>3, <1>5 DEF ErrorTurn
  <2>3. f # "read"
    BY <1>1, <2>2, StagesOfPhase DEF ApplyPhases, NftPhases, RemovePhases, BirdPhases
  <2>4. f # "ack" /\ (s = "undo_create" => f # "reserve")
    BY <1>1, <2>2, StagesOfPhase
  <2>5. Working(proc[p])
    BY <1>1, <2>2, <2>3, <2>4 DEF Working, ApplyPhases, NftPhases, RemovePhases, BirdPhases
  <2>6. p \in Requests
    BY <1>1, <2>2 DEF Procs, Plays, ListenerStages, ChangeStages, ReconcilerStages
  <2>. QED BY <2>1, <2>5, <2>6 DEF Fails, t
<1>. QED BY <1>4, <1>5 DEF t

Sequel(s, f, g) ==
    \/ f = "bird_list" /\ g = "bird_sync"
    \/ f = "bird_sync" /\ g = "nft_list" /\ s \in {"create", "undo_delete", "reapply"}
    \/ f = "bird_sync" /\ g = "activate" /\ s \in {"update", "undo_update", "promote"}
    \/ f = "bird_sync" /\ g = "remove_if" /\ s \in RemoveStages
    \/ f = "nft_list" /\ g = "nft_sync"
    \/ f = "nft_sync" /\ g = "activate" /\ s = "create"
    \/ f = "nft_sync" /\ g = "bird_list" /\ s = "delete"

Succeeds(p, t) ==
    \/ Sequel(proc[p].stage, proc[p].phase, t.phase) /\ t.stage = proc[p].stage
    \/ /\ proc[p].phase = "nft_sync"
       /\ proc[p].stage \in {"reapply", "promote", "purge", "withdraw"}
       /\ t.stage = "change" /\ t.phase = "ack"

LEMMA SyncLeads ==
    ASSUME IndInv, NEW p \in Procs, proc[p].phase \in BirdPhases \cup NftPhases
    PROVE  Fails(p, Branch(p, TRUE)) \/ Succeeds(p, Branch(p, TRUE))
<1>. DEFINE s == proc[p].stage
            f == proc[p].phase
            t == Branch(p, TRUE)
<1>1. s \in Stages /\ f \in PhasesOf(s)
  BY PlaceFacts
<1>2. t = Program(s, f).ok
  BY DEF Branch
<1>. HIDE DEF t
<1>3. CASE f \in BirdPhases
  <2>1. s \in ApplyStages \cup RemoveStages
    BY <1>1, <1>3, StagesOfPhase
  <2>2. CASE s \in ApplyStages
    <3>1. t = IF f = "bird_list" THEN At(s, "bird_sync") ELSE ApplyDone(s)
      BY <1>2, <1>3, <2>2, ApplyFlow DEF Go, BirdPhases
    <3>2. Sequel(s, f, t.phase) /\ t.stage = s
      BY <1>3, <2>2, <3>1 DEF Sequel, ApplyDone, At, BirdPhases, ApplyStages
    <3>. QED BY <3>2 DEF Succeeds, t
  <2>3. CASE s \in RemoveStages
    <3>1. t = IF f = "bird_list" THEN At(s, "bird_sync") ELSE At(s, "remove_if")
      BY <1>2, <1>3, <2>3, RemoveFlow DEF Go, BirdPhases
    <3>2. Sequel(s, f, t.phase) /\ t.stage = s
      BY <1>3, <2>3, <3>1 DEF Sequel, At, BirdPhases
    <3>. QED BY <3>2 DEF Succeeds, t
  <2>. QED BY <2>1, <2>2, <2>3
<1>4. CASE f \in NftPhases
  <2>1. s \in NftStages
    BY <1>1, <1>4, StagesOfPhase
  <2>2. t = IF f = "nft_list" THEN At(s, "nft_sync") ELSE NftDone(s)
    BY <1>2, <1>4, <2>1, NftFlow DEF Go, NftPhases
  <2>3. CASE f = "nft_list"
    <3>1. Sequel(s, f, t.phase) /\ t.stage = s
      BY <2>2, <2>3 DEF Sequel, At
    <3>. QED BY <3>1 DEF Succeeds, t
  <2>4. CASE f = "nft_sync"
    <3>1. \/ t.phase = "idle" /\ t.stage \in {"failed", "ready"}
          \/ Sequel(s, f, t.phase) /\ t.stage = s
          \/ /\ s \in {"reapply", "promote", "purge", "withdraw"}
             /\ t.stage = "change" /\ t.phase = "ack"
      BY <2>1, <2>2, <2>4 DEF Sequel, At, Return, NftDone, NftStages
    <3>. QED BY <2>4, <3>1 DEF Succeeds, Fails, t
  <2>. QED BY <1>4, <2>3, <2>4 DEF NftPhases
<1>. QED BY <1>3, <1>4 DEF t

LEMMA MoveLeads ==
    ASSUME IndInv, NEW p \in Procs, NEW t, Moves(p, t)
    PROVE  Onto(p, t) /\ (Fails(p, t) \/ Succeeds(p, t))
<1>1. Onto(p, t)
  BY GotoOnto DEF Moves
<1>2. ASSUME t \in {Return("failed"), Return("tested")}
      PROVE  Fails(p, t)
  BY <1>2 DEF Fails, Return, At
<1>. QED BY <1>1, <1>2, ErrorLeads, SyncLeads DEF Moves

LEMMA TouchLeads ==
    ASSUME IndInv, NEW p \in Procs, NEW ok \in BOOLEAN, NEW device, Touches(p, ok, device)
    PROVE  LET t == Branch(p, ok)
               s == proc[p].stage
               f == proc[p].phase
           IN  /\ Onto(p, t)
               /\ Busy(p)
               /\ f \in {"ensure", "configure"} => s \in ApplyStages
               /\ f = "remove_if" => s \in RemoveStages
               /\ ~ok => Fails(p, t)
               /\ ok => /\ f = "ensure" => t = At(s, "configure")
                        /\ f = "configure" => t = At(s, "bird_list")
                        /\ f = "remove_if" => t = RemoveDone(s)
<1>. DEFINE s == proc[p].stage
            f == proc[p].phase
            t == Branch(p, ok)
<1>1. s \in Stages /\ f \in PhasesOf(s) /\ Busy(p)
  BY PlaceFacts DEF Touches, Busy
<1>2. Onto(p, t)
  BY GotoOnto DEF Touches, Continue
<1>3. /\ f \in {"ensure", "configure"} => s \in ApplyStages
      /\ f = "remove_if" => s \in RemoveStages
  BY <1>1, StagesOfPhase
<1>4. ASSUME ok
      PROVE  /\ f = "ensure" => t = At(s, "configure")
             /\ f = "configure" => t = At(s, "bird_list")
             /\ f = "remove_if" => t = RemoveDone(s)
  BY <1>3, <1>4, ApplyFlow, RemoveFlow DEF Branch, Go
<1>5. ~ok => Fails(p, t)
  BY <1>1, ErrorLeads
<1>. QED BY <1>1, <1>2, <1>3, <1>4, <1>5

LEMMA WriteLeads ==
    ASSUME IndInv, NEW p \in Procs, NEW ok \in BOOLEAN, Writes(p, ok)
    PROVE  LET t == Branch(p, RowWritten(p, ok))
               s == proc[p].stage
               f == proc[p].phase
           IN  /\ Onto(p, t)
               /\ Busy(p)
               /\ f = "desire" => s \in {"update", "undo_update"}
               /\ f = "mark" => s \in {"undo_create", "delete"}
               /\ f = "drop_row" => s \in {"undo_create", "delete", "purge"}
               /\ f = "activate" => s \in {"create", "update", "undo_update", "unmark",
                                           "undo_delete", "promote"}
               /\ ~RowWritten(p, ok) => Fails(p, t)
               /\ RowWritten(p, ok) =>
                    /\ f = "desire" => t = At(s, "ensure")
                    /\ f = "mark" => t = IF s = "delete" THEN At(s, "nft_list")
                                         ELSE At(s, "bird_list")
                    /\ f = "drop_row" => t = IF s = "delete" THEN Return("deleted")
                                             ELSE At(s, "nft_list")
                    /\ f = "activate" =>
                         t = CASE s = "create"      -> Return("created")
                               [] s = "update"      -> Return("updated")
                               [] s = "undo_delete" -> At(s, "ensure")
                               [] s = "promote"     -> At(s, "nft_list")
                               [] OTHER             -> Return("failed")
<1>. DEFINE s == proc[p].stage
            f == proc[p].phase
            done == RowWritten(p, ok)
            t == Branch(p, done)
<1>1. s \in Stages /\ f \in PhasesOf(s) /\ Busy(p)
  BY PlaceFacts DEF Writes, Busy
<1>2. Onto(p, t)
  BY GotoOnto DEF Writes, Continue
<1>3. /\ f = "desire" => s \in {"update", "undo_update"}
      /\ f = "mark" => s \in {"undo_create", "delete"}
      /\ f = "drop_row" => s \in {"undo_create", "delete", "purge"}
      /\ f = "activate" => s \in {"create", "update", "undo_update", "unmark",
                                  "undo_delete", "promote"}
  BY <1>1, StagesOfPhase
<1>4. ~done => t = Branch(p, FALSE)
  BY DEF Branch
<1>5. ~done => Fails(p, t)
  BY <1>1, <1>4, ErrorLeads
<1>6. ASSUME done
      PROVE  t = Program(s, f).ok
  BY <1>6 DEF Branch
<1>. HIDE DEF done, t
<1>7. done /\ f = "desire" => t = At(s, "ensure")
  BY <1>3, <1>6, DesireFlow DEF Go
<1>8. done /\ f = "mark" => t = IF s = "delete" THEN At(s, "nft_list") ELSE At(s, "bird_list")
  BY <1>3, <1>6, MarkFlow DEF Go
<1>9. done /\ f = "drop_row" => t = IF s = "delete" THEN Return("deleted")
                                    ELSE At(s, "nft_list")
  BY <1>3, <1>6, DropFlow DEF Go
<1>10. done /\ f = "activate" =>
         t = CASE s = "create"      -> Return("created")
               [] s = "update"      -> Return("updated")
               [] s = "undo_delete" -> At(s, "ensure")
               [] s = "promote"     -> At(s, "nft_list")
               [] OTHER             -> Return("failed")
  BY <1>3, <1>6, ActivateFlow DEF Go
<1>. QED BY <1>1, <1>2, <1>3, <1>5, <1>7, <1>8, <1>9, <1>10 DEF done, t

LEMMA WritePlaces ==
    ASSUME IndInv, NEW p \in Procs, NEW ok \in BOOLEAN, Writes(p, ok), RowWritten(p, ok)
    PROVE  LET t == Branch(p, RowWritten(p, ok))
               s == proc[p].stage
               f == proc[p].phase
           IN  /\ f = "desire" => t.stage = s /\ t.phase = "ensure"
               /\ f = "mark" =>
                    t.stage = s /\ t.phase = IF s = "delete" THEN "nft_list" ELSE "bird_list"
               /\ f = "drop_row" /\ s # "delete" => t.stage = s /\ t.phase = "nft_list"
               /\ f = "drop_row" /\ s = "delete" => t.stage = "deleted" /\ t.phase = "idle"
               /\ f = "activate" /\ s = "promote" => t.stage = s /\ t.phase = "nft_list"
               /\ f = "activate" /\ s = "undo_delete" => t.stage = s /\ t.phase = "ensure"
               /\ f = "activate" /\ s \notin {"promote", "undo_delete"} =>
                    t.stage \in {"created", "updated", "failed"} /\ t.phase = "idle"
<1>. DEFINE t == Branch(p, RowWritten(p, ok))
            s == proc[p].stage
            f == proc[p].phase
<1>1. /\ f = "desire" => t = At(s, "ensure")
      /\ f = "mark" => t = IF s = "delete" THEN At(s, "nft_list") ELSE At(s, "bird_list")
      /\ f = "drop_row" => t = IF s = "delete" THEN Return("deleted") ELSE At(s, "nft_list")
      /\ f = "activate" /\ s = "promote" => t = At(s, "nft_list")
      /\ f = "activate" /\ s = "undo_delete" => t = At(s, "ensure")
      /\ f = "activate" /\ s \notin {"promote", "undo_delete"} =>
           t \in {Return("created"), Return("updated"), Return("failed")}
  BY WriteLeads
<1>. HIDE DEF t
<1>2. /\ f = "desire" => t.stage = s /\ t.phase = "ensure"
      /\ f = "mark" =>
           t.stage = s /\ t.phase = IF s = "delete" THEN "nft_list" ELSE "bird_list"
  BY <1>1 DEF At
<1>3. /\ f = "drop_row" /\ s # "delete" => t.stage = s /\ t.phase = "nft_list"
      /\ f = "drop_row" /\ s = "delete" => t.stage = "deleted" /\ t.phase = "idle"
  BY <1>1 DEF At, Return
<1>4. /\ f = "activate" /\ s = "promote" => t.stage = s /\ t.phase = "nft_list"
      /\ f = "activate" /\ s = "undo_delete" => t.stage = s /\ t.phase = "ensure"
      /\ f = "activate" /\ s \notin {"promote", "undo_delete"} =>
           t.stage \in {"created", "updated", "failed"} /\ t.phase = "idle"
  BY <1>1 DEF At, Return
<1>. QED BY <1>2, <1>3, <1>4 DEF t

(***************************************************************************)
(* The outbox.  But for the listener's deletion of an event, events only   *)
(* come, and every change of a row brings one for that row.                *)
(***************************************************************************)
Grows ==
    /\ \A c \in Change : events'[c] \in {events[c], events[c] + 1}
    /\ \A id \in PeerIds : rows'[id] # rows[id] =>
         \E c \in Change : /\ c.id = id /\ events'[c] = events[c] + 1
                           /\ rows'[id] = NoRow => c.op = "delete"
    /\ \A c \in Change : events'[c] # events[c] =>
         \/ Exists(c.id) /\ c.key = rows[c.id].key
         \/ /\ c.id = nextId /\ nextId' = nextId + 1
            /\ rows'[c.id] # NoRow /\ c.key = rows'[c.id].key
    /\ \A c \in Change : events'[c] # events[c] /\ c.op = "delete" => rows'[c.id] = NoRow
    /\ \A id \in PeerIds : rows'[id] # NoRow =>
         \/ Exists(id) /\ rows'[id].key = rows[id].key
         \/ ~Exists(id) /\ id = nextId /\ nextId' = nextId + 1

ListenerKeeps == Busy(Listener)' => Busy(Listener) /\ Handled' = Handled

LEMMA GrowsSame ==
    ASSUME StoreTypeOK, UNCHANGED <<rows, events>>
    PROVE  Grows
  BY DEF Grows, Exists

LEMMA GrowsWritten ==
    ASSUME StoreTypeOK, NEW id \in PeerIds, NEW row, Written(id, row)
    PROVE  /\ Grows
           /\ rows'[id] = row
           /\ \A other \in PeerIds \ {id} : rows'[other] = rows[other]
           /\ \E c \in Change : /\ c.id = id /\ events'[c] = events[c] + 1
                                /\ row = NoRow => c.op = "delete"
<1>. DEFINE op == IF row = NoRow THEN "delete" ELSE "upsert"
            d == [id |-> id, key |-> rows[id].key, op |-> op]
<1>1. rows' = [rows EXCEPT ![id] = row] /\ Exists(id)
      /\ (row # NoRow => row.key = rows[id].key)
  BY DEF Written
<1>2. rows'[id] = row /\ \A other \in PeerIds \ {id} : rows'[other] = rows[other]
  BY <1>1 DEF StoreTypeOK
<1>3. d \in Change /\ d.id = id /\ d.key = rows[id].key /\ d.op = op
  BY <1>1 DEF Change, StoreTypeOK, Exists, Peer
<1>4. events' = [events EXCEPT ![d] = @ + 1]
  BY DEF Written, Enqueue
<1>5. op = "delete" <=> row = NoRow
  OBVIOUS
<1>. HIDE DEF d, op
<1>6. events'[d] = events[d] + 1 /\ \A c \in Change : c # d => events'[c] = events[c]
  BY <1>3, <1>4 DEF StoreTypeOK
<1>7. \A c \in Change : events'[c] # events[c] => c = d
  BY <1>6
<1>. QED BY <1>1, <1>2, <1>3, <1>5, <1>6, <1>7 DEF Grows, Exists

LEMMA GrowsAll ==
    ASSUME StoreTypeOK, NEW ids \in SUBSET PeerIds, \A id \in ids : Exists(id),
           delete_rows(ids) \/ activate_rows(ids)
    PROVE  Grows /\ \A id \in ids : \E c \in Change : c.id = id /\ events'[c] = events[c] + 1
<1>. DEFINE op == IF delete_rows(ids) THEN "delete" ELSE "upsert"
            D(id) == [id |-> id, key |-> rows[id].key, op |-> op]
<1>0. op \in {"delete", "upsert"} /\ ("delete" # "upsert")
  OBVIOUS
<1>1. /\ \A id \in PeerIds \ ids : rows'[id] = rows[id]
      /\ \A id \in ids : op = "delete" => rows'[id] = NoRow
      /\ \A id \in ids : op # "delete" => rows'[id] # NoRow /\ rows'[id].key = rows[id].key
  <2>1. CASE delete_rows(ids)
    BY <2>1 DEF delete_rows
  <2>2. CASE ~delete_rows(ids)
    <3>1. activate_rows(ids) /\ op # "delete"
      BY <2>2
    <3>2. \A id \in ids : rows'[id] = [rows[id] EXCEPT !.status = "active"]
      BY <3>1 DEF activate_rows
    <3>3. \A id \in ids : rows[id] \in Peer
      BY DEF StoreTypeOK, Exists
    <3>4. \A id \in ids : rows'[id] \in Peer /\ rows'[id].key = rows[id].key
      BY <3>2, <3>3 DEF Peer, Statuses
    <3>5. \A id \in PeerIds \ ids : rows'[id] = rows[id]
      BY <3>1 DEF activate_rows
    <3>. QED BY <3>1, <3>4, <3>5, StoreAssumption
  <2>. QED BY <2>1, <2>2
<1>2. \A c \in Change : events'[c] = IF c.id \in ids /\ c.key = rows[c.id].key /\ c.op = op
                                       THEN events[c] + 1 ELSE events[c]
  BY DEF delete_rows, activate_rows, EnqueueAll
<1>. HIDE DEF op
<1>3. ASSUME NEW id \in ids
      PROVE  D(id) \in Change /\ events'[D(id)] = events[D(id)] + 1 /\ D(id).id = id
             /\ D(id).op = op
  <2>1. D(id) \in Change /\ D(id).id = id /\ D(id).op = op /\ D(id).key = rows[id].key
    BY <1>0 DEF Change, StoreTypeOK, Exists, Peer
  <2>. HIDE DEF D
  <2>. QED BY <1>2, <2>1
<1>. HIDE DEF D
<1>4. \A c \in Change : events[c] \in Nat
  BY DEF StoreTypeOK
<1>5. \A c \in Change : c.id \in PeerIds
  BY DEF Change
<1>6. \A c \in Change : events'[c] # events[c] => c.id \in ids /\ c.key = rows[c.id].key
                                                /\ c.op = op
  BY <1>2
<1>7. \A c \in Change : events'[c] \in {events[c], events[c] + 1}
  BY <1>2
<1>8. \A id \in PeerIds : rows'[id] # rows[id] =>
         \E c \in Change : /\ c.id = id /\ events'[c] = events[c] + 1
                           /\ rows'[id] = NoRow => c.op = "delete"
  BY <1>1, <1>3
<1>9. \A id \in PeerIds : rows'[id] # NoRow => Exists(id) /\ rows'[id].key = rows[id].key
  BY <1>1 DEF Exists
<1>. QED BY <1>1, <1>3, <1>6, <1>7, <1>8, <1>9 DEF Grows

LEMMA GrowsInserted ==
    ASSUME IndInv, NEW owner, Known(owner), NEW r \in Requests, NEW ok \in BOOLEAN,
           ReservePeer(r, ok)
    PROVE  /\ Grows
           /\ nextId \in PeerIds /\ ~Exists(nextId) /\ nextId' = nextId + 1
           /\ rows'[nextId] # NoRow /\ rows'[nextId].key = proc[r].key /\ proc[r].key \in Keys
           /\ rows'[nextId].cfg = proc[r].cfg
           /\ \A id \in PeerIds \ {nextId} : rows'[id] = rows[id]
           /\ \E c \in Change : c.id = nextId /\ events'[c] = events[c] + 1
<1>. DEFINE me == proc[r]
            row == [key |-> me.key, cfg |-> me.cfg, port |-> FirstPort(me.key),
                    status |-> "provisioning"]
            d == [id |-> nextId, key |-> me.key, op |-> "upsert"]
<1>0. r \in Procs /\ StoreTypeOK
  BY DEF Procs, IndInv, StateOK
<1>1. nextId \in PeerIds /\ me.phase = "reserve" /\ nextId' = nextId + 1 /\ WriteRow(nextId, row)
  BY DEF ReservePeer, Call, Insert
<1>2. me.stage = "create" /\ me \in Local /\ Shape(me)
  BY <1>0, <1>1, PlaceFacts, StagesOfPhase
<1>3. me.key \in Keys
  BY <1>1, <1>2 DEF Shape, Local
<1>4. ~Exists(nextId)
  BY <1>0, <1>1 DEF Known, PeerIds
<1>5. row \in Peer /\ row # NoRow
  <2>1. me.cfg \in Cfgs
    BY <1>2 DEF Shape, CfgStages
  <2>2. FirstPort(me.key) \in Ports
    BY <1>3, FirstPortOK DEF ReservePeer, FreePorts
  <2>. QED BY <1>3, <2>1, <2>2, StoreAssumption DEF Peer, Statuses
<1>6. rows' = [rows EXCEPT ![nextId] = row] /\ row.key = me.key /\ row.cfg = me.cfg
  BY <1>1 DEF WriteRow
<1>7. events' = [events EXCEPT ![d] = @ + 1]
  BY <1>1 DEF WriteRow, Enqueue
<1>8. d \in Change /\ d.id = nextId /\ d.key = me.key /\ d.op = "upsert"
  BY <1>1, <1>3 DEF Change
<1>. HIDE DEF d, row
<1>9. events'[d] = events[d] + 1 /\ \A c \in Change : c # d => events'[c] = events[c]
  BY <1>0, <1>7, <1>8 DEF StoreTypeOK
<1>10. rows'[nextId] = row /\ \A id \in PeerIds \ {nextId} : rows'[id] = rows[id]
  BY <1>0, <1>1, <1>6 DEF StoreTypeOK
<1>11. \A c \in Change : events'[c] # events[c] => c = d
  BY <1>9
<1>12. Grows
  BY <1>0, <1>1, <1>4, <1>5, <1>6, <1>8, <1>9, <1>10, <1>11 DEF Grows, Exists
<1>. QED BY <1>1, <1>3, <1>4, <1>5, <1>6, <1>8, <1>9, <1>10, <1>12

LEMMA OntoKeeps ==
    ASSUME NEW p \in Procs, NEW t, Busy(p), Onto(p, t)
    PROVE  ListenerKeeps
<1>0. Listener \in Procs
  BY DEF Procs
<1>1. CASE p = Listener
  BY <1>1 DEF Onto, ListenerKeeps, Busy, Handled
<1>2. CASE p # Listener
  <2>1. proc'[Listener] = proc[Listener]
    BY <1>0, <1>2 DEF Onto
  <2>. QED BY <2>1 DEF ListenerKeeps, Busy, Handled
<1>. QED BY <1>1, <1>2

LEMMA OtherKeeps ==
    ASSUME IndInv, NEW p \in Procs \ {Listener}, NEW l, proc' = [proc EXCEPT ![p] = l]
    PROVE  ListenerKeeps /\ \A q \in Procs \ {p} : proc'[q] = proc[q]
<1>1. \A q \in Procs \ {p} : proc'[q] = proc[q]
  BY DEF IndInv, ProcOK
<1>2. proc'[Listener] = proc[Listener]
  BY <1>1 DEF Procs
<1>. QED BY <1>1, <1>2 DEF ListenerKeeps, Busy, Handled

\* The step of a reservation, and what the request becomes.
LEMMA ReserveFacts ==
    ASSUME IndInv, NEW r \in Requests, NEW ok \in BOOLEAN, ReservePeer(r, ok)
    PROVE  /\ r \in Procs \ {Listener} /\ Busy(r) /\ proc[r].phase = "reserve"
           /\ proc[r].stage = "create" /\ mode = "up"
           /\ \A q \in Procs \ {r} : proc'[q] = proc[q]
           /\ ListenerKeeps
           /\ ~ok => proc'[r].phase = "idle" /\ proc'[r].stage = "failed"
           /\ ok => /\ proc'[r].stage = "create" /\ proc'[r].phase = "ensure"
                    /\ proc'[r].id = nextId /\ proc'[r].key = proc[r].key
           /\ UNCHANGED <<wg, mode, listed>>
<1>. DEFINE me == proc[r]
<1>1. r \in Procs \ {Listener} /\ me.phase = "reserve" /\ Busy(r)
  BY ManagerAssumption DEF Procs, ReservePeer, Call, Busy
<1>2. me.stage = "create" /\ me \in Local
  BY <1>1, PlaceFacts, StagesOfPhase
<1>3. CASE ok
  <2>. DEFINE l == [Moved(me, Branch(r, TRUE), {}) EXCEPT
                      !.id = nextId, !.port = FirstPort(me.key)]
  <2>1. proc' = [proc EXCEPT ![r] = l]
    BY <1>3 DEF ReservePeer
  <2>2. Branch(r, TRUE).stage = "create" /\ Branch(r, TRUE).phase = "ensure"
    BY <1>1, <1>2, FirstSteps DEF Branch, At
  <2>3. l.stage = "create" /\ l.phase = "ensure" /\ l.id = nextId /\ l.key = me.key
    BY <1>2, <2>2 DEF Moved, Local
  <2>. HIDE DEF l
  <2>4. proc'[r] = l /\ ListenerKeeps /\ \A q \in Procs \ {r} : proc'[q] = proc[q]
    BY <1>1, <2>1, OtherKeeps DEF IndInv, ProcOK
  <2>. QED BY <1>1, <1>2, <1>3, <2>3, <2>4 DEF ReservePeer, Call
<1>4. CASE ~ok
  <2>. DEFINE t == Branch(r, FALSE)
  <2>1. Onto(r, t)
    BY <1>1, <1>4, GotoOnto DEF ReservePeer, Continue
  <2>2. t = Return("failed")
    BY <1>1, <1>2, ReadFlow DEF Branch, Go
  <2>. HIDE DEF t
  <2>3. proc'[r].phase = "idle" /\ proc'[r].stage = "failed"
    BY <2>1, <2>2 DEF Onto, Return, At
  <2>4. ListenerKeeps /\ \A q \in Procs \ {r} : proc'[q] = proc[q]
    BY <1>1, <2>1, OntoKeeps DEF Onto
  <2>. QED BY <1>1, <1>2, <1>4, <2>3, <2>4 DEF ReservePeer, Call
<1>. QED BY <1>3, <1>4

\* What the listener becomes when it reads the row of its peer.
LEMMA ReadFacts ==
    ASSUME IndInv, ReadChange
    PROVE  LET l == proc[Listener]
               m == proc'[Listener]
               row == rows[l.id]
           IN  /\ mode = "up" /\ Busy(Listener) /\ l.phase = "read" /\ l.stage = "change"
               /\ l.id \in PeerIds
               /\ m.id = l.id /\ m.key = l.key /\ m.op = l.op
               /\ m.stage = ChangeStage(row)
               /\ m.phase = IF m.stage \in {"reapply", "promote"} THEN "ensure" ELSE "bird_list"
               /\ row # NoRow => m.port = row.port /\ m.cfg = row.cfg
               /\ \A q \in Procs \ {Listener} : proc'[q] = proc[q]
               /\ UNCHANGED <<rows, events, nextId, wg, mode, listed>>
<1>. DEFINE me == proc[Listener]
            row == rows[me.id]
            stage == ChangeStage(row)
            l == [me EXCEPT
                    !.stage = stage,
                    !.phase = IF stage \in {"reapply", "promote"} THEN "ensure" ELSE "bird_list",
                    !.port = IF row = NoRow THEN 0 ELSE row.port,
                    !.cfg = IF row = NoRow THEN NoCfg ELSE row.cfg]
<1>1. Listener \in Procs /\ me.phase = "read" /\ mode = "up"
  BY DEF Procs, ReadChange, Call
<1>2. me \in Local /\ me.stage = "change" /\ me.id \in PeerIds
  <2>1. me \in Local /\ Shape(me) /\ me.stage \in {"update", "delete", "change"}
        /\ Plays(Listener, me.stage)
    BY <1>1, PlaceFacts, StagesOfPhase
  <2>2. me.stage = "change"
    BY <2>1 DEF Plays, ListenerStages, ChangeStages
  <2>. QED BY <2>1, <2>2 DEF Shape, ChangeStages
<1>3. proc' = [proc EXCEPT ![Listener] = l]
  BY DEF ReadChange
<1>. HIDE DEF stage
<1>4. /\ l.id = me.id /\ l.key = me.key /\ l.op = me.op /\ l.stage = stage
      /\ l.phase = IF stage \in {"reapply", "promote"} THEN "ensure" ELSE "bird_list"
      /\ row # NoRow => l.port = row.port /\ l.cfg = row.cfg
  BY <1>2 DEF Local
<1>. HIDE DEF l
<1>5. proc'[Listener] = l /\ \A q \in Procs \ {Listener} : proc'[q] = proc[q]
  BY <1>1, <1>3 DEF IndInv, ProcOK
<1>. QED BY <1>1, <1>2, <1>4, <1>5 DEF ReadChange, Call, Busy, stage, storeVars

\* Recovery leaves the processes alone, and writes rows with their events.
LEMMA RecoverStore ==
    ASSUME IndInv, RecoverStep
    PROVE  Grows /\ UNCHANGED <<proc, nextId>>
<1>0. StoreTypeOK
  BY DEF IndInv, StateOK
<1>1. CASE Restart \/ RecoverList
  BY <1>0, <1>1, GrowsSame DEF Restart, RecoverList, storeVars
<1>2. CASE RecoverFail
  BY <1>0, <1>2, GrowsSame DEF RecoverFail, Recovering
<1>3. ASSUME NEW ok \in BOOLEAN,
             RecoverWireguard(ok) \/ RecoverNft(ok) \/ RecoverBird(ok)
             \/ RecoverRemove(ok) \/ RecoverManaged(ok) \/ RecoverChanges(ok)
      PROVE  Grows /\ UNCHANGED <<proc, nextId>>
  <2>1. UNCHANGED <<rows, events, proc, nextId>>
    BY <1>3 DEF RecoverWireguard, RecoverNft, RecoverBird, RecoverRemove, RecoverManaged,
                RecoverChanges, RecoverSweep, Recovering
  <2>. QED BY <1>0, <2>1, GrowsSame
<1>4. ASSUME NEW ok \in BOOLEAN, RecoverDrop(ok)
      PROVE  Grows /\ UNCHANGED <<proc, nextId>>
  <2>1. PICK done : /\ delete_rows(done) /\ done \in SUBSET PeerIds
                    /\ \A id \in done : Exists(id)
    BY <1>4 DEF RecoverDrop, ToDelete
  <2>. QED BY <1>0, <1>4, <2>1, GrowsAll DEF RecoverDrop, Recovering
<1>5. ASSUME NEW ok \in BOOLEAN, RecoverActivate(ok)
      PROVE  Grows /\ UNCHANGED <<proc, nextId>>
  <2>1. PICK done : /\ activate_rows(done) /\ done \in SUBSET PeerIds
                    /\ \A id \in done : Exists(id)
    BY <1>5 DEF RecoverActivate, Desired
  <2>. QED BY <1>0, <1>5, <2>1, GrowsAll DEF RecoverActivate, Recovering
<1>. QED BY <1>1, <1>2, <1>3, <1>4, <1>5 DEF RecoverStep

(***************************************************************************)
(* But for the two steps of the listener that take and delete an event,    *)
(* every step keeps the event that is handled, and the table only grows.   *)
(***************************************************************************)
LEMMA StepStore ==
    ASSUME IndInv, RunningOK, NEW owner, Known(owner), [Next]_vars
    PROVE  \/ Grows /\ ListenerKeeps
           \/ \E c \in Change : TakeChange(c)
           \/ \E ok \in BOOLEAN : Ack(ok)
<1>0. StoreTypeOK /\ Listener \in Procs /\ Requests \subseteq Procs \ {Listener}
  BY ManagerAssumption DEF IndInv, StateOK, Procs
<1>1. ASSUME UNCHANGED proc
      PROVE  ListenerKeeps
  BY <1>1 DEF ListenerKeeps, Busy, Handled
<1>2. CASE Rests
  BY <1>0, <1>1, <1>2, GrowsSame DEF Rests
<1>3. ASSUME NEW p \in Procs, NEW l, Starts(p, l)
      PROVE  Grows /\ ListenerKeeps
  BY <1>0, <1>3, GrowsSame, OtherKeeps DEF Starts
<1>4. ASSUME NEW p \in Procs, NEW t, Moves(p, t)
      PROVE  Grows /\ ListenerKeeps
  BY <1>0, <1>4, GrowsSame, MoveLeads, OntoKeeps DEF Moves
<1>5. ASSUME NEW p \in Procs, NEW ok \in BOOLEAN, Writes(p, ok)
      PROVE  Grows /\ ListenerKeeps
  <2>1. Busy(p) /\ Onto(p, Branch(p, RowWritten(p, ok))) /\ proc[p].stage # "reconcile"
    BY <1>5, WriteLeads DEF Writes
  <2>2. proc[p].id \in PeerIds
    BY <1>5, <2>1, IdAtWork DEF Writes
  <2>3. ListenerKeeps
    BY <2>1, OntoKeeps
  <2>4. Grows
    BY <1>0, <1>5, <2>2, GrowsSame, GrowsWritten DEF Writes
  <2>. QED BY <2>3, <2>4
<1>6. ASSUME NEW p \in Procs, NEW ok \in BOOLEAN, NEW device, Touches(p, ok, device)
      PROVE  Grows /\ ListenerKeeps
  BY <1>0, <1>6, GrowsSame, TouchLeads, OntoKeeps DEF Touches
<1>7. ASSUME NEW r \in Requests, NEW ok \in BOOLEAN, ReservePeer(r, ok)
      PROVE  Grows /\ ListenerKeeps
  BY <1>7, GrowsInserted, ReserveFacts
<1>8. ASSUME NEW r \in Requests, NEW l, Reads(r, l)
      PROVE  Grows /\ ListenerKeeps
  BY <1>0, <1>8, GrowsSame, OtherKeeps DEF Reads
<1>9. CASE ReadChange
  <2>1. ListenerKeeps
    BY <1>9, ReadFacts DEF ListenerKeeps, Handled, Busy
  <2>. QED BY <1>0, <1>9, <2>1, ReadFacts, GrowsSame
<1>10. ASSUME NEW id \in PeerIds, NEW row, Intervenes(id, row)
       PROVE  Grows /\ ListenerKeeps
  BY <1>0, <1>1, <1>10, GrowsWritten DEF Intervenes
<1>11. ASSUME NEW reboot \in BOOLEAN, Crash(reboot)
       PROVE  Grows /\ ListenerKeeps
  <2>1. ~Busy(Listener)'
    BY <1>0, <1>11 DEF Crash, Stopped, Busy, Blank
  <2>. QED BY <1>0, <1>11, <2>1, GrowsSame DEF Crash, ListenerKeeps, storeVars
<1>12. CASE RecoverStep
  BY <1>1, <1>12, RecoverStore
<1>. QED BY <1>2, <1>3, <1>4, <1>5, <1>6, <1>7, <1>8, <1>9, <1>10, <1>11, <1>12, Kinds

LEMMA TakeFacts ==
    ASSUME IndInv, NEW c \in Change, TakeChange(c)
    PROVE  LET m == proc'[Listener] IN
           /\ mode = "up" /\ ~Busy(Listener) /\ Busy(Listener)' /\ Handled' = c
           /\ events[c] > 0 /\ peerLock[c.key] = Free
           /\ m.stage = "change" /\ m.phase = "read" /\ m.id = c.id /\ m.key = c.key
           /\ m.op = c.op
           /\ \A q \in Procs \ {Listener} : proc'[q] = proc[q]
           /\ UNCHANGED <<rows, events, nextId, wg, mode, listed>>
<1>. DEFINE l == [Blank("change") EXCEPT !.phase = "read", !.key = c.key,
                                         !.id = c.id, !.op = c.op]
<1>1. l.stage = "change" /\ l.phase = "read" /\ l.id = c.id /\ l.key = c.key /\ l.op = c.op
  BY DEF Blank
<1>2. proc' = [proc EXCEPT ![Listener] = l] /\ Listener \in Procs
  BY DEF TakeChange, Procs
<1>. HIDE DEF l
<1>3. proc'[Listener] = l /\ \A q \in Procs \ {Listener} : proc'[q] = proc[q]
  BY <1>2 DEF IndInv, ProcOK
<1>4. [id |-> c.id, key |-> c.key, op |-> c.op] = c
  BY DEF Change
<1>5. Handled' = c /\ Busy(Listener)'
  BY <1>1, <1>3, <1>4 DEF Handled, Busy
<1>. QED BY <1>1, <1>3, <1>5 DEF TakeChange, storeVars

LEMMA HandledChange ==
    ASSUME IndInv, Busy(Listener)
    PROVE  /\ Handled \in Change /\ Handled.id = proc[Listener].id
           /\ Handled.op = proc[Listener].op /\ Handled.key = proc[Listener].key
           /\ proc[Listener].stage \in ChangeStages
<1>1. /\ proc[Listener] \in Local /\ Shape(proc[Listener]) /\ Plays(Listener, proc[Listener].stage)
      /\ proc[Listener].phase # "idle"
  BY PlaceFacts DEF Procs, Busy
<1>2. proc[Listener].stage \in ChangeStages
  BY <1>1 DEF Shape, PhasesOf, Plays, ListenerStages, ChangeStages
<1>3. proc[Listener].id \in PeerIds /\ proc[Listener].stage # "reconcile"
  BY <1>1, <1>2 DEF Shape, ChangeStages
<1>4. proc[Listener].key \in Keys
  BY <1>1, <1>3 DEF Shape, Local
<1>. QED BY <1>1, <1>2, <1>3, <1>4 DEF Handled, Change, Local

LEMMA AckFacts ==
    ASSUME IndInv, EventsOK, NEW ok \in BOOLEAN, Ack(ok)
    PROVE  /\ mode = "up" /\ Busy(Listener) /\ proc[Listener].phase = "ack" /\ Handled \in Change
           /\ proc[Listener].stage = "change"
           /\ ~Busy(Listener)' /\ proc'[Listener].stage = "ready" /\ proc'[Listener].id = 0
           /\ events'[Handled] = events[Handled] - 1
           /\ \A c \in Change \ {Handled} : events'[c] = events[c]
           /\ \A q \in Procs \ {Listener} : proc'[q] = proc[q]
           /\ UNCHANGED <<rows, nextId, wg, mode, listed>>
<1>. DEFINE l == proc[Listener]
            t == Branch(Listener, ok)
<1>1. Listener \in Procs /\ l.phase = "ack" /\ mode = "up" /\ Busy(Listener)
  BY DEF Procs, Ack, Call, Busy
<1>2. l.stage = "change"
  BY <1>1, PlaceFacts, StagesOfPhase
<1>3. t = Return("ready")
  BY <1>1, <1>2, ReadFlow DEF Branch, Go
<1>4. Onto(Listener, t)
  BY <1>1, GotoOnto DEF Ack, Continue
<1>. HIDE DEF t
<1>5. /\ ~Busy(Listener)' /\ proc'[Listener].stage = "ready" /\ proc'[Listener].id = 0
      /\ \A q \in Procs \ {Listener} : proc'[q] = proc[q]
  BY <1>3, <1>4 DEF Onto, Return, At, Busy
<1>6. events' = [events EXCEPT ![Handled] = IF @ > 0 THEN @ - 1 ELSE 0]
  BY DEF Ack, delete_peer_change, Handled
<1>7. Handled \in Change /\ events[Handled] > 0
  BY <1>1, HandledChange DEF EventsOK
<1>8. events'[Handled] = events[Handled] - 1 /\ \A c \in Change \ {Handled} : events'[c] = events[c]
  BY <1>6, <1>7 DEF IndInv, StateOK, StoreTypeOK
<1>. QED BY <1>1, <1>2, <1>5, <1>7, <1>8 DEF Ack, Call, delete_peer_change

(***************************************************************************)
(* An event beside the one that is handled stays, unless the listener      *)
(* takes it; and an event that is added is beside the one that is handled. *)
(***************************************************************************)
LEMMA LeftStep ==
    ASSUME IndInv, RunningOK, EventsOK, NEW owner, Known(owner), [Next]_vars,
           NEW c \in Change, Left(c)
    PROVE  Left(c)' \/ TakeChange(c)
<1>0. \A d \in Change : events[d] \in Nat
  BY DEF IndInv, StateOK, StoreTypeOK
<1>1. CASE Grows /\ ListenerKeeps
  <2>1. events'[c] \in {events[c], events[c] + 1} /\ events[c] \in Nat
    BY <1>0, <1>1 DEF Grows
  <2>2. Busy(Listener)' /\ c = Handled' => Busy(Listener) /\ c = Handled
    BY <1>1 DEF ListenerKeeps
  <2>. QED BY <2>1, <2>2 DEF Left
<1>2. ASSUME NEW d \in Change, TakeChange(d), d # c
      PROVE  Left(c)'
  <2>1. events' = events /\ Handled' = d /\ ~Busy(Listener)
    BY <1>2, TakeFacts
  <2>. QED BY <1>2, <2>1 DEF Left
<1>3. ASSUME NEW ok \in BOOLEAN, Ack(ok)
      PROVE  Left(c)'
  <2>1. CASE c = Handled
    BY <1>0, <1>3, <2>1, AckFacts DEF Left
  <2>2. CASE c # Handled
    BY <1>3, <2>2, AckFacts DEF Left
  <2>. QED BY <2>1, <2>2
<1>. QED BY <1>1, <1>2, <1>3, StepStore

LEMMA LeftNew ==
    ASSUME IndInv, EventsOK, ListenerKeeps, NEW c \in Change, events'[c] = events[c] + 1
    PROVE  Left(c)'
<1>1. events[c] \in Nat
  BY DEF IndInv, StateOK, StoreTypeOK
<1>2. Busy(Listener)' /\ c = Handled' => Busy(Listener) /\ c = Handled
  BY DEF ListenerKeeps
<1>3. CASE Busy(Listener) /\ c = Handled
  BY <1>1, <1>3 DEF Left, EventsOK
<1>4. CASE ~(Busy(Listener) /\ c = Handled)
  BY <1>1, <1>2, <1>4 DEF Left
<1>. QED BY <1>3, <1>4

LEMMA RowChanged ==
    ASSUME IndInv, EventsOK, ListenerKeeps, Grows, NEW id \in PeerIds, rows'[id] # rows[id]
    PROVE  More(id)' /\ (rows'[id] = NoRow => MoreDelete(id)')
<1>1. PICK c \in Change : /\ c.id = id /\ events'[c] = events[c] + 1
                          /\ rows'[id] = NoRow => c.op = "delete"
  BY DEF Grows
<1>2. Left(c)'
  BY <1>1, LeftNew
<1>. QED BY <1>1, <1>2 DEF More, MoreDelete

LEMMA MorePending ==
    ASSUME IndInv, NEW id
    PROVE  /\ More(id) => Pending(id)
           /\ MoreDelete(id) => DeletePending(id)
           /\ DeletePending(id) => Pending(id)
<1>1. \A c \in Change : events[c] \in Nat
  BY DEF IndInv, StateOK, StoreTypeOK
<1>2. \A c \in Change : Left(c) => events[c] > 0
  BY <1>1 DEF Left
<1>. QED BY <1>2 DEF More, MoreDelete, Pending, DeletePending

(***************************************************************************)
(* Nobody else works on the peer of a process that is past the lock.       *)
(***************************************************************************)
LEMMA Alone ==
    ASSUME IndInv, NEW owner, Known(owner), NEW p \in Procs, NEW q \in Procs,
           Locked(proc[p].phase), Locked(proc[q].phase),
           proc[p].id = proc[q].id, proc[p].id # 0
    PROVE  p = q
<1>1. Busy(p) /\ Busy(q)
  BY DEF Locked, Busy
<1>2. proc[p].key = proc[q].key /\ proc[p].key # NoKey
  BY <1>1 DEF Known
<1>. QED BY <1>2 DEF IndInv, ProcOK, Owns

LEMMA LockedOut ==
    ASSUME IndInv, NEW owner, Known(owner), NEW c \in Change, TakeChange(c),
           NEW q \in Procs, Locked(proc[q].phase), proc[q].id = c.id
    PROVE  FALSE
<1>1. Busy(q) /\ c.id # 0
  BY DEF Locked, Busy, Change, PeerIds
<1>2. c.key = owner[c.id] /\ proc[q].key = owner[c.id] /\ proc[q].key # NoKey
  BY <1>1, TakeFacts DEF Known
<1>3. peerLock[c.key] = q /\ peerLock[c.key] = Free
  BY <1>2, TakeFacts DEF IndInv, ProcOK, Owns
<1>. QED BY <1>3, ManagerAssumption DEF IndInv, ProcOK

LEMMA StoreFacts ==
    ASSUME IndInv
    PROVE  /\ StoreTypeOK
           /\ nextId \in Nat
           /\ \A id \in PeerIds : id \in Nat /\ id # 0
           /\ \A c \in Change : events[c] \in Nat /\ c.id \in PeerIds
<1>1. StoreTypeOK
  BY DEF IndInv, StateOK
<1>2. nextId \in Nat
  BY <1>1, StoreAssumption DEF StoreTypeOK
<1>3. \A id \in PeerIds : id \in Nat /\ id # 0
  BY StoreAssumption DEF PeerIds
<1>4. \A c \in Change : events[c] \in Nat
  BY <1>1 DEF StoreTypeOK
<1>5. \A c \in Change : c.id \in PeerIds
  BY DEF Change
<1>. QED BY <1>1, <1>2, <1>3, <1>4, <1>5

(***************************************************************************)
(* Ids keep their machines.                                                *)
(***************************************************************************)
LEMMA KnownStore ==
    ASSUME IndInv, NEW owner, Known(owner), Grows,
           UNCHANGED <<rows, events>> \/ nextId' = nextId, nextId' \in {nextId, nextId + 1}
    PROVE  /\ \A id \in PeerIds : Exists(id)' => rows'[id].key = owner[id] /\ id < nextId'
           /\ \A c \in Change : events'[c] > 0 => c.key = owner[c.id] /\ c.id < nextId'
<1>0. /\ nextId \in Nat /\ \A id \in PeerIds : id \in Nat
      /\ \A c \in Change : events[c] \in Nat /\ c.id \in PeerIds
  BY StoreFacts
<1>1. CASE UNCHANGED <<rows, events>>
  <2>1. \A id \in PeerIds : id < nextId => id < nextId'
    BY <1>0
  <2>. QED BY <1>0, <1>1, <2>1 DEF Known, Exists
<1>2. CASE nextId' = nextId
  <2>1. nextId' # nextId + 1
    BY <1>0, <1>2
  <2>2. ASSUME NEW id \in PeerIds, Exists(id)'
        PROVE  Exists(id) /\ rows'[id].key = rows[id].key
    BY <2>1, <2>2 DEF Grows, Exists
  <2>3. ASSUME NEW c \in Change, events'[c] > 0
        PROVE  events[c] > 0 \/ (Exists(c.id) /\ c.key = rows[c.id].key)
    BY <1>0, <2>1, <2>3 DEF Grows
  <2>. QED BY <1>0, <1>2, <2>2, <2>3 DEF Known
<1>. QED BY <1>1, <1>2

LEMMA KnownOnto ==
    ASSUME IndInv, NEW owner, Known(owner), NEW p \in Procs, NEW t, Busy(p), Onto(p, t),
           nextId' \in {nextId, nextId + 1}
    PROVE  \A q \in Procs : Busy(q)' /\ proc'[q].id # 0 =>
             /\ proc'[q].key = owner[proc'[q].id] /\ proc'[q].key # NoKey
             /\ proc'[q].id < nextId'
<1>1. nextId \in Nat /\ \A q \in Procs : proc[q].id \in Nat
  BY PlaceFacts DEF IndInv, StateOK, StoreTypeOK, PeerIds
<1>2. ASSUME NEW q \in Procs, Busy(q)', proc'[q].id # 0
      PROVE  Busy(q) /\ proc'[q].id = proc[q].id /\ proc'[q].key = proc[q].key
  BY <1>2 DEF Onto, Busy
<1>. QED BY <1>1, <1>2 DEF Known

LEMMA KnownProc ==
    ASSUME IndInv, NEW owner, Known(owner), NEW p \in Procs, UNCHANGED nextId,
           \A q \in Procs \ {p} : proc'[q] = proc[q],
           Busy(p)' /\ proc'[p].id # 0 =>
             /\ proc'[p].key = owner[proc'[p].id] /\ proc'[p].key # NoKey
             /\ proc'[p].id < nextId
    PROVE  \A q \in Procs : Busy(q)' /\ proc'[q].id # 0 =>
             /\ proc'[q].key = owner[proc'[q].id] /\ proc'[q].key # NoKey
             /\ proc'[q].id < nextId'
  BY DEF Known, Busy

LEMMA OwnerStep ==
    ASSUME IndInv, RunningOK, EventsOK, NEW owner, Known(owner), [Next]_vars
    PROVE  OwnerOK'
<1>. DEFINE Procs2 == \A q \in Procs : Busy(q)' /\ proc'[q].id # 0 =>
                        /\ proc'[q].key = owner[proc'[q].id] /\ proc'[q].key # NoKey
                        /\ proc'[q].id < nextId'
<1>0. /\ StoreTypeOK /\ Listener \in Procs /\ Requests \subseteq Procs \ {Listener}
      /\ nextId \in Nat /\ (\A id \in PeerIds : id \in Nat /\ id # 0)
      /\ owner \in [PeerIds -> Keys \cup {NoKey}]
  BY ManagerAssumption, StoreFacts DEF Procs, Known
<1>1. ASSUME Grows, UNCHANGED <<rows, events>> \/ nextId' = nextId,
             nextId' \in {nextId, nextId + 1}, Procs2
      PROVE  OwnerOK'
  BY <1>0, <1>1, KnownStore DEF Known, OwnerOK
<1>. HIDE DEF Procs2
<1>2. ASSUME UNCHANGED <<proc, nextId>>
      PROVE  Procs2
  BY <1>2 DEF Procs2, Known, Busy
<1>3. CASE Rests
  BY <1>0, <1>1, <1>2, <1>3, GrowsSame DEF Rests
<1>4. ASSUME NEW p \in Procs, NEW l, Starts(p, l)
      PROVE  OwnerOK'
  <2>1. proc'[p].id = 0 /\ \A q \in Procs \ {p} : proc'[q] = proc[q]
    BY <1>4 DEF Starts, IndInv, ProcOK
  <2>2. Procs2
    BY <1>4, <2>1, KnownProc DEF Procs2, Starts
  <2>. QED BY <1>0, <1>1, <1>4, <2>2, GrowsSame DEF Starts
<1>5. ASSUME NEW p \in Procs, NEW t, Moves(p, t)
      PROVE  OwnerOK'
  <2>1. Procs2
    BY <1>5, MoveLeads, KnownOnto DEF Procs2, Moves
  <2>. QED BY <1>0, <1>1, <1>5, <2>1, GrowsSame DEF Moves
<1>6. ASSUME NEW p \in Procs, NEW ok \in BOOLEAN, Writes(p, ok)
      PROVE  OwnerOK'
  <2>1. Busy(p) /\ Onto(p, Branch(p, RowWritten(p, ok))) /\ proc[p].stage # "reconcile"
    BY <1>6, WriteLeads DEF Writes
  <2>2. proc[p].id \in PeerIds
    BY <1>6, <2>1, IdAtWork DEF Writes
  <2>3. Procs2
    BY <1>6, <2>1, KnownOnto DEF Procs2, Writes
  <2>4. Grows
    BY <1>0, <1>6, <2>2, GrowsSame, GrowsWritten DEF Writes
  <2>. QED BY <1>1, <1>6, <2>3, <2>4 DEF Writes
<1>7. ASSUME NEW p \in Procs, NEW ok \in BOOLEAN, NEW device, Touches(p, ok, device)
      PROVE  OwnerOK'
  <2>1. Procs2
    BY <1>7, TouchLeads, KnownOnto DEF Procs2, Touches
  <2>. QED BY <1>0, <1>1, <1>7, <2>1, GrowsSame DEF Touches
<1>8. ASSUME NEW r \in Requests, NEW ok \in BOOLEAN, ReservePeer(r, ok)
      PROVE  OwnerOK'
  <2>. DEFINE k == proc[r].key
  <2>0. PICK new : new = [owner EXCEPT ![nextId] = k]
    OBVIOUS
  <2>1. /\ nextId \in PeerIds /\ nextId' = nextId + 1 /\ k \in Keys /\ k # NoKey
        /\ Grows /\ ~Exists(nextId) /\ rows'[nextId].key = k
        /\ \A id \in PeerIds \ {nextId} : rows'[id] = rows[id]
    BY <1>8, GrowsInserted, ManagerAssumption
  <2>2. /\ new \in [PeerIds -> Keys \cup {NoKey}] /\ new[nextId] = k
        /\ \A id \in PeerIds : id # nextId => new[id] = owner[id]
    BY <1>0, <2>0, <2>1
  <2>old. \A id \in PeerIds : id < nextId => id # nextId /\ id < nextId'
    BY <1>0, <2>1
  <2>3. ASSUME NEW id \in PeerIds, Exists(id)'
        PROVE  rows'[id].key = new[id] /\ id < nextId'
    <3>1. CASE id = nextId
      BY <1>0, <2>1, <2>2, <3>1
    <3>2. CASE id # nextId
      <4>1. Exists(id) /\ rows'[id] = rows[id]
        BY <2>1, <2>3, <3>2 DEF Exists
      <4>. QED BY <1>0, <2>1, <2>2, <3>2, <4>1 DEF Known
    <3>. QED BY <3>1, <3>2
  <2>4. ASSUME NEW c \in Change, events'[c] > 0
        PROVE  c.key = new[c.id] /\ c.id < nextId'
    <3>0. c.id \in PeerIds /\ events[c] \in Nat
      BY <1>0 DEF Change, StoreTypeOK
    <3>1. CASE events[c] > 0
      <4>1. c.key = owner[c.id] /\ c.id < nextId
        BY <3>1 DEF Known
      <4>. QED BY <2>2, <2>old, <3>0, <4>1
    <3>2. CASE ~(events[c] > 0)
      <4>1. events'[c] # events[c]
        BY <2>4, <3>0, <3>2
      <4>2. \/ Exists(c.id) /\ c.key = rows[c.id].key
            \/ c.id = nextId /\ c.key = rows'[c.id].key
        BY <2>1, <4>1 DEF Grows
      <4>3. CASE Exists(c.id) /\ c.key = rows[c.id].key
        <5>1. c.id # nextId /\ c.key = owner[c.id] /\ c.id < nextId
          BY <2>1, <3>0, <4>3 DEF Known
        <5>. QED BY <2>2, <2>old, <3>0, <5>1
      <4>4. CASE c.id = nextId /\ c.key = rows'[c.id].key
        BY <1>0, <2>1, <2>2, <4>4
      <4>. QED BY <4>2, <4>3, <4>4
    <3>. QED BY <3>1, <3>2
  <2>5. ASSUME NEW q \in Procs, Busy(q)', proc'[q].id # 0
        PROVE  /\ proc'[q].key = new[proc'[q].id] /\ proc'[q].key # NoKey
               /\ proc'[q].id < nextId'
    <3>1. CASE q = r
      <4>1. ok
        BY <1>8, <2>5, <3>1, ReserveFacts DEF Busy
      <4>2. proc'[r].id = nextId /\ proc'[r].key = k
        BY <1>8, <4>1, ReserveFacts
      <4>. QED BY <1>0, <2>1, <2>2, <3>1, <4>2
    <3>2. CASE q # r
      <4>1. proc'[q] = proc[q]
        BY <1>8, <3>2, ReserveFacts
      <4>2. Busy(q) /\ proc[q].id # 0 /\ proc[q].id \in PeerIds
        BY <2>5, <4>1, PlaceFacts DEF Busy
      <4>3. proc[q].key = owner[proc[q].id] /\ proc[q].key # NoKey /\ proc[q].id < nextId
        BY <4>2 DEF Known
      <4>4. proc[q].id # nextId /\ proc[q].id < nextId'
        BY <2>old, <4>2, <4>3
      <4>. QED BY <2>2, <4>1, <4>2, <4>3, <4>4
    <3>. QED BY <3>1, <3>2
  <2>6. Known(new)'
    <3>1. \A c \in Change : events'[c] > 0 => c.key = new[c.id] /\ c.id < nextId'
      BY <2>4
    <3>2. \A q \in Procs : Busy(q)' /\ proc'[q].id # 0 =>
            /\ proc'[q].key = new[proc'[q].id] /\ proc'[q].key # NoKey
            /\ proc'[q].id < nextId'
      BY <2>5
    <3>3. \A id \in PeerIds : Exists(id)' => rows'[id].key = new[id] /\ id < nextId'
      BY <2>3
    <3>4. new \in [PeerIds -> Keys \cup {NoKey}]
      BY <2>2
    <3>. QED BY <3>1, <3>2, <3>3, <3>4 DEF Known
  <2>. QED BY <2>6 DEF OwnerOK
<1>9. ASSUME NEW r \in Requests, NEW l, Reads(r, l)
      PROVE  OwnerOK'
  <2>1. proc'[r] = l /\ \A q \in Procs \ {r} : proc'[q] = proc[q]
    BY <1>0, <1>9 DEF Reads, IndInv, ProcOK
  <2>2. l.id \in PeerIds /\ rows[l.id].key = l.key /\ Exists(l.id)
    BY <1>9 DEF Reads
  <2>3. l.key = owner[l.id] /\ l.id < nextId /\ l.key # NoKey
    <3>1. rows[l.id].key \in Keys
      BY <1>0, <2>2 DEF StoreTypeOK, Exists, Peer
    <3>. QED BY <2>2, <3>1, ManagerAssumption DEF Known
  <2>4. Procs2
    BY <1>0, <1>9, <2>1, <2>3, KnownProc DEF Procs2, Reads
  <2>. QED BY <1>0, <1>1, <1>9, <2>4, GrowsSame DEF Reads
<1>10. ASSUME NEW c \in Change, TakeChange(c)
       PROVE  OwnerOK'
  <2>1. c.key = owner[c.id] /\ c.id < nextId /\ c.key # NoKey
    BY <1>10, TakeFacts, ManagerAssumption DEF Known, Change
  <2>2. Procs2
    BY <1>0, <1>10, <2>1, TakeFacts, KnownProc DEF Procs2
  <2>. QED BY <1>0, <1>1, <1>10, <2>2, TakeFacts, GrowsSame
<1>11. CASE ReadChange
  <2>1. /\ proc[Listener].id # 0 /\ Busy(Listener)
        /\ proc'[Listener].id = proc[Listener].id /\ proc'[Listener].key = proc[Listener].key
        /\ \A q \in Procs \ {Listener} : proc'[q] = proc[q]
        /\ UNCHANGED <<rows, events, nextId>>
    BY <1>0, <1>11, ReadFacts
  <2>2. Procs2
    <3>1. /\ proc[Listener].key = owner[proc[Listener].id] /\ proc[Listener].key # NoKey
          /\ proc[Listener].id < nextId
      BY <1>0, <2>1 DEF Known
    <3>. QED BY <1>0, <2>1, <3>1, KnownProc DEF Procs2
  <2>. QED BY <1>0, <1>1, <2>1, <2>2, GrowsSame
<1>12. ASSUME NEW ok \in BOOLEAN, Ack(ok)
       PROVE  OwnerOK'
  <2>1. Procs2
    BY <1>0, <1>12, AckFacts, KnownProc DEF Procs2
  <2>2. \A c \in Change : events'[c] > 0 => events[c] > 0
    BY <1>12, AckFacts DEF IndInv, StateOK, StoreTypeOK
  <2>3. UNCHANGED <<rows, nextId>>
    BY <1>12, AckFacts
  <2>4. Known(owner)'
    BY <2>1, <2>2, <2>3 DEF Known, Exists, Procs2
  <2>. QED BY <2>4 DEF OwnerOK
<1>13. ASSUME NEW id \in PeerIds, NEW row, Intervenes(id, row)
       PROVE  OwnerOK'
  BY <1>0, <1>1, <1>2, <1>13, GrowsWritten DEF Intervenes
<1>14. ASSUME NEW reboot \in BOOLEAN, Crash(reboot)
       PROVE  OwnerOK'
  <2>1. \A q \in Procs : ~Busy(q)'
    BY <1>14 DEF Crash, Stopped, Busy, Blank
  <2>2. Procs2
    BY <2>1 DEF Procs2
  <2>. QED BY <1>0, <1>1, <1>14, <2>2, GrowsSame DEF Crash, storeVars
<1>15. CASE RecoverStep
  BY <1>1, <1>2, <1>15, RecoverStore
<1>. QED BY <1>3, <1>4, <1>5, <1>6, <1>7, <1>8, <1>9, <1>10, <1>11, <1>12, <1>13, <1>14, <1>15,
            Kinds

(***************************************************************************)
(* Who moves in a step.                                                    *)
(***************************************************************************)
Advances(p) ==
    /\ mode = "up"
    /\ UNCHANGED <<mode, listed>>
    /\ \A q \in Procs \ {p} : proc'[q] = proc[q]

\* A process goes on in its function, fails, returns, or comes to delete the event.
Turns(p, t) ==
    /\ Busy(p)
    /\ Advances(p)
    /\ Onto(p, t)
    /\ \/ Fails(p, t)
       \/ t.stage = proc[p].stage /\ proc[p].phase \notin {"reserve", "read"}
       \/ t.stage \in {"deleted", "created", "updated"} /\ t.phase = "idle"
       \/ t.stage = "change" /\ t.phase = "ack" /\ proc[p].stage \in ChangeStages

LEMMA MoveTurns ==
    ASSUME IndInv, NEW p \in Procs, NEW t, Moves(p, t)
    PROVE  Turns(p, t)
<1>1. Onto(p, t) /\ (Fails(p, t) \/ Succeeds(p, t)) /\ Busy(p)
  BY MoveLeads DEF Moves
<1>2. Advances(p)
  BY <1>1 DEF Moves, Advances, Onto
<1>3. Succeeds(p, t) => \/ t.stage = proc[p].stage /\ proc[p].phase \notin {"reserve", "read"}
                        \/ t.stage = "change" /\ t.phase = "ack" /\ proc[p].stage \in ChangeStages
  BY DEF Succeeds, Sequel, ChangeStages
<1>. QED BY <1>1, <1>2, <1>3 DEF Turns

LEMMA TouchTurns ==
    ASSUME IndInv, NEW p \in Procs, NEW ok \in BOOLEAN, NEW device, Touches(p, ok, device)
    PROVE  Turns(p, Branch(p, ok))
<1>. DEFINE t == Branch(p, ok)
<1>1. /\ Onto(p, t) /\ Busy(p)
      /\ ~ok => Fails(p, t)
      /\ ok => \/ t = At(proc[p].stage, "configure")
               \/ t = At(proc[p].stage, "bird_list")
               \/ t = RemoveDone(proc[p].stage)
  BY TouchLeads DEF Touches
<1>. HIDE DEF t
<1>2. Advances(p)
  BY <1>1 DEF Touches, Advances, Onto
<1>3. ok => t.stage = proc[p].stage /\ proc[p].phase \notin {"reserve", "read"}
  BY <1>1 DEF Touches, At, RemoveDone
<1>4. Turns(p, t)
  BY <1>1, <1>2, <1>3 DEF Turns
<1>. QED BY <1>4 DEF t

LEMMA WriteTurns ==
    ASSUME IndInv, NEW p \in Procs, NEW ok \in BOOLEAN, Writes(p, ok)
    PROVE  Turns(p, Branch(p, RowWritten(p, ok)))
<1>. DEFINE done == RowWritten(p, ok)
            t == Branch(p, done)
            s == proc[p].stage
<1>1. /\ Onto(p, t) /\ Busy(p)
      /\ ~done => Fails(p, t)
      /\ done => \/ t \in {At(s, "ensure"), At(s, "nft_list"), At(s, "bird_list")}
                 \/ t \in {Return("deleted"), Return("created"), Return("updated")}
                 \/ t = Return("failed")
  BY WriteLeads DEF Writes
<1>. HIDE DEF t, done
<1>2. Advances(p)
  BY <1>1 DEF Writes, Advances, Onto
<1>3. t \in {At(s, "ensure"), At(s, "nft_list"), At(s, "bird_list")}
      => t.stage = s /\ proc[p].phase \notin {"reserve", "read"}
  BY DEF Writes, At
<1>4. t \in {Return("deleted"), Return("created"), Return("updated")}
      => t.stage \in {"deleted", "created", "updated"} /\ t.phase = "idle"
  BY DEF At, Return
<1>5. t = Return("failed") => Fails(p, t)
  BY DEF At, Return, Fails
<1>6. Turns(p, t)
  BY <1>1, <1>2, <1>3, <1>4, <1>5 DEF Turns
<1>. QED BY <1>6 DEF t, done

(***************************************************************************)
(* The steps, by who moves and how.                                        *)
(***************************************************************************)
LEMMA Movers ==
    ASSUME IndInv, RunningOK, [Next]_vars
    PROVE  \/ UNCHANGED <<proc, mode, listed>>
           \/ \E p \in Procs : \E l : Starts(p, l)
           \/ \E p \in Procs : \E t : Turns(p, t)
           \/ \E r \in Requests, ok \in BOOLEAN : ReservePeer(r, ok)
           \/ \E r \in Requests : \E l : Reads(r, l)
           \/ \E c \in Change : TakeChange(c)
           \/ ReadChange
           \/ \E ok \in BOOLEAN : Ack(ok)
           \/ \E reboot \in BOOLEAN : Crash(reboot)
           \/ RecoverStep
<1>1. ASSUME NEW p \in Procs, NEW t, Moves(p, t)
      PROVE  \E place : Turns(p, place)
  BY <1>1, MoveTurns
<1>2. ASSUME NEW p \in Procs, NEW ok \in BOOLEAN, Writes(p, ok)
      PROVE  \E place : Turns(p, place)
  BY <1>2, WriteTurns
<1>3. ASSUME NEW p \in Procs, NEW ok \in BOOLEAN,
             NEW device \in Device \cup {NoIface, Unaliased}, Touches(p, ok, device)
      PROVE  \E place : Turns(p, place)
  BY <1>3, TouchTurns
<1>4. Rests => UNCHANGED <<proc, mode, listed>>
  BY DEF Rests
<1>5. ASSUME NEW id \in PeerIds, NEW row, Intervenes(id, row)
      PROVE  UNCHANGED <<proc, mode, listed>>
  BY <1>5 DEF Intervenes
<1>. QED BY <1>1, <1>2, <1>3, <1>4, <1>5, Kinds

LEMMA StartFacts ==
    ASSUME IndInv, NEW p \in Procs, NEW l, Starts(p, l)
    PROVE  proc'[p] = l /\ Advances(p) /\ p # Listener
  BY DEF Starts, Advances, IndInv, ProcOK

LEMMA RequestReads ==
    ASSUME IndInv, NEW r \in Requests, NEW l, Reads(r, l)
    PROVE  /\ r \in Procs /\ r # Listener /\ Busy(r) /\ proc'[r] = l /\ Advances(r)
           /\ proc[r].stage \in {"update", "delete"}
<1>1. r \in Procs /\ r # Listener /\ Busy(r)
  BY ManagerAssumption DEF Procs, Reads, Busy
<1>2. proc'[r] = l /\ Advances(r)
  BY <1>1 DEF Reads, Advances, IndInv, ProcOK
<1>. QED BY <1>1, <1>2 DEF Reads

LEMMA CrashFacts ==
    ASSUME IndInv, NEW reboot \in BOOLEAN, Crash(reboot)
    PROVE  /\ \A p \in Procs : /\ ~Busy(p)'
                               /\ proc'[p] = proc[p] \/ proc'[p].stage \in {"failed", "ready"}
           /\ mode' = "down" /\ listed' = NoRows
           /\ UNCHANGED <<rows, events, nextId>>
           /\ wg' = wg \/ wg' = [id \in PeerIds |-> NoIface]
  BY DEF Crash, Stopped, Busy, Blank, NoRows, storeVars

\* The modes of recovery.
LEMMA RecoverModes ==
    ASSUME IndInv, RunningOK, RecoverStep
    PROVE  /\ mode # "up"
           /\ mode' \in {"up", "down", "list"} => listed' = NoRows
           /\ UNCHANGED proc
<1>1. CASE Restart \/ RecoverList
  BY <1>1 DEF Restart, RecoverList, RunningOK
<1>2. ASSUME NEW step \in Modes \ {"up"}, NEW next \in Modes, NEW ok \in BOOLEAN,
             Recovering(step, next, ok), next \notin {"down", "list"}
      PROVE  /\ mode # "up"
             /\ mode' \in {"up", "down", "list"} => listed' = NoRows
             /\ UNCHANGED proc
  BY <1>2 DEF Recovering
<1>3. ASSUME NEW step \in Modes \ {"up"}, Recovering(step, step, FALSE)
      PROVE  /\ mode # "up" /\ listed' = NoRows /\ UNCHANGED proc
  BY <1>3 DEF Recovering
<1>4. CASE RecoverFail
  BY <1>3, <1>4 DEF RecoverFail
<1>5. ASSUME NEW ok \in BOOLEAN,
             RecoverWireguard(ok) \/ RecoverNft(ok) \/ RecoverBird(ok)
             \/ RecoverRemove(ok) \/ RecoverManaged(ok) \/ RecoverChanges(ok)
             \/ RecoverDrop(ok) \/ RecoverActivate(ok)
      PROVE  \E step \in Modes \ {"up"} : \E next \in Modes \ {"down", "list"} :
               Recovering(step, next, ok)
  <2>1. \/ Recovering("wireguard", "nft", ok) \/ Recovering("nft", "bird", ok)
        \/ Recovering("bird", "remove", ok) \/ Recovering("remove", "managed", ok)
        \/ Recovering("managed", "changes", ok) \/ Recovering("changes", "drop", ok)
        \/ Recovering("drop", "activate", ok) \/ Recovering("activate", "up", ok)
    BY <1>5 DEF RecoverWireguard, RecoverNft, RecoverBird, RecoverRemove, RecoverManaged,
                RecoverChanges, RecoverSweep, RecoverDrop, RecoverActivate
  <2>. QED BY <2>1 DEF Modes
<1>. QED BY <1>1, <1>2, <1>4, <1>5 DEF RecoverStep

LEMMA RunningStep ==
    ASSUME IndInv, RunningOK, EventsOK, [Next]_vars
    PROVE  RunningOK'
<1>. DEFINE Works(p) == Busy(p)' /\ proc'[p].id = 0 =>
                proc'[p].phase \in {"reserve", "read"} \/ proc'[p].stage = "reconcile"
<1>0. Listener \in Procs /\ Requests \subseteq Procs
  BY DEF Procs
<1>1. ASSUME UNCHANGED <<proc, mode, listed>>
      PROVE  RunningOK'
  BY <1>1 DEF RunningOK, Busy, NoRows
<1>2. ASSUME NEW p \in Procs, Advances(p), Works(p)
      PROVE  RunningOK'
  <2>1. mode' = "up" /\ listed' = listed /\ listed = NoRows
    BY <1>2 DEF Advances, RunningOK
  <2>2. ASSUME NEW q \in Procs, Busy(q)', proc'[q].id = 0
        PROVE  proc'[q].phase \in {"reserve", "read"} \/ proc'[q].stage = "reconcile"
    <3>1. CASE q = p
      BY <1>2, <2>2, <3>1
    <3>2. CASE q # p
      BY <1>2, <2>2, <3>2 DEF RunningOK, Advances, Busy
    <3>. QED BY <3>1, <3>2
  <2>. QED BY <2>1, <2>2 DEF RunningOK, NoRows
<1>3. ASSUME NEW p \in Procs, NEW l, Starts(p, l)
      PROVE  RunningOK'
  <2>1. Works(p)
    BY <1>3, StartFacts DEF Starts
  <2>. QED BY <1>2, <1>3, <2>1, StartFacts
<1>4. ASSUME NEW p \in Procs, NEW t, Turns(p, t)
      PROVE  RunningOK'
  <2>1. ASSUME Busy(p)', proc'[p].id = 0
        PROVE  proc'[p].phase \in {"reserve", "read"} \/ proc'[p].stage = "reconcile"
    <3>1. t.phase # "idle" /\ proc[p].id = 0
      BY <1>4, <2>1 DEF Turns, Onto, Busy
    <3>2. proc[p].phase \in {"reserve", "read"} \/ proc[p].stage = "reconcile"
      BY <1>4, <3>1 DEF RunningOK, Turns
    <3>3. ~Working(proc[p]) /\ proc[p].stage \notin ChangeStages
      BY <3>1, <3>2, PlaceFacts DEF Working, Shape, PeerIds, ChangeStages
    <3>4. t.stage = proc[p].stage /\ proc[p].phase \notin {"reserve", "read"}
      BY <1>4, <3>1, <3>3 DEF Turns, Fails
    <3>. QED BY <1>4, <3>2, <3>4 DEF Turns, Onto
  <2>. QED BY <1>2, <1>4, <2>1 DEF Turns
<1>5. ASSUME NEW r \in Requests, NEW ok \in BOOLEAN, ReservePeer(r, ok)
      PROVE  RunningOK'
  <2>1. Advances(r)
    BY <1>5, ReserveFacts DEF Advances
  <2>2. nextId # 0
    BY <1>5, StoreFacts DEF ReservePeer
  <2>3. Works(r)
    BY <1>5, <2>2, ReserveFacts DEF Busy
  <2>. QED BY <1>0, <1>2, <2>1, <2>3
<1>6. ASSUME NEW r \in Requests, NEW l, Reads(r, l)
      PROVE  RunningOK'
  <2>1. Works(r) /\ Advances(r)
    BY <1>6, RequestReads, StoreFacts DEF Reads
  <2>. QED BY <1>0, <1>2, <2>1
<1>7. ASSUME NEW c \in Change, TakeChange(c)
      PROVE  RunningOK'
  <2>1. Works(Listener) /\ Advances(Listener)
    BY <1>7, TakeFacts DEF Advances
  <2>. QED BY <1>0, <1>2, <2>1
<1>8. CASE ReadChange
  <2>1. Works(Listener) /\ Advances(Listener)
    BY <1>8, ReadFacts, StoreFacts DEF Advances
  <2>. QED BY <1>0, <1>2, <2>1
<1>9. ASSUME NEW ok \in BOOLEAN, Ack(ok)
      PROVE  RunningOK'
  <2>1. Works(Listener) /\ Advances(Listener)
    BY <1>9, AckFacts DEF Advances
  <2>. QED BY <1>0, <1>2, <2>1
<1>10. ASSUME NEW reboot \in BOOLEAN, Crash(reboot)
       PROVE  RunningOK'
  BY <1>10, CrashFacts DEF RunningOK, NoRows
<1>11. CASE RecoverStep
  <2>1. \A p \in Procs : ~Busy(p)
    BY <1>11, RecoverModes DEF RunningOK
  <2>2. \A p \in Procs : ~Busy(p)'
    BY <1>11, <2>1, RecoverModes DEF Busy
  <2>. QED BY <1>11, <2>2, RecoverModes DEF RunningOK, NoRows
<1>. QED BY <1>1, <1>3, <1>4, <1>5, <1>6, <1>7, <1>8, <1>9, <1>10, <1>11, Movers

LEMMA EventsStep ==
    ASSUME IndInv, RunningOK, EventsOK, NEW owner, Known(owner), [Next]_vars
    PROVE  EventsOK'
<1>. DEFINE m == proc'[Listener]
<1>0. /\ Listener \in Procs
      /\ nextId \in Nat /\ (\A id \in PeerIds : id \in Nat)
      /\ \A c \in Change : events[c] \in Nat /\ c.id \in PeerIds
  BY StoreFacts DEF Procs
<1>1. Busy(Listener)' => events'[Handled'] > 0
  <2>1. CASE Grows /\ ListenerKeeps
    <3>1. SUFFICES ASSUME Busy(Listener)' PROVE events'[Handled'] > 0
      OBVIOUS
    <3>2. Busy(Listener) /\ Handled' = Handled /\ Handled \in Change
      BY <2>1, <3>1, HandledChange DEF ListenerKeeps
    <3>. QED BY <1>0, <2>1, <3>2 DEF Grows, EventsOK
  <2>2. ASSUME NEW c \in Change, TakeChange(c)
        PROVE  events'[Handled'] > 0
    BY <2>2, TakeFacts
  <2>. QED BY <2>1, <2>2, StepStore, AckFacts
<1>2. ASSUME NEW c \in Change, events'[c] > 0, c.op = "delete"
      PROVE  ~Exists(c.id)'
  <2>1. CASE Grows
    <3>1. CASE events'[c] # events[c]
      BY <1>2, <2>1, <3>1 DEF Grows, Exists
    <3>2. CASE events'[c] = events[c]
      <4>1. ~Exists(c.id) /\ c.id < nextId /\ c.id \in PeerIds
        BY <1>0, <1>2, <3>2 DEF EventsOK, Known
      <4>2. c.id # nextId
        BY <1>0, <4>1
      <4>. QED BY <2>1, <4>1, <4>2 DEF Grows, Exists
    <3>. QED BY <3>1, <3>2
  <2>2. ASSUME NEW d \in Change, TakeChange(d)
        PROVE  ~Exists(c.id)'
    BY <1>2, <2>2, TakeFacts DEF EventsOK, Exists
  <2>3. ASSUME NEW ok \in BOOLEAN, Ack(ok)
        PROVE  ~Exists(c.id)'
    <3>1. events[c] > 0 /\ rows' = rows
      BY <1>0, <1>2, <2>3, AckFacts
    <3>. QED BY <1>2, <3>1 DEF EventsOK, Exists
  <2>. QED BY <2>1, <2>2, <2>3, StepStore
<1>3. Busy(Listener)' /\ m.op = "delete" => m.stage \in {"change", "withdraw"}
  <2>0. SUFFICES ASSUME Busy(Listener)', m.op = "delete"
                 PROVE  m.stage \in {"change", "withdraw"}
    OBVIOUS
  <2>1. ASSUME proc'[Listener] = proc[Listener]
        PROVE  m.stage \in {"change", "withdraw"}
    BY <2>0, <2>1 DEF EventsOK, Busy
  <2>2. ASSUME NEW p \in Procs, p # Listener, Advances(p)
        PROVE  m.stage \in {"change", "withdraw"}
    <3>1. proc'[Listener] = proc[Listener]
      BY <1>0, <2>2 DEF Advances
    <3>. QED BY <2>1, <3>1
  <2>3. ASSUME NEW t, Turns(Listener, t)
        PROVE  m.stage \in {"change", "withdraw"}
    <3>1. t.phase # "idle" /\ m.op = proc[Listener].op /\ Busy(Listener) /\ m.stage = t.stage
      BY <2>0, <2>3 DEF Turns, Onto, Busy
    <3>2. proc[Listener].stage \in {"change", "withdraw"}
      BY <2>0, <3>1 DEF EventsOK
    <3>3. Listener \notin Requests
      BY ManagerAssumption
    <3>4. t.stage \in {"change", proc[Listener].stage}
      BY <2>3, <3>1, <3>3 DEF Turns, Fails
    <3>. QED BY <3>1, <3>2, <3>4
  <2>4. CASE ReadChange
    <3>1. proc[Listener].op = "delete" /\ Busy(Listener) /\ proc[Listener].id \in PeerIds
      BY <2>0, <2>4, ReadFacts
    <3>2. rows[proc[Listener].id] = NoRow
      BY <3>1, HandledChange DEF EventsOK, Exists
    <3>. QED BY <2>4, <3>2, ReadFacts DEF ChangeStage
  <2>5. ASSUME NEW p \in Procs, NEW t, Turns(p, t)
        PROVE  m.stage \in {"change", "withdraw"}
    BY <2>2, <2>3, <2>5 DEF Turns
  <2>6. ASSUME NEW r \in Requests, NEW ok \in BOOLEAN, ReservePeer(r, ok)
        PROVE  proc'[Listener] = proc[Listener]
    BY <1>0, <2>6, ReserveFacts
  <2>7. ASSUME NEW reboot \in BOOLEAN, Crash(reboot)
        PROVE  FALSE
    BY <1>0, <2>0, <2>7, CrashFacts
  <2>. QED BY <1>0, <2>0, <2>1, <2>2, <2>4, <2>5, <2>6, <2>7, Movers, StartFacts, RequestReads,
              TakeFacts, AckFacts, RecoverModes
<1>. QED BY <1>1, <1>2, <1>3 DEF EventsOK

(***************************************************************************)
(* The events behind a process stay there while it works.                  *)
(***************************************************************************)
LEMMA MoreKept ==
    ASSUME IndInv, RunningOK, EventsOK, NEW owner, Known(owner), [Next]_vars,
           NEW q \in Procs, Busy(q), Locked(proc[q].phase) \/ q = Listener,
           NEW id, proc[q].id = id
    PROVE  (More(id) => More(id)') /\ (MoreDelete(id) => MoreDelete(id)')
<1>1. ASSUME NEW c \in Change, c.id = id, Left(c)
      PROVE  Left(c)'
  <2>1. ~TakeChange(c)
    BY <1>1, LockedOut, TakeFacts
  <2>. QED BY <1>1, <2>1, LeftStep
<1>. QED BY <1>1 DEF More, MoreDelete

LEMMA RowGone ==
    ASSUME IndInv, RunningOK, EventsOK, NEW owner, Known(owner), [Next]_vars,
           NEW id \in PeerIds, rows'[id] # rows[id]
    PROVE  More(id)' /\ (~Exists(id)' => MoreDelete(id)')
<1>1. Grows /\ ListenerKeeps
  BY StepStore, TakeFacts, AckFacts
<1>. QED BY <1>1, RowChanged DEF Exists

\* Whoever works on a row that is there now will find an event if it goes away.
LEMMA GoneBehind ==
    ASSUME IndInv, RunningOK, EventsOK, WorkOK, NEW owner, Known(owner), [Next]_vars,
           NEW q \in Procs, Busy(q), proc[q].stage \notin {"change", "withdraw"},
           NEW id \in PeerIds, proc[q].id = id, ~Exists(id)'
    PROVE  MoreDelete(id)'
<1>1. id # 0
  BY StoreFacts
<1>2. proc[q].phase # "ack"
  BY PlaceFacts, StagesOfPhase
<1>3. Locked(proc[q].phase)
  BY <1>2 DEF Locked, Busy
<1>4. CASE Exists(id)
  BY <1>4, RowGone DEF Exists
<1>5. CASE ~Exists(id)
  <2>1. MoreDelete(id)
    BY <1>1, <1>5 DEF WorkOK
  <2>. QED BY <1>3, <2>1, MoreKept
<1>. QED BY <1>4, <1>5

LEMMA WriteBehind ==
    ASSUME IndInv, RunningOK, EventsOK, NEW owner, Known(owner), [Next]_vars,
           NEW r \in Requests, NEW ok \in BOOLEAN, Writes(r, ok), Working(proc'[r]),
           ~Working(proc[r])
    PROVE  More(proc[r].id)'
<1>. DEFINE t == Branch(r, RowWritten(r, ok))
            id == proc[r].id
<1>0. r \in Procs /\ r # Listener
  BY ManagerAssumption DEF Procs
<1>1. Onto(r, t) /\ Busy(r) /\ (~RowWritten(r, ok) => Fails(r, t))
  BY <1>0, WriteLeads
<1>2. t.phase # "idle" /\ proc'[r].id = id
  BY <1>1 DEF Onto, Working
<1>3. RowWritten(r, ok)
  BY <1>1, <1>2 DEF Fails
<1>4. proc[r].stage \in {"update", "delete"}
  BY <1>0, WriteLeads DEF Writes, Working
<1>5. Exists(id)
  BY <1>3, <1>4 DEF RowWritten
<1>6. id \in PeerIds
  BY <1>0, <1>1, <1>4, IdAtWork DEF Writes
<1>7. \E row : Written(id, row)
  BY <1>5 DEF Writes
<1>8. \E c \in Change : c.id = id /\ events'[c] = events[c] + 1
  BY <1>6, <1>7, StoreFacts, GrowsWritten
<1>9. ListenerKeeps
  BY <1>0, <1>1, OntoKeeps
<1>10. \E c \in Change : c.id = id /\ Left(c)'
  BY <1>8, <1>9, LeftNew
<1>. QED BY <1>2, <1>10 DEF More

LEMMA WorkStep ==
    ASSUME IndInv, RunningOK, EventsOK, WorkOK, NEW owner, Known(owner), [Next]_vars
    PROVE  WorkOK'
<1>0. Listener \in Procs /\ Requests \subseteq Procs /\ Listener \notin Requests
  BY ManagerAssumption DEF Procs
<1>1. ASSUME NEW r \in Requests, Working(proc'[r])
      PROVE  More(proc[r].id)'
  <2>. DEFINE l == proc[r]
  <2>1. ASSUME Working(l), proc'[r].id = l.id
        PROVE  More(l.id)'
    <3>0. PICK id : id = l.id
      OBVIOUS
    <3>1. Busy(r) /\ Locked(l.phase) /\ More(id)
      BY <2>1, <3>0 DEF Working, Busy, Locked, WorkOK
    <3>2. More(id)'
      BY <1>0, <3>0, <3>1, MoreKept
    <3>. QED BY <2>1, <3>0, <3>2 DEF More
  <2>2. ASSUME proc'[r] = l
        PROVE  More(l.id)'
    BY <1>1, <2>1, <2>2
  <2>3. ASSUME NEW p \in Procs, p # r, Advances(p)
        PROVE  More(l.id)'
    BY <1>0, <2>2, <2>3 DEF Advances
  <2>4. ASSUME NEW p \in Procs, NEW t, Turns(p, t)
        PROVE  p = r => t.phase # "idle" /\ proc'[r].id = l.id
    BY <1>1, <2>4 DEF Turns, Onto, Working
  <2>5. ASSUME NEW p \in Procs, NEW t, Moves(p, t)
        PROVE  More(l.id)'
    <3>1. Turns(p, t) /\ (Fails(p, t) \/ Succeeds(p, t))
      BY <2>5, MoveTurns, MoveLeads
    <3>2. CASE p = r
      <4>1. proc'[r].id = l.id /\ t.phase # "idle"
        BY <2>4, <3>1, <3>2
      <4>2. l.stage # "reconcile"
        BY <1>0, PlaceFacts DEF Plays, RequestStages
      <4>3. Succeeds(p, t) => Working(l)
        BY <3>2, <4>2 DEF Succeeds, Sequel, Working
      <4>4. Working(l)
        BY <3>1, <3>2, <4>1, <4>3 DEF Fails
      <4>. QED BY <2>1, <4>1, <4>4
    <3>. QED BY <2>3, <3>1, <3>2 DEF Turns
  <2>6. ASSUME NEW p \in Procs, NEW ok \in BOOLEAN, Writes(p, ok)
        PROVE  More(l.id)'
    <3>1. Turns(p, Branch(p, RowWritten(p, ok)))
      BY <2>6, WriteTurns
    <3>2. CASE p = r
      <4>1. proc'[r].id = l.id
        BY <2>4, <3>1, <3>2
      <4>. QED BY <1>1, <2>1, <2>6, <3>2, <4>1, WriteBehind
    <3>. QED BY <2>3, <3>1, <3>2 DEF Turns
  <2>7. ASSUME NEW p \in Procs, NEW ok \in BOOLEAN, NEW device, Touches(p, ok, device)
        PROVE  More(l.id)'
    <3>1. Turns(p, Branch(p, ok))
      BY <2>7, TouchTurns
    <3>2. CASE p = r
      <4>1. proc'[r].id = l.id
        BY <2>4, <3>1, <3>2
      <4>2. l.stage # "reconcile"
        BY <1>0, PlaceFacts DEF Plays, RequestStages
      <4>3. Working(l)
        BY <2>7, <3>2, <4>2 DEF Touches, Working
      <4>. QED BY <2>1, <4>1, <4>3
    <3>. QED BY <2>3, <3>1, <3>2 DEF Turns
  <2>8. ASSUME NEW q \in Requests, NEW ok \in BOOLEAN, ReservePeer(q, ok)
        PROVE  More(l.id)'
    <3>0. PICK id : id = nextId
      OBVIOUS
    <3>1. CASE q = r
      <4>1. ListenerKeeps /\ proc'[r].id = nextId
        BY <1>1, <2>8, <3>1, ReserveFacts DEF Working
      <4>2. \E c \in Change : c.id = nextId /\ events'[c] = events[c] + 1
        BY <2>8, GrowsInserted
      <4>3. \E c \in Change : c.id = id /\ Left(c)'
        BY <3>0, <4>1, <4>2, LeftNew
      <4>. QED BY <3>0, <4>1, <4>3 DEF More
    <3>2. CASE q # r
      BY <1>0, <2>2, <2>8, <3>2, ReserveFacts
    <3>. QED BY <3>1, <3>2
  <2>9. ASSUME NEW p \in Procs, NEW m, Starts(p, m)
        PROVE  More(l.id)'
    <3>1. p = r => ~Working(m)
      BY <2>9, <1>0, ManagerAssumption DEF Starts, Working
    <3>. QED BY <1>1, <2>3, <2>9, <3>1, StartFacts
  <2>10. ASSUME NEW q \in Requests, NEW m, Reads(q, m)
         PROVE  More(l.id)'
    <3>1. ~Working(m)
      BY <2>10 DEF Reads, Working
    <3>. QED BY <1>1, <2>3, <2>10, <3>1, RequestReads
  <2>11. ASSUME \A q \in Procs \ {Listener} : proc'[q] = proc[q]
         PROVE  More(l.id)'
    BY <1>0, <2>2, <2>11
  <2>12. ASSUME NEW reboot \in BOOLEAN, Crash(reboot)
         PROVE  FALSE
    BY <1>0, <1>1, <2>12, CrashFacts DEF Working, Busy
  <2>13. Rests => proc' = proc
    BY DEF Rests
  <2>14. ASSUME NEW id \in PeerIds, NEW row, Intervenes(id, row)
         PROVE  proc' = proc
    BY <2>14 DEF Intervenes
  <2>15. RecoverStep => proc' = proc
    BY RecoverModes
  <2>16. \A c \in Change : TakeChange(c) => More(l.id)'
    BY <2>11, TakeFacts
  <2>17. ReadChange => More(l.id)'
    BY <2>11, ReadFacts
  <2>18. \A ok \in BOOLEAN : Ack(ok) => More(l.id)'
    BY <2>11, AckFacts
  <2>. QED BY <2>2, <2>5, <2>6, <2>7, <2>8, <2>9, <2>10, <2>12, <2>13, <2>14, <2>15, <2>16,
              <2>17, <2>18, Kinds
<1>2. ASSUME NEW p \in Procs, Busy(p)', proc'[p].id # 0,
             proc'[p].stage \notin {"change", "withdraw"}, ~Exists(proc[p].id)'
      PROVE  MoreDelete(proc[p].id)'
  <2>. DEFINE l == proc[p]
  <2>1. ASSUME Busy(p), l.stage \notin {"change", "withdraw"}, proc'[p].id = l.id
        PROVE  MoreDelete(l.id)'
    <3>0. PICK id : id = l.id
      OBVIOUS
    <3>1. id \in PeerIds /\ ~Exists(id)'
      BY <1>2, <2>1, <3>0, PlaceFacts DEF Exists
    <3>2. MoreDelete(id)'
      BY <2>1, <3>0, <3>1, GoneBehind
    <3>. QED BY <2>1, <3>0, <3>2 DEF MoreDelete
  <2>2. ASSUME proc'[p] = l
        PROVE  MoreDelete(l.id)'
    BY <1>2, <2>1, <2>2 DEF Busy
  <2>3. ASSUME NEW q \in Procs, p # q, Advances(q)
        PROVE  MoreDelete(l.id)'
    BY <2>2, <2>3 DEF Advances
  <2>4. ASSUME NEW t, Turns(p, t)
        PROVE  MoreDelete(l.id)'
    <3>1. Busy(p) /\ t.phase # "idle" /\ proc'[p].id = l.id /\ proc'[p].stage = t.stage
      BY <1>2, <2>4 DEF Turns, Onto, Busy
    <3>2. p \in Requests => l.stage \notin {"change", "withdraw"}
      BY PlaceFacts DEF Plays, RequestStages
    <3>3. l.stage \notin {"change", "withdraw"}
      BY <1>2, <2>4, <3>1, <3>2 DEF Turns, Fails
    <3>. QED BY <2>1, <3>1, <3>3
  <2>5. ASSUME NEW q \in Procs, NEW t, Turns(q, t)
        PROVE  MoreDelete(l.id)'
    BY <2>3, <2>4, <2>5 DEF Turns
  <2>6. ASSUME NEW q \in Procs, NEW m, Starts(q, m)
        PROVE  MoreDelete(l.id)'
    BY <1>2, <2>3, <2>6, StartFacts DEF Starts
  <2>7. ASSUME NEW r \in Requests, NEW ok \in BOOLEAN, ReservePeer(r, ok)
        PROVE  MoreDelete(l.id)'
    <3>1. CASE r = p
      <4>1. ok
        BY <1>2, <2>7, <3>1, ReserveFacts DEF Busy
      <4>2. proc'[p].id = nextId
        BY <2>7, <3>1, <4>1, ReserveFacts
      <4>3. rows'[nextId] # NoRow
        BY <2>7, GrowsInserted
      <4>. QED BY <1>2, <4>2, <4>3 DEF Exists
    <3>2. CASE r # p
      <4>1. proc'[p] = l
        BY <2>7, <3>2, ReserveFacts
      <4>. QED BY <2>2, <4>1
    <3>. QED BY <3>1, <3>2
  <2>8. ASSUME NEW r \in Requests, NEW m, Reads(r, m)
        PROVE  MoreDelete(l.id)'
    <3>1. CASE r = p
      <4>1. proc'[p] = m /\ rows' = rows /\ rows[m.id] # NoRow
        BY <2>8, <3>1, RequestReads DEF Reads, Exists
      <4>. QED BY <1>2, <4>1 DEF Exists
    <3>2. CASE r # p
      BY <2>3, <2>8, <3>2, RequestReads
    <3>. QED BY <3>1, <3>2
  <2>9. CASE ReadChange
    <3>1. CASE p = Listener
      <4>1. rows[l.id] = NoRow
        BY <1>2, <2>9, <3>1, ReadFacts DEF Exists
      <4>. QED BY <1>2, <2>9, <3>1, <4>1, ReadFacts DEF ChangeStage
    <3>2. CASE p # Listener
      BY <2>2, <2>9, <3>2, ReadFacts
    <3>. QED BY <3>1, <3>2
  <2>10. ASSUME NEW c \in Change, TakeChange(c)
         PROVE  MoreDelete(l.id)'
    BY <1>2, <2>2, <2>10, TakeFacts
  <2>11. ASSUME NEW ok \in BOOLEAN, Ack(ok)
         PROVE  MoreDelete(l.id)'
    BY <1>2, <2>2, <2>11, AckFacts
  <2>12. ASSUME NEW reboot \in BOOLEAN, Crash(reboot)
         PROVE  FALSE
    BY <1>2, <2>12, CrashFacts
  <2>. QED BY <2>2, <2>5, <2>6, <2>7, <2>8, <2>9, <2>10, <2>11, <2>12, Movers, RecoverModes
<1>3. \A r \in Requests : Working(proc'[r]) => More(proc[r].id)'
  BY <1>1
<1>4. \A p \in Procs :
         /\ Busy(p)' /\ proc'[p].id # 0 /\ proc'[p].stage \notin {"change", "withdraw"}
         /\ ~Exists(proc[p].id)'
         => MoreDelete(proc[p].id)'
  BY <1>2
<1>. QED BY <1>3, <1>4 DEF WorkOK

(***************************************************************************)
(* Nobody undoes what a process has done to the interface of its peer.     *)
(***************************************************************************)
LEMMA TouchElsewhere ==
    ASSUME IndInv, RunningOK, NEW owner, Known(owner), NEW p \in Procs, NEW ok \in BOOLEAN,
           NEW device, Touches(p, ok, device)
    PROVE  /\ proc[p].id \in PeerIds /\ proc[p].id # 0 /\ Locked(proc[p].phase)
           /\ wg'[proc[p].id] = device
           /\ \A id \in PeerIds : id # proc[p].id => wg'[id] = wg[id]
           /\ \A q \in Procs : q # p /\ Locked(proc[q].phase) => proc[q].id # proc[p].id
<1>1. Busy(p) /\ proc[p].stage # "reconcile" /\ Locked(proc[p].phase)
  BY TouchLeads DEF Touches, ApplyStages, RemoveStages, Locked
<1>2. proc[p].id \in PeerIds
  BY <1>1, IdAtWork DEF Touches
<1>3. proc[p].id # 0
  BY <1>2, StoreFacts
<1>4. /\ wg' = [wg EXCEPT ![proc[p].id] = device]
      /\ wg \in [PeerIds -> Device \cup {NoIface, Unaliased}]
  BY DEF Touches, IndInv, StateOK
<1>. QED BY <1>1, <1>2, <1>3, <1>4, Alone

LEMMA EffectStep ==
    ASSUME IndInv, RunningOK, EventsOK, EffectOK, NEW owner, Known(owner), [Next]_vars
    PROVE  EffectOK'
<1>. DEFINE Ok(q) == (Applied(proc[q]) /\ Removed(proc[q]))'
<1>. USE DEF BirdPhases, NftPhases
<1>0. Listener \in Procs /\ Requests \subseteq Procs
  BY DEF Procs
<1>1. ASSUME NEW q \in Procs, proc'[q] = proc[q], wg' = wg
      PROVE  Ok(q)
  BY <1>1 DEF EffectOK, Applied, Removed
<1>2. ASSUME NEW q \in Procs, ~Busy(q)'
      PROVE  Ok(q)
  BY <1>2 DEF Busy, Applied, Removed
<1>3. ASSUME NEW p \in Procs, Advances(p), wg' = wg, Ok(p)
      PROVE  EffectOK'
  BY <1>1, <1>3 DEF EffectOK, Advances
<1>4. ASSUME NEW p \in Procs, NEW t, Onto(p, t), Fails(p, t)
      PROVE  Ok(p)
  BY <1>4 DEF Onto, Fails, Applied, Removed
<1>5. ASSUME NEW p \in Procs, NEW t, Moves(p, t)
      PROVE  EffectOK'
  <2>1. Advances(p) /\ Onto(p, t) /\ wg' = wg /\ (Fails(p, t) \/ Succeeds(p, t))
    BY <1>5, MoveTurns, MoveLeads DEF Turns, Moves
  <2>2. ASSUME Succeeds(p, t)
        PROVE  Ok(p)
    <3>1. Applied(proc[p]) /\ Removed(proc[p])
      BY DEF EffectOK
    <3>2. CASE Sequel(proc[p].stage, proc[p].phase, t.phase) /\ t.stage = proc[p].stage
      <4>1. Applied(proc[p])'
        BY <2>1, <3>1, <3>2 DEF Onto, Sequel, Applied
      <4>2. Removed(proc[p])'
        BY <2>1, <3>1, <3>2 DEF Onto, Sequel, Removed
      <4>. QED BY <4>1, <4>2
    <3>3. CASE t.stage = "change" /\ t.phase = "ack"
      BY <2>1, <3>3 DEF Onto, Applied, Removed
    <3>. QED BY <2>2, <3>2, <3>3 DEF Succeeds
  <2>. QED BY <1>3, <1>4, <2>1, <2>2
<1>6. ASSUME NEW p \in Procs, NEW ok \in BOOLEAN, Writes(p, ok)
      PROVE  EffectOK'
  <2>. DEFINE done == RowWritten(p, ok)
              t == Branch(p, done)
              s == proc[p].stage
              f == proc[p].phase
  <2>1. Advances(p) /\ wg' = wg
    BY <1>6, WriteTurns DEF Turns, Writes
  <2>2. /\ Onto(p, t)
        /\ ~done => Fails(p, t)
        /\ f = "desire" => s \in {"update", "undo_update"}
        /\ f = "mark" => s \in {"undo_create", "delete"}
        /\ f = "drop_row" => s \in {"undo_create", "delete", "purge"}
        /\ f = "activate" => s \in {"create", "update", "undo_update", "unmark",
                                    "undo_delete", "promote"}
    BY <1>6, WriteLeads
  <2>3. ASSUME done
        PROVE  \/ t.phase = "idle"
               \/ t.phase = "ensure"
               \/ t.phase \in {"nft_list", "bird_list"} /\ t.stage = s
                  /\ s \in {"undo_create", "delete", "purge", "promote"}
    BY <1>6, <2>2, <2>3, WritePlaces DEF Writes
  <2>. HIDE DEF done, t
  <2>4. done => Ok(p)
    BY <2>2, <2>3 DEF Onto, Applied, Removed
  <2>. QED BY <1>3, <1>4, <2>1, <2>2, <2>4
<1>7. ASSUME NEW p \in Procs, NEW ok \in BOOLEAN, NEW device, Touches(p, ok, device)
      PROVE  EffectOK'
  <2>. DEFINE t == Branch(p, ok)
              s == proc[p].stage
              f == proc[p].phase
  <2>1. Advances(p) /\ Onto(p, t)
    BY <1>7, TouchTurns DEF Turns
  <2>2. /\ ~ok => Fails(p, t)
        /\ f \in {"ensure", "configure", "remove_if"}
        /\ f = "remove_if" => s \in RemoveStages
        /\ ok => /\ f = "ensure" => t = At(s, "configure")
                 /\ f = "configure" => t = At(s, "bird_list")
                 /\ f = "remove_if" => t = RemoveDone(s)
    BY <1>7, TouchLeads DEF Touches
  <2>3. /\ wg'[proc[p].id] = device
        /\ ok /\ f = "configure" => device = [cfg |-> proc[p].cfg, port |-> proc[p].port]
        /\ ok /\ f = "remove_if" => device = NoIface
    BY <1>7, TouchElsewhere DEF Touches
  <2>. HIDE DEF t
  <2>4. ok => Ok(p)
    <3>1. ok /\ f = "ensure" => Ok(p)
      BY <2>1, <2>2 DEF Onto, At, Applied, Removed
    <3>2. ok /\ f = "configure" => Ok(p)
      BY <2>1, <2>2, <2>3 DEF Onto, At, Applied, Removed
    <3>3. ok /\ f = "remove_if" => Ok(p)
      BY <2>1, <2>2, <2>3 DEF Onto, At, RemoveDone, RemoveStages, Applied, Removed
    <3>. QED BY <2>2, <3>1, <3>2, <3>3
  <2>5. Ok(p)
    BY <1>4, <2>1, <2>2, <2>4
  <2>6. ASSUME NEW q \in Procs, q # p
        PROVE  Ok(q)
    <3>1. proc'[q] = proc[q]
      BY <2>1, <2>6 DEF Advances
    <3>2. CASE Locked(proc[q].phase) /\ proc[q].id \in PeerIds
      <4>1. wg'[proc[q].id] = wg[proc[q].id]
        BY <1>7, <2>6, <3>2, TouchElsewhere
      <4>. QED BY <3>1, <4>1 DEF EffectOK, Applied, Removed
    <3>3. CASE ~Locked(proc[q].phase)
      BY <3>1, <3>3 DEF Locked, Applied, Removed
    <3>4. CASE Locked(proc[q].phase) /\ proc[q].id \notin PeerIds
      <4>1. proc[q].phase \in {"reserve", "read"} \/ proc[q].stage = "reconcile"
        BY <3>4, IdAtWork DEF Locked, Busy
      <4>2. proc[q].stage = "reconcile" => proc[q].phase \in NftPhases \cup {"idle"}
        BY PlaceFacts DEF PhasesOf
      <4>. QED BY <3>1, <4>1, <4>2 DEF Applied, Removed
    <3>. QED BY <3>2, <3>3, <3>4
  <2>. QED BY <2>5, <2>6 DEF EffectOK
<1>8. ASSUME NEW r \in Requests, NEW ok \in BOOLEAN, ReservePeer(r, ok)
      PROVE  EffectOK'
  <2>1. Advances(r) /\ wg' = wg
    BY <1>8, ReserveFacts DEF Advances
  <2>2. proc'[r].phase \in {"idle", "ensure"}
    BY <1>8, ReserveFacts
  <2>. QED BY <1>0, <1>3, <2>1, <2>2 DEF Applied, Removed
<1>9. ASSUME NEW r \in Requests, NEW l, Reads(r, l)
      PROVE  EffectOK'
  <2>1. Advances(r) /\ wg' = wg /\ proc'[r].phase \in {"desire", "mark"}
    BY <1>9, RequestReads DEF Reads
  <2>. QED BY <1>0, <1>3, <2>1 DEF Applied, Removed
<1>10. ASSUME NEW p \in Procs, NEW l, Starts(p, l)
       PROVE  EffectOK'
  <2>1. Advances(p) /\ wg' = wg /\ proc'[p] = l
    BY <1>10, StartFacts DEF Starts
  <2>2. Ok(p)
    BY <1>10, <2>1 DEF Starts, Applied, Removed
  <2>. QED BY <1>3, <2>1, <2>2
<1>11. ASSUME NEW c \in Change, TakeChange(c)
       PROVE  EffectOK'
  <2>1. Advances(Listener) /\ wg' = wg /\ proc'[Listener].phase = "read"
    BY <1>11, TakeFacts DEF Advances
  <2>. QED BY <1>0, <1>3, <2>1 DEF Applied, Removed
<1>12. CASE ReadChange
  <2>1. /\ Advances(Listener) /\ wg' = wg
        /\ proc'[Listener].phase \in {"ensure", "bird_list"}
        /\ proc'[Listener].phase = "bird_list" =>
             proc'[Listener].stage \notin {"create", "update", "reapply"}
    BY <1>12, ReadFacts DEF Advances, ChangeStage
  <2>. QED BY <1>0, <1>3, <2>1 DEF Applied, Removed
<1>13. ASSUME NEW ok \in BOOLEAN, Ack(ok)
       PROVE  EffectOK'
  <2>1. Advances(Listener) /\ wg' = wg /\ ~Busy(Listener)'
    BY <1>13, AckFacts DEF Advances
  <2>. QED BY <1>0, <1>2, <1>3, <2>1
<1>14. ASSUME NEW reboot \in BOOLEAN, Crash(reboot)
       PROVE  EffectOK'
  BY <1>2, <1>14, CrashFacts DEF EffectOK
<1>15. CASE RecoverStep
  <2>1. \A q \in Procs : ~Busy(q)'
    BY <1>15, RecoverModes DEF RunningOK, Busy
  <2>. QED BY <1>2, <2>1 DEF EffectOK
<1>16. Rests \/ (\E id \in PeerIds : \E row : Intervenes(id, row)) => EffectOK'
  BY <1>1 DEF Rests, Intervenes, EffectOK
<1>. QED BY <1>5, <1>6, <1>7, <1>8, <1>9, <1>10, <1>11, <1>12, <1>13, <1>14, <1>15, <1>16, Kinds

(***************************************************************************)
(* What the listener has found out about its peer.                         *)
(***************************************************************************)
LEMMA HandledIdle ==
    ASSUME IndInv', ~Busy(Listener)'
    PROVE  HandledOK'
<1>. DEFINE l == proc'[Listener]
<1>1. l.phase = "idle" /\ l.phase \in PhasesOf(l.stage)
  BY DEF IndInv, ProcOK, Shape, Busy, Procs
<1>2. l.stage \notin {"reapply", "promote", "purge", "withdraw"}
  BY <1>1 DEF PhasesOf, BirdPhases, NftPhases, ApplyPhases, RemovePhases
<1>. QED BY <1>1, <1>2 DEF HandledOK, NftPhases

\* Somebody else makes a step while the listener handles an event.
LEMMA HandledStays ==
    ASSUME IndInv, RunningOK, EventsOK, WorkOK, HandledOK, NEW owner, Known(owner), [Next]_vars,
           Busy(Listener), proc'[Listener] = proc[Listener], mode = "up",
           \/ wg' = wg
           \/ \E p \in Procs, ok \in BOOLEAN, device \in Device \cup {NoIface, Unaliased} :
                Touches(p, ok, device) /\ p # Listener
    PROVE  HandledOK'
<1>. DEFINE l == proc[Listener]
<1>0. PICK id : id = l.id
  OBVIOUS
<1>1. Listener \in Procs /\ id \in PeerIds /\ id # 0 /\ Handled \in Change
      /\ Handled.id = id /\ Handled.op = l.op
  BY <1>0, HandledChange, StoreFacts DEF Procs, Change
<1>2. (More(id) => More(id)') /\ (MoreDelete(id) => MoreDelete(id)')
  BY <1>0, <1>1, MoreKept
<1>3. rows'[id] = rows[id] \/ More(id)'
  BY <1>1, RowGone
<1>4. ASSUME wg'[id] # wg[id]
      PROVE  l.phase = "ack" /\ More(id) /\ (l.op = "delete" => MoreDelete(id))
  <2>1. PICK p \in Procs, ok \in BOOLEAN, device \in Device \cup {NoIface, Unaliased} :
               Touches(p, ok, device) /\ p # Listener
    BY <1>4
  <2>2. proc[p].id = id /\ ~Locked(l.phase)
    BY <1>0, <1>1, <1>4, <2>1, TouchElsewhere
  <2>3. l.phase = "ack"
    BY <2>2 DEF Locked, Busy
  <2>4. proc[p].stage \in ApplyStages \cup RemoveStages /\ Busy(p)
    BY <2>1, TouchLeads DEF Touches
  <2>5. p \in Requests /\ proc[p].stage \notin {"change", "withdraw"}
    BY <2>1, <2>4, PlaceFacts DEF Procs, Plays, ReconcilerStages, RequestStages, ApplyStages,
                                  RemoveStages
  <2>6. Working(proc[p])
    BY <2>1, <2>4 DEF Touches, Working, ApplyStages, RemoveStages
  <2>7. More(id)
    BY <2>2, <2>5, <2>6 DEF WorkOK
  <2>8. l.op = "delete" => ~Exists(id)
    BY <1>1 DEF EventsOK
  <2>9. l.op = "delete" => MoreDelete(id)
    BY <1>1, <2>2, <2>4, <2>5, <2>8 DEF WorkOK
  <2>. QED BY <2>3, <2>7, <2>9
<1>5. proc'[Listener].id = id
  BY <1>0
<1>6. l.stage = "reapply" => More(id)' \/ AsRead(l)'
  BY <1>0, <1>2, <1>3 DEF HandledOK, AsRead, Exists
<1>7. l.stage \in {"promote", "purge"} /\ l.phase \in NftPhases => More(id)'
  BY <1>0, <1>2 DEF HandledOK
<1>8. l.stage = "withdraw" =>
         More(id)' \/ ~Exists(id)' \/ rows'[id].status = "disabled"
  BY <1>0, <1>2, <1>3 DEF HandledOK, Exists
<1>9. l.phase = "ack" => More(id)' \/ Settled(id)'
  BY <1>0, <1>2, <1>3, <1>4 DEF HandledOK, Settled, Exists, DeviceFor, DeviceOf, Wanted
<1>10. l.phase = "ack" /\ l.op = "delete" => MoreDelete(id)' \/ wg'[id] = NoIface
  BY <1>0, <1>2, <1>4 DEF HandledOK
<1>. QED BY <1>0, <1>5, <1>6, <1>7, <1>8, <1>9, <1>10
         DEF HandledOK, More, MoreDelete, Settled, Exists

LEMMA HandledStep ==
    ASSUME IndInv, RunningOK, EventsOK, WorkOK, EffectOK, HandledOK, NEW owner, Known(owner),
           [Next]_vars
    PROVE  HandledOK'
<1>. DEFINE l == proc[Listener]
            m == proc'[Listener]
<1>. USE DEF NftPhases
<1>0. Listener \in Procs /\ Listener \notin Requests
  BY ManagerAssumption DEF Procs
<1>1. IndInv'
  BY StepOK
<1>2. ~Busy(Listener)' => HandledOK'
  BY <1>1, HandledIdle
<1>3. ASSUME proc'[Listener] = proc[Listener], mode = "up", wg' = wg
      PROVE  HandledOK'
  BY <1>2, <1>3, HandledStays DEF Busy
<1>4. ASSUME NEW p \in Procs, p # Listener, Advances(p), wg' = wg
      PROVE  HandledOK'
  BY <1>0, <1>3, <1>4 DEF Advances
<1>5. ASSUME Busy(Listener)
      PROVE  (More(l.id) => \A i : i = l.id => More(i)')
  BY <1>0, <1>5, MoreKept
<1>6. ASSUME NEW t, Turns(Listener, t), Fails(Listener, t)
      PROVE  HandledOK'
  BY <1>0, <1>2, <1>6 DEF Turns, Onto, Fails, Busy
<1>7. ASSUME NEW t, Moves(Listener, t)
      PROVE  HandledOK'
  <2>1. /\ Turns(Listener, t) /\ Onto(Listener, t) /\ Busy(Listener)
        /\ Fails(Listener, t) \/ Succeeds(Listener, t)
        /\ UNCHANGED <<rows, events, wg>>
    BY <1>0, <1>7, MoveTurns, MoveLeads DEF Moves, Turns
  <2>2. CASE Succeeds(Listener, t)
    <3>0. PICK id : id = l.id
      OBVIOUS
    <3>1. /\ t.phase # "idle" /\ m.id = id /\ m.op = l.op /\ m.port = l.port
          /\ m.stage = t.stage /\ m.phase = t.phase /\ m.cfg = l.cfg
      BY <2>1, <2>2, <3>0, HandledChange
         DEF Onto, Succeeds, Sequel, ChangeStages
    <3>2. More(id) => More(id)'
      BY <1>5, <2>1, <3>0
    <3>3. CASE Sequel(l.stage, l.phase, t.phase) /\ t.stage = l.stage
      <4>1. m.stage = "reapply" => More(id)' \/ AsRead(l)'
        BY <2>1, <3>0, <3>1, <3>2, <3>3 DEF HandledOK, AsRead, Exists
      <4>2. m.stage \in {"promote", "purge"} /\ m.phase \in NftPhases => More(id)'
        BY <3>0, <3>1, <3>2, <3>3 DEF HandledOK, Sequel
      <4>3. m.stage = "withdraw" =>
               More(id)' \/ ~Exists(id)' \/ rows'[id].status = "disabled"
        BY <2>1, <3>0, <3>1, <3>2, <3>3 DEF HandledOK, Exists
      <4>4. m.phase # "ack"
        BY <3>1, <3>3 DEF Sequel
      <4>. QED BY <3>1, <4>1, <4>2, <4>3, <4>4 DEF HandledOK, More, Exists
    <3>4. CASE ~(Sequel(l.stage, l.phase, t.phase) /\ t.stage = l.stage)
      <4>1. /\ l.phase = "nft_sync" /\ l.stage \in {"reapply", "promote", "purge", "withdraw"}
            /\ m.stage = "change" /\ m.phase = "ack"
        BY <2>2, <3>1, <3>4 DEF Succeeds
      <4>2. ASSUME l.stage = "reapply"
           PROVE  More(id) \/ Settled(id)
        <5>1. wg[id] = [cfg |-> l.cfg, port |-> l.port]
          BY <1>0, <3>0, <4>1, <4>2 DEF EffectOK, Applied
        <5>2. More(id) \/ AsRead(l)
          BY <3>0, <4>2 DEF HandledOK
        <5>3. AsRead(l) => Settled(id)
          BY <3>0, <5>1 DEF AsRead, Settled, DeviceFor, DeviceOf, Wanted, Exists
        <5>. QED BY <5>2, <5>3
      <4>3. ASSUME l.stage \in {"promote", "purge"}
           PROVE  More(id) \/ Settled(id)
        BY <3>0, <4>1, <4>3 DEF HandledOK
      <4>4. l.stage = "withdraw" => wg[id] = NoIface
        BY <1>0, <3>0, <4>1 DEF EffectOK, Removed
      <4>5. ASSUME l.stage = "withdraw"
           PROVE  More(id) \/ Settled(id)
        <5>1. More(id) \/ ~Exists(id) \/ rows[id].status = "disabled"
          BY <3>0, <4>5 DEF HandledOK
        <5>2. ~Exists(id) \/ rows[id].status = "disabled" => Settled(id)
          BY <4>4, <4>5 DEF Settled, DeviceFor, Wanted, Exists
        <5>. QED BY <5>1, <5>2
      <4>6. More(id) \/ Settled(id)
        BY <4>1, <4>2, <4>3, <4>5
      <4>7. Settled(id) => Settled(id)'
        BY <2>1 DEF Settled, DeviceFor, DeviceOf, Wanted, Exists
      <4>8. m.op = "delete" => wg'[id] = NoIface
        BY <2>1, <3>1, <4>1, <4>4 DEF EventsOK
      <4>9. More(id)' \/ Settled(id)'
        BY <3>2, <4>6, <4>7
      <4>. QED BY <3>1, <4>1, <4>8, <4>9 DEF HandledOK, More, Settled, Exists
    <3>. QED BY <3>3, <3>4
  <2>. QED BY <1>6, <2>1, <2>2
<1>8. ASSUME NEW ok \in BOOLEAN, Writes(Listener, ok)
      PROVE  HandledOK'
  <2>. DEFINE t == Branch(Listener, RowWritten(Listener, ok))
  <2>1. Turns(Listener, t) /\ Onto(Listener, t) /\ Busy(Listener)
    BY <1>0, <1>8, WriteTurns DEF Turns
  <2>2. CASE ~RowWritten(Listener, ok)
    <3>1. Fails(Listener, t)
      BY <1>0, <1>8, <2>2, WriteLeads
    <3>. QED BY <1>6, <2>1, <3>1
  <2>3. CASE RowWritten(Listener, ok)
    <3>0. PICK id : id = l.id
      OBVIOUS
    <3>1. l.stage \in ChangeStages /\ id \in PeerIds
      BY <2>1, <3>0, HandledChange DEF Change
    <3>2. \/ l.phase = "drop_row" /\ l.stage = "purge"
          \/ l.phase = "activate" /\ l.stage = "promote"
      BY <1>0, <1>8, <3>1, WriteLeads DEF Writes, ChangeStages
    <3>3. t.stage = l.stage /\ t.phase = "nft_list"
      BY <1>0, <1>8, <2>3, <3>2, WritePlaces
    <3>4. Exists(id)
      BY <2>3, <3>0, <3>2 DEF RowWritten
    <3>5. \E row : Written(id, row)
      BY <1>8, <3>0, <3>4 DEF Writes
    <3>6. \E c \in Change : c.id = id /\ events'[c] = events[c] + 1
      BY <3>1, <3>5, GrowsWritten, StoreFacts
    <3>7. ListenerKeeps
      BY <1>0, <2>1, OntoKeeps
    <3>8. \E c \in Change : c.id = id /\ Left(c)'
      BY <3>6, <3>7, LeftNew
    <3>. HIDE DEF t
    <3>9. m.id = id /\ m.stage \in {"promote", "purge"} /\ m.phase = "nft_list"
      BY <2>1, <3>0, <3>2, <3>3 DEF Onto
    <3>. QED BY <3>8, <3>9 DEF HandledOK, More
  <2>. QED BY <2>2, <2>3
<1>9. ASSUME NEW ok \in BOOLEAN, NEW device, Touches(Listener, ok, device)
      PROVE  HandledOK'
  <2>. DEFINE t == Branch(Listener, ok)
  <2>1. Turns(Listener, t) /\ Onto(Listener, t) /\ Busy(Listener) /\ UNCHANGED <<rows, events>>
    BY <1>0, <1>9, TouchTurns DEF Turns, Touches
  <2>2. CASE ~ok
    <3>1. Fails(Listener, t)
      BY <1>0, <1>9, <2>2, TouchLeads
    <3>. QED BY <1>6, <2>1, <3>1
  <2>3. CASE ok
    <3>0. PICK id : id = l.id
      OBVIOUS
    <3>1. /\ t.stage = l.stage
          /\ t.phase \in {"configure", "bird_list", "drop_row", "nft_list"}
          /\ t.phase = "nft_list" => l.stage = "withdraw"
      <4>1. \/ t = At(l.stage, "configure")
            \/ t = At(l.stage, "bird_list")
            \/ t = RemoveDone(l.stage)
        BY <1>0, <1>9, <2>3, TouchLeads DEF Touches
      <4>. HIDE DEF t
      <4>. QED BY <4>1 DEF At, RemoveDone
    <3>. HIDE DEF t
    <3>2. /\ m.id = id /\ m.port = l.port /\ m.stage = l.stage /\ m.phase = t.phase
          /\ m.cfg = l.cfg
      BY <2>1, <3>0, <3>1, HandledChange DEF Onto, ChangeStages
    <3>3. More(id) => More(id)'
      BY <1>5, <2>1, <3>0
    <3>4. m.stage = "reapply" => More(id)' \/ AsRead(l)'
      BY <2>1, <3>0, <3>2, <3>3 DEF HandledOK, AsRead, Exists
    <3>5. ~(m.stage \in {"promote", "purge"} /\ m.phase \in NftPhases) /\ m.phase # "ack"
      BY <3>1, <3>2
    <3>6. m.stage = "withdraw" =>
             More(id)' \/ ~Exists(id)' \/ rows'[id].status = "disabled"
      BY <2>1, <3>0, <3>2, <3>3 DEF HandledOK, Exists
    <3>. QED BY <3>2, <3>4, <3>5, <3>6 DEF HandledOK, More, Exists
  <2>. QED BY <2>2, <2>3
<1>10. CASE ReadChange
  <2>1. /\ m.id = l.id /\ m.stage = ChangeStage(rows[l.id]) /\ m.phase \in {"ensure", "bird_list"}
        /\ rows[l.id] # NoRow => m.port = rows[l.id].port /\ m.cfg = rows[l.id].cfg
        /\ rows' = rows
    BY <1>10, ReadFacts
  <2>2. m.stage = "reapply" => AsRead(l)'
    BY <2>1 DEF ChangeStage, AsRead, Exists
  <2>3. m.stage = "withdraw" => ~Exists(l.id)' \/ rows'[m.id].status = "disabled"
    BY <2>1 DEF ChangeStage, Exists
  <2>. QED BY <2>1, <2>2, <2>3 DEF HandledOK
<1>11. ASSUME NEW c \in Change, TakeChange(c)
       PROVE  HandledOK'
  BY <1>11, TakeFacts DEF HandledOK
<1>12. ASSUME NEW p \in Procs, NEW ok \in BOOLEAN,
              NEW device \in Device \cup {NoIface, Unaliased}, Touches(p, ok, device)
       PROVE  HandledOK'
  <2>1. CASE p # Listener
    <3>1. proc'[Listener] = proc[Listener] /\ mode = "up"
      BY <1>0, <1>12, <2>1, TouchTurns DEF Turns, Advances
    <3>2. CASE Busy(Listener)
      BY <1>12, <2>1, <3>1, <3>2, HandledStays
    <3>3. CASE ~Busy(Listener)
      BY <1>2, <3>1, <3>3 DEF Busy
    <3>. QED BY <3>2, <3>3
  <2>. QED BY <1>9, <1>12, <2>1
<1>13. ASSUME NEW p \in Procs, NEW t, Moves(p, t)
       PROVE  HandledOK'
  BY <1>4, <1>7, <1>13, MoveTurns DEF Turns, Moves
<1>14. ASSUME NEW p \in Procs, NEW ok \in BOOLEAN, Writes(p, ok)
       PROVE  HandledOK'
  BY <1>4, <1>8, <1>14, WriteTurns DEF Turns, Writes
<1>15. ASSUME UNCHANGED <<proc, wg, mode>>
       PROVE  HandledOK'
  <2>1. CASE mode = "up"
    BY <1>3, <1>15, <2>1
  <2>2. CASE mode # "up"
    <3>1. ~Busy(Listener)'
      BY <1>0, <1>15, <2>2 DEF RunningOK, Busy
    <3>. QED BY <1>2, <3>1
  <2>. QED BY <2>1, <2>2
<1>16. CASE RecoverStep
  <2>1. ~Busy(Listener)'
    BY <1>0, <1>16, RecoverModes DEF RunningOK, Busy
  <2>. QED BY <1>2, <2>1
<1>17. ASSUME NEW reboot \in BOOLEAN, Crash(reboot)
       PROVE  HandledOK'
  BY <1>0, <1>2, <1>17, CrashFacts
<1>18. \A r \in Requests, ok \in BOOLEAN : ReservePeer(r, ok) => HandledOK'
  BY <1>0, <1>3, ReserveFacts
<1>19. \A r \in Requests : \A lo : Reads(r, lo) => HandledOK'
  BY <1>4, RequestReads DEF Reads
<1>20. \A p \in Procs : \A lo : Starts(p, lo) => HandledOK'
  BY <1>4, StartFacts DEF Starts
<1>21. \A ok \in BOOLEAN : Ack(ok) => HandledOK'
  BY <1>2, AckFacts
<1>22. Rests \/ (\E id \in PeerIds : \E row : Intervenes(id, row)) => HandledOK'
  BY <1>15 DEF Rests, Intervenes
<1>. QED BY <1>10, <1>11, <1>12, <1>13, <1>14, <1>16, <1>17, <1>18, <1>19, <1>20, <1>21, <1>22,
            Kinds

(***************************************************************************)
(* Pending events.                                                         *)
(***************************************************************************)
LEMMA PendingGrows ==
    ASSUME IndInv, Grows \/ events' = events, NEW id
    PROVE  /\ Pending(id) => Pending(id)'
           /\ DeletePending(id) => DeletePending(id)'
<1>1. \A c \in Change : events[c] > 0 => events'[c] > 0
  <2>1. \A c \in Change : events[c] \in Nat
    BY StoreFacts
  <2>. QED BY <2>1 DEF Grows
<1>. QED BY <1>1 DEF Pending, DeletePending

LEMMA RowPending ==
    ASSUME IndInv, RunningOK, EventsOK, NEW owner, Known(owner), [Next]_vars,
           NEW id \in PeerIds, rows'[id] # rows[id]
    PROVE  Pending(id)' /\ (~Exists(id)' => DeletePending(id)')
<1>1. Grows
  BY StepStore, TakeFacts, AckFacts
<1>2. PICK c \in Change : /\ c.id = id /\ events'[c] = events[c] + 1
                          /\ rows'[id] = NoRow => c.op = "delete"
  BY <1>1 DEF Grows
<1>3. events'[c] > 0
  BY <1>2, StoreFacts
<1>. QED BY <1>2, <1>3 DEF Pending, DeletePending, Exists

\* The listener deletes the last event of a peer.
LEMMA AckPending ==
    ASSUME IndInv, EventsOK, HandledOK, NEW ok \in BOOLEAN, Ack(ok), NEW id \in PeerIds
    PROVE  /\ Pending(id) => Pending(id)' \/ (Settled(id) /\ Settled(id)')
           /\ DeletePending(id) => DeletePending(id)' \/ wg[id] = NoIface
           /\ id # proc[Listener].id => (Pending(id) => Pending(id)')
<1>1. /\ Handled \in Change /\ Handled.id = proc[Listener].id /\ Handled.op = proc[Listener].op
      /\ Busy(Listener) /\ proc[Listener].phase = "ack"
      /\ events'[Handled] = events[Handled] - 1
      /\ \A c \in Change \ {Handled} : events'[c] = events[c]
      /\ UNCHANGED <<rows, wg>>
  BY AckFacts, HandledChange
<1>2. \A c \in Change : events[c] \in Nat
  BY StoreFacts
<1>3. ASSUME NEW c \in Change, Left(c)
      PROVE  events'[c] > 0
  BY <1>1, <1>2, <1>3 DEF Left
<1>4. ASSUME NEW c \in Change, events[c] > 0, c # Handled
      PROVE  events'[c] > 0
  BY <1>1, <1>4
<1>5. More(id) => Pending(id)'
  BY <1>3 DEF More, Pending
<1>6. MoreDelete(id) => DeletePending(id)'
  BY <1>3 DEF MoreDelete, DeletePending
<1>7. Settled(id) => Settled(id)'
  BY <1>1 DEF Settled, DeviceFor, DeviceOf, Wanted, Exists
<1>8. id # Handled.id => (Pending(id) => Pending(id)') /\ (DeletePending(id) => DeletePending(id)')
  BY <1>4 DEF Pending, DeletePending
<1>9. id = Handled.id => More(id) \/ Settled(id)
  BY <1>1 DEF HandledOK
<1>10. id = Handled.id /\ Handled.op = "delete" => MoreDelete(id) \/ wg[id] = NoIface
  BY <1>1 DEF HandledOK
<1>11. Handled.op # "delete" => (DeletePending(id) => DeletePending(id)')
  BY <1>4 DEF DeletePending
<1>. QED BY <1>1, <1>5, <1>6, <1>7, <1>8, <1>9, <1>10, <1>11

\* Nobody touches an interface without an event behind him.
LEMMA TouchPending ==
    ASSUME IndInv, RunningOK, EventsOK, WorkOK, NEW owner, Known(owner),
           NEW p \in Procs, NEW ok \in BOOLEAN, NEW device, Touches(p, ok, device)
    PROVE  /\ Pending(proc[p].id)
           /\ p \in Requests => More(proc[p].id)
           /\ p \in Requests \/ p = Listener
<1>1. Busy(p) /\ proc[p].stage \in ApplyStages \cup RemoveStages
  BY TouchLeads DEF Touches
<1>2. p \in Requests \/ p = Listener
  BY <1>1, PlaceFacts DEF Procs, Plays, ReconcilerStages, ApplyStages, RemoveStages
<1>3. Working(proc[p])
  BY <1>1 DEF Touches, Working, ApplyStages, RemoveStages
<1>4. p \in Requests => More(proc[p].id)
  BY <1>3 DEF WorkOK
<1>5. p = Listener => Pending(proc[p].id)
  BY <1>1, HandledChange DEF EventsOK, Pending
<1>. QED BY <1>2, <1>4, <1>5, MorePending

(***************************************************************************)
(* Interfaces and the BIRD configuration, by who changes them.             *)
(***************************************************************************)
LEMMA WgKinds ==
    ASSUME IndInv, RunningOK, [Next]_vars
    PROVE  \/ wg' = wg
           \/ \E p \in Procs, ok \in BOOLEAN, device \in Device \cup {NoIface, Unaliased} :
                Touches(p, ok, device)
           \/ \E reboot \in BOOLEAN : Crash(reboot)
           \/ RecoverStep
<1>1. ASSUME NEW p \in Procs, NEW l, Starts(p, l)
      PROVE  wg' = wg
  BY <1>1 DEF Starts
<1>2. ASSUME NEW p \in Procs, NEW t, Moves(p, t)
      PROVE  wg' = wg
  BY <1>2 DEF Moves
<1>3. ASSUME NEW p \in Procs, NEW ok \in BOOLEAN, Writes(p, ok)
      PROVE  wg' = wg
  BY <1>3 DEF Writes
<1>4. ASSUME NEW r \in Requests, NEW l, Reads(r, l)
      PROVE  wg' = wg
  BY <1>4 DEF Reads
<1>5. ASSUME NEW id \in PeerIds, NEW row, Intervenes(id, row)
      PROVE  wg' = wg
  BY <1>5 DEF Intervenes
<1>6. ASSUME NEW ok \in BOOLEAN, Ack(ok)
      PROVE  wg' = wg
  BY <1>6 DEF Ack
<1>7. Rests => wg' = wg
  BY DEF Rests
<1>. QED BY <1>1, <1>2, <1>3, <1>4, <1>5, <1>6, <1>7, Kinds, ReserveFacts, TakeFacts, ReadFacts

\* The configuration of BIRD stays, and late with it.
BirdRests == UNCHANGED <<bird, late>>

LEMMA BirdKinds ==
    ASSUME [Next]_vars
    PROVE  \/ BirdRests
           \/ \E p \in Procs, ok \in BOOLEAN : SyncBird(p, ok)
           \/ \E r \in Requests : CancelRename(r)
           \/ \E s \in strays : LateRename(s)
           \/ \E reboot \in BOOLEAN : Crash(reboot)
           \/ \E ok \in BOOLEAN : RecoverBird(ok)
<1>. USE DEF BirdRests
<1>1. ASSUME NEW r \in Requests, NEW k \in Keys, NEW c \in Cfgs \cup {NoCfg},
             NEW op \in {"create", "update", "delete"}, Begin(r, op, k, c)
      PROVE  BirdRests
  BY <1>1 DEF Begin
<1>2. ASSUME NEW r \in Requests, RequestStep(r) \/ Cancel(r)
      PROVE  BirdRests
  <2>1. CASE Cancel(r) \/ ReserveRefused(r) \/ ReadPeer(r)
    BY <2>1 DEF Cancel, ReserveRefused, ReadPeer
  <2>2. ASSUME NEW answer \in {"failed", "tested"}, ReserveNothing(r, answer)
        PROVE  BirdRests
    BY <2>2 DEF ReserveNothing
  <2>3. ASSUME NEW ok \in BOOLEAN, ReservePeer(r, ok) \/ StoreDesired(r, ok) \/ MarkDeleting(r, ok)
        PROVE  BirdRests
    BY <2>3 DEF ReservePeer, StoreDesired, MarkDeleting
  <2>. QED BY <1>2, <2>1, <2>2, <2>3 DEF RequestStep
<1>3. ASSUME NEW p \in Procs, SharedStep(p) \/ Fail(p)
      PROVE  BirdRests \/ \E ok \in BOOLEAN : SyncBird(p, ok)
  BY <1>3 DEF SharedStep, Fail, ConfigureRefused, ListPeers, Activate, DropRow, EnsureInterface,
              Configure, RemoveInterface, SyncNft
<1>4. CASE ListenerStep
  BY <1>4 DEF ListenerStep, TakeChange, ReadChange, Ack
<1>5. ASSUME NEW p \in Reconcilers, Tick(p)
      PROVE  BirdRests
  BY <1>5 DEF Tick
<1>6. ASSUME NEW id \in PeerIds, AdminWrite(id)
      PROVE  BirdRests
  BY <1>6 DEF AdminWrite
<1>7. CASE FirewallReload
  BY <1>7 DEF FirewallReload
<1>8. CASE RecoverStep
  <2>1. CASE Restart \/ RecoverList \/ RecoverFail
    BY <2>1 DEF Restart, RecoverList, RecoverFail
  <2>2. ASSUME NEW ok \in BOOLEAN,
               RecoverWireguard(ok) \/ RecoverNft(ok) \/ RecoverRemove(ok) \/ RecoverManaged(ok)
               \/ RecoverChanges(ok) \/ RecoverDrop(ok) \/ RecoverActivate(ok)
        PROVE  BirdRests
    BY <2>2 DEF RecoverWireguard, RecoverNft, RecoverRemove, RecoverManaged, RecoverChanges,
                RecoverSweep, RecoverDrop, RecoverActivate
  <2>. QED BY <1>8, <2>1, <2>2 DEF RecoverStep
<1>9. Quiescent \/ UNCHANGED vars => BirdRests
  BY DEF Quiescent, vars, managerVars
<1>. QED BY <1>1, <1>2, <1>3, <1>4, <1>5, <1>6, <1>7, <1>8, <1>9 DEF Next

LEMMA RecoverWg ==
    ASSUME IndInv, RecoverStep
    PROVE  /\ wg' = wg \/ mode \notin {"up", "down", "list"}
           /\ \A id \in PeerIds :
                wg'[id] = wg[id] \/ wg'[id] = NoIface \/ (mode = "wireguard" /\ id \in Desired)
<1>1. CASE Restart \/ RecoverList \/ RecoverFail
  BY <1>1 DEF Restart, RecoverList, RecoverFail
<1>2. ASSUME NEW ok \in BOOLEAN, RecoverNft(ok) \/ RecoverBird(ok) \/ RecoverDrop(ok)
                                 \/ RecoverActivate(ok)
      PROVE  wg' = wg
  BY <1>2 DEF RecoverNft, RecoverBird, RecoverDrop, RecoverActivate
<1>3. ASSUME NEW ok \in BOOLEAN, RecoverRemove(ok) \/ RecoverManaged(ok) \/ RecoverChanges(ok)
      PROVE  /\ mode \notin {"up", "down", "list"}
             /\ \A id \in PeerIds : wg'[id] = wg[id] \/ wg'[id] = NoIface
  BY <1>3 DEF RecoverRemove, RecoverManaged, RecoverChanges, RecoverSweep, Recovering
<1>4. ASSUME NEW ok \in BOOLEAN, RecoverWireguard(ok)
      PROVE  /\ mode = "wireguard"
             /\ \A id \in PeerIds : wg'[id] = wg[id] \/ id \in Desired
  <2>1. mode = "wireguard"
    BY <1>4 DEF RecoverWireguard, Recovering
  <2>. DEFINE clear == {id \in Desired : ~PortClash(id, listed[id].port)}
              devices(half) ==
                IF half = 0 THEN {NoIface}
                ELSE {Ensured(wg[half], listed[half].cfg)}
                     \cup (IF wg[half] = NoIface THEN {Unaliased} ELSE {})
              repaired(done, half, device) ==
                [id \in PeerIds |-> CASE id = half   -> device
                                      [] id \in done  -> DeviceOf(listed[id])
                                      [] OTHER        -> wg[id]]
  <2>2. \E done \in IF ok THEN {Desired} ELSE SUBSET clear :
        \E half \in IF ok THEN {0} ELSE {0} \cup (Desired \ done) :
        \E device \in devices(half) : wg' = repaired(done, half, device)
    BY <1>4 DEF RecoverWireguard
  <2>4. PICK done \in SUBSET Desired, half \in {0} \cup Desired :
          \E device : wg' = repaired(done, half, device)
    <3>. HIDE DEF repaired, devices
    <3>. QED BY <2>2
  <2>5. PICK device : wg' = repaired(done, half, device)
    BY <2>4
  <2>3. ASSUME NEW id \in PeerIds, id \notin Desired
        PROVE  wg'[id] = wg[id]
    <3>1. id # half /\ id \notin done
      BY <2>3, StoreFacts
    <3>. QED BY <2>5, <3>1
  <2>. QED BY <2>1, <2>3
<1>. QED BY <1>1, <1>2, <1>3, <1>4 DEF RecoverStep

(***************************************************************************)
(* What recovery relies on.                                                *)
(***************************************************************************)
LEMMA StrayStep ==
    ASSUME IndInv, RunningOK, EventsOK, WorkOK, HandledOK, StrayOK, ListedOK,
           NEW owner, Known(owner), [Next]_vars
    PROVE  StrayOK'
<1>0. NoIface # Unaliased
  BY ManagerAssumption
<1>1. SUFFICES ASSUME NEW id \in PeerIds, ~Exists(id)', wg'[id] = Unaliased
               PROVE  DeletePending(id)'
  BY DEF StrayOK
<1>2. DeletePending(id) => DeletePending(id)'
  <2>1. ASSUME NEW ok \in BOOLEAN, Ack(ok)
        PROVE  DeletePending(id) => DeletePending(id)'
    <3>1. wg' = wg
      BY <2>1, AckFacts
    <3>. QED BY <1>0, <1>1, <2>1, <3>1, AckPending
  <2>. QED BY <2>1, StepStore, PendingGrows, TakeFacts
<1>3. CASE Exists(id)
  BY <1>1, <1>3, RowPending DEF Exists
<1>4. CASE ~Exists(id) /\ wg[id] = Unaliased
  BY <1>2, <1>4 DEF StrayOK
<1>5. CASE ~Exists(id) /\ wg[id] # Unaliased
  <2>1. ASSUME NEW p \in Procs, NEW ok \in BOOLEAN, NEW device, Touches(p, ok, device)
        PROVE  DeletePending(id)
    <3>1. proc[p].id = id /\ device = Unaliased /\ id # 0
      BY <1>1, <1>5, <2>1, TouchElsewhere
    <3>2. proc[p].phase \in {"ensure", "configure"}
      BY <1>0, <2>1, <3>1 DEF Touches
    <3>3. Busy(p) /\ proc[p].stage \in ApplyStages
      BY <2>1, <3>2, TouchLeads
    <3>4. MoreDelete(id)
      BY <1>5, <3>1, <3>3 DEF WorkOK, ApplyStages
    <3>. QED BY <3>4, MorePending
  <2>2. ASSUME RecoverStep
        PROVE  DeletePending(id)
    <3>1. mode = "wireguard" /\ id \in Desired
      BY <1>0, <1>1, <1>5, <2>2, RecoverWg
    <3>. QED BY <1>5, <3>1 DEF ListedOK, Desired, Wanted
  <2>3. ASSUME NEW reboot \in BOOLEAN, Crash(reboot)
        PROVE  FALSE
    BY <1>0, <1>1, <1>5, <2>3, CrashFacts
  <2>. QED BY <1>1, <1>2, <1>5, <2>1, <2>2, <2>3, WgKinds
<1>. QED BY <1>3, <1>4, <1>5

LEMMA ModeKinds ==
    ASSUME IndInv, RunningOK, [Next]_vars, mode' \notin {"up", "down", "list"}
    PROVE  \/ RecoverStep
           \/ /\ mode' = mode /\ UNCHANGED <<listed, wg, nextId>>
              /\ Rests \/ \E id \in PeerIds : \E row : Intervenes(id, row)
<1>0. ASSUME NEW p \in Procs, Advances(p)
      PROVE  FALSE
  BY <1>0 DEF Advances
<1>1. ASSUME NEW p \in Procs, NEW l, Starts(p, l)
      PROVE  FALSE
  BY <1>0, <1>1, StartFacts
<1>2. ASSUME NEW p \in Procs, NEW t, Moves(p, t)
      PROVE  FALSE
  BY <1>0, <1>2, MoveTurns DEF Turns
<1>3. ASSUME NEW p \in Procs, NEW ok \in BOOLEAN, Writes(p, ok)
      PROVE  FALSE
  BY <1>0, <1>3, WriteTurns DEF Turns
<1>4. ASSUME NEW p \in Procs, NEW ok \in BOOLEAN, NEW device, Touches(p, ok, device)
      PROVE  FALSE
  BY <1>0, <1>4, TouchTurns DEF Turns
<1>5. ASSUME NEW r \in Requests, NEW ok \in BOOLEAN, ReservePeer(r, ok)
      PROVE  FALSE
  BY <1>5 DEF ReservePeer, Call
<1>6. ASSUME NEW r \in Requests, NEW l, Reads(r, l)
      PROVE  FALSE
  BY <1>6 DEF Reads
<1>7. ASSUME NEW c \in Change, TakeChange(c)
      PROVE  FALSE
  BY <1>7 DEF TakeChange
<1>8. ReadChange => FALSE
  BY DEF ReadChange, Call
<1>9. ASSUME NEW ok \in BOOLEAN, Ack(ok)
      PROVE  FALSE
  BY <1>9 DEF Ack, Call
<1>10. ASSUME NEW reboot \in BOOLEAN, Crash(reboot)
       PROVE  FALSE
  BY <1>10 DEF Crash
<1>11. Rests => mode' = mode /\ UNCHANGED <<listed, wg, nextId>>
  BY DEF Rests
<1>12. ASSUME NEW id \in PeerIds, NEW row, Intervenes(id, row)
       PROVE  mode' = mode /\ UNCHANGED <<listed, wg, nextId>>
  BY <1>12 DEF Intervenes
<1>. QED BY <1>1, <1>2, <1>3, <1>4, <1>5, <1>6, <1>7, <1>8, <1>9, <1>10, <1>11, <1>12, Kinds

\* The rows that a step of recovery works on.
LEMMA RecoverListed ==
    ASSUME IndInv, RecoverStep, mode' \notin {"up", "down", "list"}
    PROVE  \/ mode' = "wireguard" /\ listed' = rows /\ rows' = rows
           \/ mode \notin {"up", "down", "list"} /\ listed' = listed
<1>1. CASE Restart \/ RecoverList \/ RecoverFail
  BY <1>1 DEF Restart, RecoverList, RecoverFail, Recovering, storeVars
<1>2. ASSUME NEW ok \in BOOLEAN,
             RecoverWireguard(ok) \/ RecoverNft(ok) \/ RecoverBird(ok)
             \/ RecoverRemove(ok) \/ RecoverManaged(ok) \/ RecoverChanges(ok)
             \/ RecoverDrop(ok) \/ RecoverActivate(ok)
      PROVE  mode \notin {"up", "down", "list"} /\ listed' = listed
  BY <1>2 DEF RecoverWireguard, RecoverNft, RecoverBird, RecoverRemove, RecoverManaged,
              RecoverChanges, RecoverSweep, RecoverDrop, RecoverActivate, Recovering
<1>. QED BY <1>1, <1>2 DEF RecoverStep

LEMMA ListedStep ==
    ASSUME IndInv, RunningOK, EventsOK, ListedOK, NEW owner, Known(owner), [Next]_vars
    PROVE  ListedOK'
<1>1. SUFFICES ASSUME mode' \notin {"up", "down", "list"}, NEW id \in PeerIds
               PROVE  /\ rows'[id] = listed'[id] \/ Pending(id)'
                      /\ Exists(id)' => listed'[id] # NoRow
                      /\ listed'[id] # NoRow /\ ~Exists(id)' => DeletePending(id)'
  BY DEF ListedOK
<1>2. CASE listed' = rows /\ rows' = rows
  BY <1>2 DEF Exists
<1>3. CASE mode \notin {"up", "down", "list"} /\ listed' = listed
  <2>1. Grows /\ nextId' = nextId
    BY <1>1, <1>3, ModeKinds, StepStore, RecoverStore, TakeFacts, AckFacts
  <2>2. Exists(id)' => Exists(id)
    BY <2>1, StoreFacts DEF Grows, Exists
  <2>3. /\ Pending(id) => Pending(id)'
        /\ DeletePending(id) => DeletePending(id)'
    BY <2>1, PendingGrows
  <2>4. rows'[id] # rows[id] => Pending(id)' /\ (~Exists(id)' => DeletePending(id)')
    BY RowPending
  <2>5. /\ rows[id] = listed[id] \/ Pending(id)
        /\ Exists(id) => listed[id] # NoRow
        /\ listed[id] # NoRow /\ ~Exists(id) => DeletePending(id)
    BY <1>3 DEF ListedOK
  <2>. QED BY <1>3, <2>2, <2>3, <2>4, <2>5 DEF Exists
<1>. QED BY <1>1, <1>2, <1>3, ModeKinds, RecoverListed

LEMMA SweepDone ==
    ASSUME NEW step, NEW next, next \notin {"up", "down"}, NEW ids, NEW ok \in BOOLEAN,
           RecoverSweep(step, next, ids, ok), mode' # "down"
    PROVE  /\ mode = step /\ mode' = next /\ UNCHANGED <<listed, rows, bird>>
           /\ \A id \in PeerIds : id \in ids => wg'[id] = NoIface
           /\ \A id \in PeerIds : id \notin ids => wg'[id] = wg[id]
<1>1. ok
  BY DEF RecoverSweep, Recovering
<1>2. wg' = [id \in PeerIds |-> IF id \in ids THEN NoIface ELSE wg[id]]
  BY <1>1 DEF RecoverSweep
<1>. QED BY <1>1, <1>2 DEF RecoverSweep, Recovering

LEMMA RepairStep ==
    ASSUME IndInv, RunningOK, StrayOK, ListedOK, RepairOK, NEW owner, Known(owner), [Next]_vars
    PROVE  RepairOK'
<1>. USE DEF Modes
<1>1. CASE mode' \in {"up", "down", "list", "wireguard"}
  BY <1>1 DEF RepairOK
<1>2. CASE mode' \notin {"up", "down", "list"} /\ ~RecoverStep
  <2>1. mode' = mode /\ UNCHANGED <<listed, wg, nextId>> /\ mode # "up"
    BY <1>2, ModeKinds
  <2>2. Grows
    <3>1. \A c \in Change : ~TakeChange(c)
      BY <2>1, TakeFacts
    <3>2. \A ok \in BOOLEAN : ~Ack(ok)
      BY <2>1 DEF Ack, Call
    <3>. QED BY <3>1, <3>2, StepStore
  <2>3. \A id \in PeerIds : Exists(id)' => Exists(id)
    BY <2>1, <2>2, StoreFacts DEF Grows, Exists
  <2>4. bird' = bird
    BY <1>2, <2>1, BirdKinds, CrashFacts
       DEF BirdRests, SyncBird, Call, CancelRename, LateRename, RecoverStep
  <2>. QED BY <2>1, <2>3, <2>4 DEF RepairOK, Desired, Unwanted, ToDelete
<1>3. ASSUME NEW ok \in BOOLEAN, RecoverWireguard(ok), mode' # "down"
      PROVE  RepairOK'
  <2>1. ok /\ mode' = "nft" /\ listed' = listed
    BY <1>3 DEF RecoverWireguard, Recovering
  <2>2. \A id \in Desired : wg'[id] = DeviceOf(listed[id])
    <3>1. PICK device : wg' = [id \in PeerIds |-> CASE id = 0        -> device
                                                    [] id \in Desired -> DeviceOf(listed[id])
                                                    [] OTHER          -> wg[id]]
      BY <1>3, <2>1 DEF RecoverWireguard
    <3>2. \A id \in Desired : id \in PeerIds /\ id # 0
      BY StoreFacts DEF Desired
    <3>. QED BY <3>1, <3>2
  <2>. QED BY <2>1, <2>2 DEF RepairOK, Desired
<1>4. ASSUME NEW ok \in BOOLEAN, RecoverNft(ok), mode' # "down"
      PROVE  RepairOK'
  BY <1>4 DEF RepairOK, RecoverNft, Recovering, Desired, Exists
<1>5. ASSUME NEW ok \in BOOLEAN, RecoverBird(ok), mode' # "down"
      PROVE  RepairOK'
  <2>1. mode = "bird" /\ mode' = "remove" /\ ok /\ UNCHANGED <<listed, rows, wg>>
    BY <1>5 DEF RecoverBird, Recovering
  <2>2. bird' = BirdOf(Listing(listed))
    BY <1>5, <2>1 DEF RecoverBird, Synced
  <2>. QED BY <2>1, <2>2 DEF RepairOK, Desired, Exists
<1>6. ASSUME NEW ok \in BOOLEAN, RecoverRemove(ok), mode' # "down"
      PROVE  RepairOK'
  <2>1. /\ mode = "remove" /\ mode' = "managed" /\ UNCHANGED <<listed, rows, bird>>
        /\ \A id \in PeerIds : id \in Unwanted => wg'[id] = NoIface
        /\ \A id \in PeerIds : id \notin Unwanted => wg'[id] = wg[id]
    BY <1>6, SweepDone DEF RecoverRemove
  <2>2. \A id \in Desired : id \in PeerIds /\ id \notin Unwanted
    BY DEF Desired, Unwanted
  <2>3. Desired' = Desired /\ Unwanted' = Unwanted /\ (\A id \in Unwanted : id \in PeerIds)
    BY <2>1 DEF Desired, Unwanted
  <2>. QED BY <2>1, <2>2, <2>3 DEF RepairOK, Exists
<1>7. ASSUME NEW ok \in BOOLEAN, RecoverManaged(ok), mode' # "down"
      PROVE  RepairOK'
  <2>. DEFINE ids == {id \in PeerIds \ Desired : wg[id] \in Device}
  <2>1. /\ mode = "managed" /\ mode' = "changes" /\ UNCHANGED <<listed, rows, bird>>
        /\ \A id \in PeerIds : id \in ids => wg'[id] = NoIface
        /\ \A id \in PeerIds : id \notin ids => wg'[id] = wg[id]
    BY <1>7, SweepDone DEF RecoverManaged
  <2>2. Desired' = Desired /\ Unwanted' = Unwanted /\ (\A id \in Unwanted : id \in PeerIds)
        /\ \A id \in Desired : id \in PeerIds
    BY <2>1 DEF Desired, Unwanted
  <2>3. \A id \in PeerIds : wg'[id] = wg[id] \/ wg'[id] = NoIface
    BY <2>1
  <2>4. NoIface \notin Device
    BY ManagerAssumption
  <2>5. \A id \in Desired : Exists(id)' => wg'[id] = DeviceOf(listed[id])
    BY <2>1, <2>2 DEF RepairOK, Exists
  <2>6. \A id \in Unwanted : wg'[id] = NoIface
    BY <2>1, <2>2, <2>3 DEF RepairOK
  <2>7. \A id \in PeerIds \ Desired : wg'[id] \notin Device
    BY <2>1, <2>4
  <2>8. bird = BirdOf(Listing(listed))
    BY <2>1 DEF RepairOK
  <2>. QED BY <2>1, <2>2, <2>5, <2>6, <2>7, <2>8 DEF RepairOK
<1>8. ASSUME NEW ok \in BOOLEAN, RecoverChanges(ok), mode' # "down"
      PROVE  RepairOK'
  <2>. DEFINE ids == {id \in PeerIds : ~Exists(id) /\ \E c \in Change :
                        c.id = id /\ c.op = "delete" /\ events[c] > 0}
  <2>1. /\ mode = "changes" /\ mode' = "drop" /\ UNCHANGED <<listed, rows, bird>>
        /\ \A id \in PeerIds : id \in ids => wg'[id] = NoIface
        /\ \A id \in PeerIds : id \notin ids => wg'[id] = wg[id]
    BY <1>8, SweepDone DEF RecoverChanges
  <2>2. Desired' = Desired /\ Unwanted' = Unwanted /\ (\A id \in Unwanted : id \in PeerIds)
        /\ \A id \in Desired : id \in PeerIds
    BY <2>1 DEF Desired, Unwanted
  <2>3. \A id \in PeerIds : wg'[id] = wg[id] \/ wg'[id] = NoIface
    BY <2>1
  <2>4. NoIface \notin Device
    BY ManagerAssumption
  <2>5. \A id \in Desired : Exists(id)' => wg'[id] = DeviceOf(listed[id])
    BY <2>1, <2>2 DEF RepairOK, Exists
  <2>6. \A id \in Unwanted : wg'[id] = NoIface
    BY <2>1, <2>2, <2>3 DEF RepairOK
  <2>7. \A id \in PeerIds \ Desired : wg'[id] \notin Device
    BY <2>1, <2>3, <2>4 DEF RepairOK
  <2>8. bird = BirdOf(Listing(listed))
    BY <2>1 DEF RepairOK
  <2>9. ASSUME NEW id \in PeerIds, listed[id] = NoRow
        PROVE  wg'[id] = NoIface
    <3>1. ~Exists(id) /\ id \notin Desired
      BY <2>1, <2>9 DEF ListedOK, Desired, Wanted
    <3>2. wg[id] \notin Device
      BY <2>1, <3>1 DEF RepairOK
    <3>3. wg[id] \in {NoIface, Unaliased}
      BY <3>2 DEF IndInv, StateOK
    <3>4. wg[id] = Unaliased => id \in ids
      BY <3>1 DEF StrayOK, DeletePending
    <3>. QED BY <2>1, <3>3, <3>4
  <2>. QED BY <2>1, <2>2, <2>5, <2>6, <2>7, <2>8, <2>9 DEF RepairOK
<1>9. ASSUME NEW ok \in BOOLEAN, RecoverDrop(ok), mode' # "down"
      PROVE  RepairOK'
  <2>1. mode = "drop" /\ mode' = "activate" /\ ok /\ UNCHANGED <<listed, wg, bird>>
        /\ delete_rows(ToDelete)
    BY <1>9 DEF RecoverDrop, Recovering
  <2>2. \A id \in PeerIds : rows'[id] = IF id \in ToDelete THEN NoRow ELSE rows[id]
    BY <2>1 DEF delete_rows
  <2>3. /\ Desired' = Desired /\ Unwanted' = Unwanted /\ ToDelete' = ToDelete
        /\ \A id \in Desired : id \in PeerIds
        /\ \A id \in ToDelete : id \in PeerIds
    BY <2>1 DEF Desired, Unwanted, ToDelete
  <2>. QED BY <2>1, <2>2, <2>3 DEF RepairOK, Exists
<1>10. ASSUME NEW ok \in BOOLEAN, RecoverActivate(ok)
       PROVE  mode' \in {"up", "down"}
  BY <1>10 DEF RecoverActivate, Recovering
<1>11. Restart \/ RecoverList \/ RecoverFail => mode' \in {"list", "wireguard", "down"}
  BY DEF Restart, RecoverList, RecoverFail, Recovering
<1>. QED BY <1>1, <1>2, <1>3, <1>4, <1>5, <1>6, <1>7, <1>8, <1>9, <1>10, <1>11 DEF RecoverStep

LEMMA Reopens ==
    ASSUME IndInv, RunningOK, [Next]_vars, mode # "up", mode' = "up"
    PROVE  RecoverStep
<1>1. ASSUME NEW p \in Procs, NEW l, Starts(p, l)
      PROVE  FALSE
  BY <1>1 DEF Starts
<1>2. ASSUME NEW p \in Procs, NEW t, Turns(p, t)
      PROVE  FALSE
  BY <1>2 DEF Turns, Advances
<1>3. ASSUME NEW r \in Requests, NEW ok \in BOOLEAN, ReservePeer(r, ok)
      PROVE  FALSE
  BY <1>3 DEF ReservePeer, Call
<1>4. ASSUME NEW r \in Requests, NEW l, Reads(r, l)
      PROVE  FALSE
  BY <1>4 DEF Reads
<1>5. ASSUME NEW c \in Change, TakeChange(c)
      PROVE  FALSE
  BY <1>5 DEF TakeChange
<1>6. ASSUME ReadChange \/ (\E ok \in BOOLEAN : Ack(ok)) \/ \E reboot \in BOOLEAN : Crash(reboot)
      PROVE  FALSE
  BY <1>6 DEF ReadChange, Ack, Call, Crash
<1>7. ~UNCHANGED <<proc, mode, listed>>
  OBVIOUS
<1>. QED BY <1>1, <1>2, <1>3, <1>4, <1>5, <1>6, <1>7, Movers

(***************************************************************************)
(* Recovery is through: every interface is that of the row it has listed,  *)
(* and where the table has moved on, or was written by recovery itself,    *)
(* there is an event.                                                      *)
(***************************************************************************)
LEMMA Recovered ==
    ASSUME IndInv, RunningOK, ListedOK, RepairOK, [Next]_vars, mode # "up", mode' = "up"
    PROVE  /\ mode = "activate" /\ UNCHANGED <<wg, bird>>
           /\ \A id \in PeerIds : wg[id] = DeviceFor(listed[id])
           /\ bird = BirdOf(Listing(listed))
           /\ \A id \in PeerIds : Pending(id)' \/ rows'[id] = listed[id]
           /\ \A id \in PeerIds : Pending(id)' \/ ~Wanted(listed[id])
           /\ \A id \in PeerIds : ~Pending(id)' => id \notin ToDelete
           /\ \A id \in PeerIds : Pending(id) => Pending(id)'
           /\ \A id \in PeerIds : id \in Desired => Exists(id)
<1>1. RecoverActivate(TRUE)
  <2>1. ASSUME NEW ok \in BOOLEAN,
               RecoverWireguard(ok) \/ RecoverNft(ok) \/ RecoverBird(ok)
               \/ RecoverRemove(ok) \/ RecoverManaged(ok) \/ RecoverChanges(ok)
               \/ RecoverDrop(ok) \/ RecoverActivate(FALSE)
        PROVE  mode' # "up"
    BY <2>1 DEF RecoverWireguard, RecoverNft, RecoverBird, RecoverRemove, RecoverManaged,
                RecoverChanges, RecoverSweep, RecoverDrop, RecoverActivate, Recovering
  <2>2. Restart \/ RecoverList \/ RecoverFail => mode' # "up"
    BY DEF Restart, RecoverList, RecoverFail, Recovering
  <2>. QED BY <2>1, <2>2, Reopens DEF RecoverStep
<1>2. /\ mode = "activate" /\ UNCHANGED <<wg, bird>> /\ activate_rows(Desired)
      /\ \A id \in Desired : id \in PeerIds /\ Exists(id)
  BY <1>1 DEF RecoverActivate, Recovering, Desired
<1>3. \A id \in PeerIds : wg[id] = DeviceFor(listed[id])
  <2>1. ASSUME NEW id \in PeerIds, Wanted(listed[id])
        PROVE  wg[id] = DeviceOf(listed[id])
    <3>1. id \in Desired
      BY <2>1 DEF Desired
    <3>. QED BY <1>2, <3>1 DEF RepairOK
  <2>2. ASSUME NEW id \in PeerIds, ~Wanted(listed[id])
        PROVE  wg[id] = NoIface
    <3>1. listed[id] # NoRow => id \in Unwanted
      BY <2>2 DEF Unwanted
    <3>. QED BY <1>2, <3>1 DEF RepairOK
  <2>. QED BY <2>1, <2>2 DEF DeviceFor
<1>4. bird = BirdOf(Listing(listed))
  BY <1>2 DEF RepairOK
<1>5. Grows /\ \A id \in Desired : Pending(id)'
  <2>1. Desired \in SUBSET PeerIds
    BY DEF Desired
  <2>2. Grows /\ \A id \in Desired : \E c \in Change : c.id = id /\ events'[c] = events[c] + 1
    BY <1>2, <2>1, GrowsAll, StoreFacts
  <2>. QED BY <2>2, StoreFacts DEF Pending
<1>6. \A id \in PeerIds : Pending(id) => Pending(id)'
  BY <1>5, PendingGrows
<1>7. ASSUME NEW id \in PeerIds, ~Pending(id)'
      PROVE  rows'[id] = listed[id] /\ ~Wanted(listed[id]) /\ id \notin ToDelete
  <2>1. id \notin Desired /\ ~Pending(id)
    BY <1>5, <1>6, <1>7
  <2>2. rows'[id] = rows[id] /\ rows[id] = listed[id]
    BY <1>2, <2>1 DEF activate_rows, ListedOK
  <2>3. ~Wanted(listed[id])
    BY <2>1 DEF Desired
  <2>4. id \notin ToDelete
    BY <1>2, <2>2 DEF RepairOK, ToDelete, Exists
  <2>. QED BY <2>2, <2>3, <2>4
<1>. QED BY <1>2, <1>3, <1>4, <1>6, <1>7

LEMMA KernelStep ==
    ASSUME IndInv, RunningOK, EventsOK, WorkOK, HandledOK, ListedOK, RepairOK, KernelCovered,
           NEW owner, Known(owner), [Next]_vars
    PROVE  KernelCovered'
<1>1. SUFFICES ASSUME mode' = "up", NEW id \in PeerIds
               PROVE  Settled(id)' \/ Pending(id)'
  BY DEF KernelCovered
<1>2. CASE mode # "up"
  <2>1. SUFFICES ASSUME ~Pending(id)'
                 PROVE  Settled(id)'
    OBVIOUS
  <2>2. wg'[id] = DeviceFor(rows'[id]) /\ rows'[id] = listed[id] /\ ~Wanted(rows'[id])
        /\ id \notin ToDelete
    BY <1>1, <1>2, <2>1, Recovered
  <2>3. rows'[id] # NoRow => rows'[id].status = "disabled"
    BY <2>2 DEF Wanted, ToDelete
  <2>. QED BY <2>2, <2>3 DEF Settled, DeviceFor, DeviceOf, Wanted, Exists
<1>3. CASE mode = "up"
  <2>0. Settled(id) \/ Pending(id)
    BY <1>3 DEF KernelCovered
  <2>1. rows'[id] # rows[id] => Pending(id)'
    BY RowPending
  <2>2. Pending(id) => Pending(id)' \/ Settled(id)'
    BY StepStore, PendingGrows, TakeFacts, AckPending
  <2>3. ASSUME wg'[id] # wg[id]
        PROVE  Pending(id)
    <3>1. ASSUME NEW reboot \in BOOLEAN, Crash(reboot)
          PROVE  FALSE
      BY <1>1, <3>1, CrashFacts
    <3>2. ~RecoverStep
      BY <1>3, RecoverModes
    <3>3. PICK p \in Procs, ok \in BOOLEAN, device \in Device \cup {NoIface, Unaliased} :
                 Touches(p, ok, device)
      BY <2>3, <3>1, <3>2, WgKinds
    <3>4. proc[p].id = id
      BY <2>3, <3>3, TouchElsewhere
    <3>. QED BY <3>3, <3>4, TouchPending
  <2>4. Settled(id) /\ rows'[id] = rows[id] /\ wg'[id] = wg[id] => Settled(id)'
    BY DEF Settled, DeviceFor, DeviceOf, Wanted, Exists
  <2>. QED BY <2>0, <2>1, <2>2, <2>3, <2>4
<1>. QED BY <1>2, <1>3

(***************************************************************************)
(* A peer that is gone stays gone.                                         *)
(***************************************************************************)
LEMMA NextIdGrows ==
    ASSUME IndInv, RunningOK, [Next]_vars, NEW id \in PeerIds, id < nextId
    PROVE  id < nextId'
<1>0. nextId \in Nat /\ id \in Nat
  BY StoreFacts
<1>1. nextId' \in {nextId, nextId + 1}
  <2>1. ASSUME NEW p \in Procs, NEW l, Starts(p, l)
        PROVE  nextId' = nextId
    BY <2>1 DEF Starts
  <2>2. ASSUME NEW p \in Procs, NEW t, Moves(p, t)
        PROVE  nextId' \in {nextId, nextId + 1}
    BY <2>2 DEF Moves
  <2>3. ASSUME NEW p \in Procs, NEW ok \in BOOLEAN, Writes(p, ok)
        PROVE  nextId' = nextId
    BY <2>3 DEF Writes
  <2>4. ASSUME NEW p \in Procs, NEW ok \in BOOLEAN, NEW device, Touches(p, ok, device)
        PROVE  nextId' = nextId
    BY <2>4 DEF Touches
  <2>5. ASSUME NEW r \in Requests, NEW ok \in BOOLEAN, ReservePeer(r, ok)
        PROVE  nextId' = nextId + 1
    BY <2>5 DEF ReservePeer, Insert
  <2>6. ASSUME NEW r \in Requests, NEW l, Reads(r, l)
        PROVE  nextId' = nextId
    BY <2>6 DEF Reads
  <2>7. ASSUME NEW e \in PeerIds, NEW row, Intervenes(e, row)
        PROVE  nextId' = nextId
    BY <2>7 DEF Intervenes
  <2>8. ASSUME NEW ok \in BOOLEAN, Ack(ok)
        PROVE  nextId' = nextId
    BY <2>8 DEF Ack
  <2>9. Rests => nextId' = nextId
    BY DEF Rests
  <2>. QED BY <2>1, <2>2, <2>3, <2>4, <2>5, <2>6, <2>7, <2>8, <2>9, Kinds, TakeFacts, ReadFacts,
              CrashFacts, RecoverStore
<1>. QED BY <1>0, <1>1

LEMMA ListedKinds ==
    ASSUME IndInv, RunningOK, [Next]_vars
    PROVE  listed' \in {listed, rows, NoRows}
<1>1. ASSUME NEW p \in Procs, Advances(p)
      PROVE  listed' = listed
  BY <1>1 DEF Advances
<1>2. ASSUME NEW p \in Procs, NEW l, Starts(p, l)
      PROVE  listed' = listed
  BY <1>2 DEF Starts
<1>3. ASSUME NEW p \in Procs, NEW t, Turns(p, t)
      PROVE  listed' = listed
  BY <1>1, <1>3 DEF Turns
<1>4. ASSUME NEW r \in Requests, NEW l, Reads(r, l)
      PROVE  listed' = listed
  BY <1>4 DEF Reads
<1>5. ASSUME NEW ok \in BOOLEAN, Ack(ok)
      PROVE  listed' = listed
  BY <1>5 DEF Ack, Call
<1>6. CASE RecoverStep
  <2>1. mode' \in {"up", "down", "list"} => listed' = NoRows
    BY <1>6, RecoverModes
  <2>. QED BY <1>6, <2>1, RecoverListed
<1>. QED BY <1>2, <1>3, <1>4, <1>5, <1>6, Movers, ReserveFacts, TakeFacts, ReadFacts, CrashFacts

LEMMA GoneWg ==
    ASSUME IndInv, RunningOK, NEW owner, Known(owner), [Next]_vars, NEW id, Gone(id)
    PROVE  wg'[id] = NoIface
<1>0. id \in PeerIds /\ wg[id] = NoIface /\ listed[id] = NoRow
  BY DEF Gone
<1>1. ASSUME NEW p \in Procs, NEW ok \in BOOLEAN, NEW device, Touches(p, ok, device)
      PROVE  wg'[id] = NoIface
  <2>1. CASE proc[p].id # id
    BY <1>0, <1>1, <2>1, TouchElsewhere
  <2>2. CASE proc[p].id = id
    <3>1. Busy(p)
      BY <1>1, TouchLeads
    <3>2. proc[p].stage \in {"change", "withdraw"}
      BY <2>2, <3>1 DEF Gone
    <3>3. proc[p].phase = "remove_if"
      BY <1>1, <3>2, TouchLeads DEF Touches, ApplyStages
    <3>4. device = NoIface
      BY <1>1, <3>3 DEF Touches
    <3>5. wg'[proc[p].id] = device
      BY <1>1, TouchElsewhere
    <3>. QED BY <2>2, <3>4, <3>5
  <2>. QED BY <2>1, <2>2
<1>2. CASE RecoverStep
  <2>1. id \notin Desired
    BY <1>0 DEF Desired, Wanted
  <2>. QED BY <1>0, <1>2, <2>1, RecoverWg
<1>. QED BY <1>0, <1>1, <1>2, WgKinds, CrashFacts

LEMMA GoneProcs ==
    ASSUME IndInv, RunningOK, EventsOK, NEW owner, Known(owner), [Next]_vars, NEW id, Gone(id),
           NEW q \in Procs, Busy(q)', proc'[q].id = id
    PROVE  q = Listener /\ proc'[q].stage \in {"change", "withdraw"}
<1>0. /\ id \in PeerIds /\ id # 0 /\ id # nextId /\ rows[id] = NoRow
      /\ Listener \in Procs
  BY StoreFacts DEF Gone, Exists, Procs
<1>1. ASSUME proc'[q] = proc[q]
      PROVE  q = Listener /\ proc'[q].stage \in {"change", "withdraw"}
  BY <1>1 DEF Gone, Busy
<1>2. ASSUME NEW p \in Procs, NEW l, Starts(p, l)
      PROVE  proc'[q] = proc[q]
  BY <1>0, <1>2, StartFacts DEF Starts, Advances
<1>3. ASSUME NEW p \in Procs, NEW t, Turns(p, t)
      PROVE  q = Listener /\ proc'[q].stage \in {"change", "withdraw"}
  <2>1. CASE q = p
    <3>1. Busy(q) /\ proc[q].id = id /\ t.phase # "idle" /\ proc'[q].stage = t.stage
      BY <1>3, <2>1 DEF Turns, Onto, Busy
    <3>2. q = Listener /\ proc[q].stage \in {"change", "withdraw"}
      BY <3>1 DEF Gone
    <3>3. q \notin Requests
      BY <3>2, ManagerAssumption
    <3>. QED BY <1>3, <2>1, <3>1, <3>2, <3>3 DEF Turns, Fails
  <2>2. CASE q # p
    BY <1>1, <1>3, <2>2 DEF Turns, Advances
  <2>. QED BY <2>1, <2>2
<1>4. ASSUME NEW r \in Requests, NEW ok \in BOOLEAN, ReservePeer(r, ok)
      PROVE  proc'[q] = proc[q]
  BY <1>0, <1>4, ReserveFacts DEF Busy
<1>5. ASSUME NEW r \in Requests, NEW l, Reads(r, l)
      PROVE  proc'[q] = proc[q]
  <2>1. l.id # id /\ proc'[r] = l /\ Advances(r)
    BY <1>0, <1>5, RequestReads DEF Reads, Exists
  <2>. QED BY <2>1 DEF Advances
<1>6. ASSUME NEW c \in Change, TakeChange(c)
      PROVE  q = Listener /\ proc'[q].stage \in {"change", "withdraw"}
  <2>1. CASE q = Listener
    BY <1>6, <2>1, TakeFacts
  <2>. QED BY <1>1, <1>6, <2>1, TakeFacts
<1>7. CASE ReadChange
  <2>1. CASE q = Listener
    <3>1. proc'[q].id = proc[q].id /\ proc'[q].stage = ChangeStage(rows[proc[q].id])
      BY <1>7, <2>1, ReadFacts
    <3>2. proc'[q].stage = ChangeStage(NoRow)
      BY <1>0, <3>1
    <3>. QED BY <2>1, <3>2 DEF ChangeStage
  <2>. QED BY <1>1, <1>7, <2>1, ReadFacts
<1>8. ASSUME NEW ok \in BOOLEAN, Ack(ok)
      PROVE  proc'[q] = proc[q]
  BY <1>8, AckFacts
<1>9. ASSUME NEW reboot \in BOOLEAN, Crash(reboot)
      PROVE  FALSE
  BY <1>9, CrashFacts
<1>10. CASE RecoverStep
  BY <1>1, <1>10, RecoverModes
<1>. QED BY <1>1, <1>2, <1>3, <1>4, <1>5, <1>6, <1>7, <1>8, <1>9, <1>10, Movers

LEMMA GoneStays ==
    ASSUME IndInv, RunningOK, EventsOK, NEW owner, Known(owner), [Next]_vars, NEW id, Gone(id)
    PROVE  Gone(id)'
<1>0. id \in PeerIds /\ id < nextId /\ id # nextId /\ rows[id] = NoRow /\ listed[id] = NoRow
  BY StoreFacts DEF Gone, Exists
<1>1. id < nextId'
  BY <1>0, NextIdGrows
<1>2. rows'[id] = NoRow
  <2>1. Grows => rows'[id] = NoRow
    BY <1>0 DEF Grows, Exists
  <2>. QED BY <1>0, <2>1, StepStore, TakeFacts, AckFacts
<1>3. listed'[id] = NoRow
  <2>1. NoRows[id] = NoRow
    BY <1>0 DEF NoRows
  <2>. QED BY <1>0, <2>1, ListedKinds
<1>4. wg'[id] = NoIface
  BY GoneWg
<1>5. \A p \in Procs : Busy(p)' /\ proc'[p].id = id =>
        p = Listener /\ proc'[p].stage \in {"change", "withdraw"}
  BY GoneProcs
<1>. QED BY <1>0, <1>1, <1>2, <1>3, <1>4, <1>5 DEF Gone, Exists

\* delete_peer deletes the row, its last step.
LEMMA GoneNow ==
    ASSUME IndInv, RunningOK, EffectOK, NEW owner, Known(owner), [Next]_vars,
           NEW r \in Requests, NEW ok \in BOOLEAN, Writes(r, ok), proc'[r].stage = "deleted",
           NEW id, id = proc'[r].id
    PROVE  Gone(id)'
<1>. DEFINE t == Branch(r, RowWritten(r, ok))
            s == proc[r].stage
<1>0. r \in Procs /\ r # Listener /\ mode = "up" /\ proc[r].phase # "idle"
  BY ManagerAssumption DEF Procs, Writes
<1>1. Onto(r, t) /\ (~RowWritten(r, ok) => Fails(r, t)) /\ Busy(r) /\ Advances(r)
  BY <1>0, WriteLeads, WriteTurns DEF Turns
<1>2. t.stage = "deleted"
  BY <1>1 DEF Onto
<1>3. RowWritten(r, ok)
  BY <1>1, <1>2 DEF Fails
<1>4. s # "deleted"
  BY <1>0, PlaceFacts DEF PhasesOf
<1>5. proc[r].phase = "drop_row" /\ s = "delete" /\ t.phase = "idle"
  BY <1>0, <1>2, <1>3, <1>4, WritePlaces DEF Writes
<1>6. Exists(id) /\ id \in PeerIds /\ id < nextId /\ id # 0 /\ proc[r].id = id
  <2>1. proc[r].id = id
    BY <1>1, <1>2, <1>5 DEF Onto
  <2>2. Exists(id)
    BY <1>3, <1>5, <2>1 DEF RowWritten
  <2>3. id \in PeerIds
    BY <1>0, <1>1, <1>5, <2>1, IdAtWork
  <2>. QED BY <2>1, <2>2, <2>3, StoreFacts DEF Known
<1>7. rows'[id] = NoRow
  <2>1. Written(id, NoRow)
    BY <1>5, <1>6 DEF Writes
  <2>. QED BY <1>6, <2>1, GrowsWritten, StoreFacts
<1>8. wg'[id] = NoIface
  BY <1>0, <1>5, <1>6 DEF EffectOK, Removed, Writes
<1>9. listed'[id] = NoRow
  BY <1>0, <1>1, <1>6 DEF RunningOK, Advances, NoRows
<1>10. ~Busy(r)' /\ \A q \in Procs \ {r} : proc'[q] = proc[q]
  BY <1>1, <1>2, <1>5 DEF Onto, Busy
<1>11. ASSUME NEW q \in Procs, Busy(q)', proc'[q].id = id
       PROVE  q = Listener /\ proc'[q].stage \in {"change", "withdraw"}
  <2>1. q # r /\ proc'[q] = proc[q] /\ proc[q].id = id /\ Busy(q)
    BY <1>10, <1>11 DEF Busy
  <2>2. ~Locked(proc[q].phase)
    BY <1>0, <1>5, <1>6, <2>1, Alone DEF Locked
  <2>3. proc[q].phase = "ack"
    BY <2>1, <2>2 DEF Locked, Busy
  <2>4. proc[q].stage = "change"
    BY <2>3, PlaceFacts, StagesOfPhase
  <2>5. q = Listener
    BY <2>4, PlaceFacts DEF Procs, Plays, RequestStages, ReconcilerStages
  <2>. QED BY <2>1, <2>4, <2>5
<1>12. id < nextId'
  BY <1>6, NextIdGrows
<1>. QED BY <1>6, <1>7, <1>8, <1>9, <1>10, <1>11, <1>12 DEF Gone, Exists

LEMMA GoneStep ==
    ASSUME IndInv, RunningOK, EventsOK, EffectOK, GoneOK, NEW owner, Known(owner), [Next]_vars
    PROVE  GoneOK'
<1>0. Requests \subseteq Procs /\ Listener \notin Requests
  BY ManagerAssumption DEF Procs
<1>1. SUFFICES ASSUME NEW r \in Requests, proc'[r].stage = "deleted",
                      NEW id, id = proc'[r].id
               PROVE  Gone(id)'
  BY DEF GoneOK
<1>2. ASSUME proc'[r] = proc[r]
      PROVE  Gone(id)'
  <2>1. Gone(id)
    BY <1>1, <1>2 DEF GoneOK
  <2>. QED BY <2>1, GoneStays
<1>3. ASSUME NEW p \in Procs, Advances(p), p # r
      PROVE  Gone(id)'
  BY <1>0, <1>2, <1>3 DEF Advances
<1>4. Busy(r) => proc[r].stage # "deleted"
  BY <1>0, PlaceFacts DEF PhasesOf, Busy
<1>5. ASSUME NEW p \in Procs, NEW l, Starts(p, l)
      PROVE  Gone(id)'
  BY <1>1, <1>3, <1>5, StartFacts DEF Starts
<1>6. ASSUME NEW p \in Procs, NEW t, Moves(p, t)
      PROVE  Gone(id)'
  <2>1. Advances(p) /\ Onto(p, t) /\ Busy(p) /\ (Fails(p, t) \/ Succeeds(p, t))
    BY <1>6, MoveTurns, MoveLeads DEF Turns
  <2>2. p # r
    BY <1>1, <1>4, <2>1 DEF Onto, Fails, Succeeds
  <2>. QED BY <1>3, <2>1, <2>2
<1>7. ASSUME NEW p \in Procs, NEW ok \in BOOLEAN, NEW device, Touches(p, ok, device)
      PROVE  Gone(id)'
  <2>. DEFINE t == Branch(p, ok)
  <2>1. Turns(p, t)
    BY <1>7, TouchTurns
  <2>2. /\ ~ok => Fails(p, t)
        /\ ok => \/ t = At(proc[p].stage, "configure")
                 \/ t = At(proc[p].stage, "bird_list")
                 \/ t = RemoveDone(proc[p].stage)
    BY <1>7, TouchLeads DEF Touches
  <2>. HIDE DEF t
  <2>3. p # r
    BY <1>1, <1>4, <2>1, <2>2 DEF Turns, Onto, Fails, At, RemoveDone
  <2>. QED BY <1>3, <2>1, <2>3 DEF Turns
<1>8. ASSUME NEW p \in Procs, NEW ok \in BOOLEAN, Writes(p, ok)
      PROVE  Gone(id)'
  <2>1. Advances(p)
    BY <1>8, WriteTurns DEF Turns
  <2>2. p = r => Gone(id)'
    BY <1>1, <1>8, GoneNow
  <2>. QED BY <1>3, <2>1, <2>2
<1>9. ASSUME NEW p \in Requests, NEW ok \in BOOLEAN, ReservePeer(p, ok)
      PROVE  Gone(id)'
  BY <1>0, <1>1, <1>2, <1>9, ReserveFacts
<1>10. ASSUME NEW p \in Requests, NEW l, Reads(p, l)
       PROVE  Gone(id)'
  <2>1. l.stage \in {"update", "delete"}
    BY <1>10 DEF Reads
  <2>2. p \in Procs /\ proc'[p] = l /\ Advances(p)
    BY <1>10, RequestReads
  <2>. QED BY <1>1, <1>3, <2>1, <2>2
<1>11. (\E c \in Change : TakeChange(c)) \/ ReadChange \/ (\E ok \in BOOLEAN : Ack(ok))
       => Gone(id)'
  BY <1>0, <1>2, TakeFacts, ReadFacts, AckFacts
<1>12. ASSUME NEW reboot \in BOOLEAN, Crash(reboot)
       PROVE  Gone(id)'
  BY <1>0, <1>1, <1>2, <1>12, CrashFacts
<1>13. RecoverStep \/ Rests \/ (\E e \in PeerIds : \E row : Intervenes(e, row))
       => Gone(id)'
  BY <1>2, RecoverModes DEF Rests, Intervenes
<1>. QED BY <1>5, <1>6, <1>7, <1>8, <1>9, <1>10, <1>11, <1>12, <1>13, Kinds

(***************************************************************************)
(* The listener's steps, as far as the configuration of BIRD is concerned. *)
(***************************************************************************)
LEMMA SharedGoes ==
    ASSUME NEW p \in Procs, SharedStep(p) \/ Fail(p)
    PROVE  \E t, snap : Goto(p, t, snap)
  BY DEF SharedStep, Fail, ConfigureRefused, ListPeers, Activate, DropRow, EnsureInterface,
         Configure, RemoveInterface, SyncBird, SyncNft, Continue

LEMMA ListenerMoves ==
    ASSUME IndInv, RunningOK, [Next]_vars, proc'[Listener] # proc[Listener]
    PROVE  \/ SharedStep(Listener) \/ Fail(Listener) \/ ListenerStep
           \/ \E reboot \in BOOLEAN : Crash(reboot)
<1>0. Listener \in Procs /\ Listener \notin Requests \cup Reconcilers
      /\ Requests \cup Reconcilers \subseteq Procs
  BY ManagerAssumption DEF Procs
<1>1. ASSUME NEW p \in Procs, p # Listener, SharedStep(p) \/ Fail(p)
      PROVE  FALSE
  <2>1. PICK t, snap : Goto(p, t, snap)
    BY <1>1, SharedGoes
  <2>2. Onto(p, t)
    BY <2>1, GotoOnto
  <2>. QED BY <1>0, <1>1, <2>2 DEF Onto
<1>2. ASSUME NEW p \in Procs, p # Listener, Advances(p)
      PROVE  FALSE
  BY <1>0, <1>2 DEF Advances
<1>3. ASSUME NEW r \in Requests, RequestStep(r) \/ Cancel(r) \/ CancelRename(r)
      PROVE  FALSE
  <2>0. r \in Procs /\ r # Listener
    BY <1>0
  <2>1. ASSUME NEW t, Moves(r, t)
        PROVE  FALSE
    BY <1>2, <2>0, <2>1, MoveTurns DEF Turns
  <2>2. ASSUME NEW ok \in BOOLEAN, Writes(r, ok)
        PROVE  FALSE
    BY <1>2, <2>0, <2>2, WriteTurns DEF Turns
  <2>3. ASSUME NEW ok \in BOOLEAN, ReservePeer(r, ok)
        PROVE  FALSE
    BY <1>0, <2>0, <2>3, ReserveFacts
  <2>4. ASSUME NEW l, Reads(r, l)
        PROVE  FALSE
    BY <1>2, <2>0, <2>4, RequestReads
  <2>. QED BY <1>3, <2>1, <2>2, <2>3, <2>4, RequestKinds
<1>4. ASSUME NEW p \in Procs, NEW l, Starts(p, l)
      PROVE  FALSE
  BY <1>2, <1>4, StartFacts
<1>5. ASSUME NEW r \in Requests, NEW k \in Keys, NEW c \in Cfgs \cup {NoCfg},
             NEW op \in {"create", "update", "delete"}, Begin(r, op, k, c)
      PROVE  FALSE
  BY <1>0, <1>4, <1>5, OtherKinds
<1>6. ASSUME NEW p \in Reconcilers, Tick(p)
      PROVE  FALSE
  BY <1>0, <1>4, <1>6, OtherKinds
<1>7. (\E id \in PeerIds : AdminWrite(id)) \/ FirewallReload \/ Quiescent \/ UNCHANGED vars
      => FALSE
  BY DEF AdminWrite, FirewallReload, Quiescent, vars, managerVars
<1>8. RecoverStep => FALSE
  BY RecoverModes
<1>9. ASSUME NEW s \in strays, LateRename(s)
      PROVE  FALSE
  BY <1>9 DEF LateRename
<1>. QED BY <1>1, <1>3, <1>5, <1>6, <1>7, <1>8, <1>9 DEF Next

LEMMA ListenerLeads ==
    ASSUME IndInv, RunningOK, EventsOK, [Next]_vars, proc'[Listener] # proc[Listener]
    PROVE  LET l == proc[Listener]
               m == proc'[Listener]
           IN  \/ m.phase \notin {"bird_sync"} \cup Synchronized
               \/ m.phase = "bird_sync" /\ m.snap = Listing(rows)
               \/ m.phase # "bird_sync" /\ l.phase \in Synchronized
               \/ m.phase # "bird_sync" /\ \E ok \in BOOLEAN : SyncBird(Listener, ok)
<1>. DEFINE l == proc[Listener]
            m == proc'[Listener]
<1>. USE DEF Synchronized, NftPhases
<1>0. Listener \in Procs /\ Listener \notin Requests
  BY ManagerAssumption DEF Procs
<1>1. ASSUME NEW t, Onto(Listener, t), Fails(Listener, t)
      PROVE  m.phase = "idle"
  BY <1>0, <1>1 DEF Onto, Fails
<1>2. ASSUME Continue(Listener, FALSE), Busy(Listener)
      PROVE  m.phase = "idle"
  BY <1>0, <1>1, <1>2, GotoOnto, ErrorLeads DEF Continue
<1>3. ASSUME NEW ok \in BOOLEAN, Writes(Listener, ok)
      PROVE  m.phase \in {"idle", "ensure", "bird_list"} \/
             (m.phase # "bird_sync" /\ l.phase \in Synchronized)
  <2>. DEFINE done == RowWritten(Listener, ok)
              t == Branch(Listener, done)
              f == l.phase
  <2>1. Onto(Listener, t) /\ (~done => Fails(Listener, t))
    BY <1>0, <1>3, WriteLeads
  <2>2. /\ f \in {"desire", "mark", "activate", "drop_row"}
        /\ done => t.phase \in {"idle", "ensure", "bird_list", "nft_list"}
        /\ done /\ t.phase = "nft_list" => f \in Synchronized \/ l.stage = "delete"
    BY <1>0, <1>3, WritePlaces DEF Writes
  <2>3. l.stage # "delete"
    BY <1>0, PlaceFacts DEF Plays, ListenerStages, ChangeStages
  <2>. HIDE DEF done, t
  <2>4. m.phase = t.phase
    BY <2>1 DEF Onto
  <2>. QED BY <1>1, <2>1, <2>2, <2>3, <2>4
<1>4. ASSUME NEW ok \in BOOLEAN, NEW device, Touches(Listener, ok, device)
      PROVE  m.phase \in {"idle", "configure", "bird_list"} \/
             (m.phase # "bird_sync" /\ l.phase \in Synchronized)
  <2>. DEFINE t == Branch(Listener, ok)
              f == l.phase
  <2>1. /\ Onto(Listener, t)
        /\ ~ok => Fails(Listener, t)
        /\ f \in {"ensure", "configure", "remove_if"}
        /\ ok => /\ f = "ensure" => t = At(l.stage, "configure")
                 /\ f = "configure" => t = At(l.stage, "bird_list")
                 /\ f = "remove_if" => t = RemoveDone(l.stage)
    BY <1>0, <1>4, TouchLeads DEF Touches
  <2>. HIDE DEF t
  <2>2. m.phase = t.phase
    BY <2>1 DEF Onto
  <2>. QED BY <1>1, <2>1, <2>2 DEF At, RemoveDone
<1>5. ASSUME l.phase \in BirdPhases \cup NftPhases,
             NEW snap, Goto(Listener, Branch(Listener, TRUE), snap)
      PROVE  \/ m.phase = "idle"
             \/ l.phase = "bird_list" /\ m.phase = "bird_sync" /\ m.snap = snap
             \/ l.phase # "bird_list" /\ m.phase # "bird_sync"
  <2>. DEFINE t == Branch(Listener, TRUE)
  <2>1. Onto(Listener, t) /\ (Fails(Listener, t) \/ Succeeds(Listener, t))
    BY <1>0, <1>5, GotoOnto, SyncLeads
  <2>2. m = Moved(l, t, snap)
    BY <1>0, <1>5 DEF Goto, IndInv, ProcOK
  <2>3. l \in Local
    BY <1>0, PlaceFacts
  <2>. HIDE DEF t
  <2>4. CASE Fails(Listener, t)
    BY <1>1, <2>1, <2>4
  <2>5. CASE Succeeds(Listener, t) /\ l.phase = "bird_list"
    <3>1. t.phase = "bird_sync"
      BY <2>5 DEF Succeeds, Sequel
    <3>2. m.snap = snap
      BY <2>2, <2>3, <3>1 DEF Moved, Local
    <3>. QED BY <2>1, <2>5, <3>1, <3>2 DEF Onto
  <2>6. CASE Succeeds(Listener, t) /\ l.phase # "bird_list"
    <3>1. t.phase # "bird_sync"
      BY <2>6 DEF Succeeds, Sequel
    <3>. QED BY <2>1, <2>6, <3>1 DEF Onto
  <2>. QED BY <2>1, <2>4, <2>5, <2>6
<1>6. CASE Fail(Listener)
  BY <1>2, <1>6 DEF Fail
<1>7. CASE ConfigureRefused(Listener)
  BY <1>2, <1>7 DEF ConfigureRefused, Call, Busy
<1>8. CASE ListPeers(Listener)
  <2>1. /\ l.phase \in {"bird_list", "nft_list"}
        /\ Goto(Listener, Branch(Listener, TRUE), Listing(rows))
    BY <1>8 DEF ListPeers, Call
  <2>. QED BY <1>5, <2>1 DEF BirdPhases
<1>9. ASSUME NEW ok \in BOOLEAN, SyncBird(Listener, ok) \/ SyncNft(Listener, ok)
      PROVE  \/ m.phase = "idle"
             \/ m.phase # "bird_sync" /\ (l.phase \in Synchronized \/ SyncBird(Listener, ok))
  <2>1. l.phase \in {"bird_sync", "nft_sync"} /\ Busy(Listener)
        /\ Goto(Listener, Branch(Listener, ok), {}) /\ Continue(Listener, ok)
        /\ (l.phase = "bird_sync" => SyncBird(Listener, ok))
    BY <1>9 DEF SyncBird, SyncNft, Call, Busy, Continue
  <2>2. CASE ok
    <3>1. Goto(Listener, Branch(Listener, TRUE), {})
      BY <2>1, <2>2
    <3>. QED BY <1>5, <2>1, <3>1 DEF BirdPhases
  <2>3. CASE ~ok
    <3>1. Continue(Listener, FALSE)
      BY <2>1, <2>3
    <3>. QED BY <1>2, <2>1, <3>1
  <2>. QED BY <2>2, <2>3
<1>10. ASSUME NEW ok \in BOOLEAN,
              Activate(Listener, ok) \/ DropRow(Listener, ok) \/ EnsureInterface(Listener, ok)
              \/ Configure(Listener, ok) \/ RemoveInterface(Listener, ok)
       PROVE  \/ m.phase \notin {"bird_sync"} \cup Synchronized
              \/ m.phase # "bird_sync" /\ l.phase \in Synchronized
  <2>1. SharedStep(Listener)
    BY <1>10 DEF SharedStep
  <2>2. l.phase \notin BirdPhases \cup NftPhases
    BY <1>10 DEF Activate, DropRow, EnsureInterface, Configure, RemoveInterface, Call, BirdPhases
  <2>3. ASSUME NEW t, Moves(Listener, t)
        PROVE  m.phase = "idle"
    <3>1. Onto(Listener, t) /\ (Fails(Listener, t) \/ Succeeds(Listener, t))
      BY <1>0, <2>3, MoveLeads
    <3>. QED BY <1>1, <2>2, <3>1 DEF Succeeds, Sequel, BirdPhases
  <2>. QED BY <1>0, <1>3, <1>4, <2>1, <2>3, SharedKinds
<1>11. CASE SharedStep(Listener)
  BY <1>7, <1>8, <1>9, <1>10, <1>11 DEF SharedStep
<1>12. CASE ListenerStep
  BY <1>12, TakeFacts, ReadFacts, AckFacts DEF ListenerStep, Busy
<1>13. ASSUME NEW reboot \in BOOLEAN, Crash(reboot)
       PROVE  m.phase = "idle"
  BY <1>0, <1>13, CrashFacts DEF Busy
<1>. QED BY <1>6, <1>11, <1>12, <1>13, ListenerMoves

LEMMA AnyLeftKept ==
    ASSUME IndInv, RunningOK, EventsOK, NEW owner, Known(owner), [Next]_vars,
           Busy(Listener), AnyLeft
    PROVE  AnyLeft'
<1>1. PICK c \in Change : Left(c)
  BY DEF AnyLeft
<1>2. ~TakeChange(c)
  BY TakeFacts
<1>. QED BY <1>1, <1>2, LeftStep DEF AnyLeft

LEMMA TableLeft ==
    ASSUME IndInv, RunningOK, EventsOK, NEW owner, Known(owner), [Next]_vars, rows' # rows
    PROVE  AnyLeft'
<1>1. IndInv'
  BY StepOK
<1>2. StoreTypeOK /\ StoreTypeOK'
  BY <1>1, StoreFacts DEF IndInv, StateOK
<1>3. PICK id \in PeerIds : rows'[id] # rows[id]
  BY <1>2 DEF StoreTypeOK
<1>4. More(id)'
  BY <1>3, RowGone
<1>. QED BY <1>4 DEF More, AnyLeft

\* Whoever else may write the configuration of BIRD has an event behind him.
LEMMA SyncBehind ==
    ASSUME IndInv, WorkOK, NEW p \in Procs, p # Listener, proc[p].phase = "bird_sync"
    PROVE  AnyLeft
<1>1. proc[p].phase = "bird_sync"
  OBVIOUS
<1>2. proc[p].stage \in ApplyStages \cup RemoveStages
  BY <1>1, PlaceFacts, StagesOfPhase DEF BirdPhases
<1>3. p \in Requests
  BY <1>2, PlaceFacts DEF Procs, Plays, ReconcilerStages, ApplyStages, RemoveStages
<1>4. Working(proc[p])
  BY <1>1, <1>2 DEF Working, ApplyStages, RemoveStages
<1>5. More(proc[p].id)
  BY <1>3, <1>4 DEF WorkOK
<1>. QED BY <1>5 DEF More, AnyLeft

\* The listener writes what it has listed, or gives up.
LEMMA SyncWrites ==
    ASSUME IndInv, NEW ok \in BOOLEAN, SyncBird(Listener, ok), Busy(Listener)'
    PROVE  proc[Listener].phase = "bird_sync" /\ bird' = BirdOf(proc[Listener].snap)
<1>0. Listener \in Procs /\ Listener \notin Requests
  BY ManagerAssumption DEF Procs
<1>1. proc[Listener].phase = "bird_sync" /\ Busy(Listener)
  BY DEF SyncBird, Call, Busy
<1>2. ASSUME ~ok
      PROVE  FALSE
  <2>1. Continue(Listener, FALSE)
    BY <1>2 DEF SyncBird
  <2>. DEFINE t == Branch(Listener, FALSE)
  <2>2. Onto(Listener, t) /\ Fails(Listener, t)
    BY <1>0, <1>1, <2>1, GotoOnto, ErrorLeads DEF Continue
  <2>. HIDE DEF t
  <2>. QED BY <1>0, <2>2 DEF Onto, Fails, Busy
<1>3. bird' = BirdOf(proc[Listener].snap)
  BY <1>2 DEF SyncBird, Synced
<1>. QED BY <1>1, <1>3

LEMMA BirdStep ==
    ASSUME IndInv, RunningOK, EventsOK, WorkOK, BirdOK, NEW owner, Known(owner), [Next]_vars
    PROVE  BirdOK'
<1>. DEFINE l == proc[Listener]
            m == proc'[Listener]
<1>0. Listener \in Procs
  BY DEF Procs
<1>1. SUFFICES ASSUME m.phase \in {"bird_sync"} \cup Synchronized, ~AnyLeft'
               PROVE  /\ m.phase = "bird_sync" => m.snap = Listing(rows')
                      /\ m.phase \in Synchronized => bird' = BirdOf(Listing(rows')) \/ late'
  <2>1. Listing(rows)' = Listing(rows') /\ BirdOf(Listing(rows))' = BirdOf(Listing(rows'))
    BY DEF Listing, BirdOf
  <2>. QED BY <2>1 DEF BirdOK
<1>2. Busy(Listener)' /\ m.phase # "read"
  BY <1>1 DEF Synchronized, NftPhases, Busy
<1>3. Busy(Listener) /\ ~AnyLeft /\ rows' = rows
  <2>1. Busy(Listener)
    BY <1>2, StepStore, TakeFacts, AckFacts DEF ListenerKeeps
  <2>. QED BY <1>1, <2>1, AnyLeftKept, TableLeft
<1>4. mode = "up" /\ mode' = "up"
  <2>1. RunningOK'
    BY RunningStep
  <2>. QED BY <1>0, <1>2, <1>3, <2>1 DEF RunningOK
<1>5. /\ l.phase = "bird_sync" => l.snap = Listing(rows)
      /\ l.phase \in Synchronized => bird = BirdOf(Listing(rows)) \/ late
  BY <1>3 DEF BirdOK
<1>6. ASSUME NEW ok \in BOOLEAN, SyncBird(Listener, ok)
      PROVE  bird' = BirdOf(Listing(rows'))
  BY <1>2, <1>3, <1>5, <1>6, SyncWrites
<1>7. BirdRests \/ late' \/ (bird' = bird /\ ~late) \/ \E ok \in BOOLEAN : SyncBird(Listener, ok)
  <2>1. ASSUME NEW p \in Procs, p # Listener, NEW ok \in BOOLEAN, SyncBird(p, ok)
        PROVE  FALSE
    BY <1>3, <2>1, SyncBehind DEF SyncBird, Call
  <2>2. ASSUME NEW reboot \in BOOLEAN, Crash(reboot)
        PROVE  FALSE
    BY <1>4, <2>2, CrashFacts
  <2>3. ASSUME NEW ok \in BOOLEAN, RecoverBird(ok)
        PROVE  FALSE
    BY <1>4, <2>3 DEF RecoverBird, Recovering
  <2>4. ASSUME NEW r \in Requests, CancelRename(r)
        PROVE  FALSE
    <3>1. r \in Procs /\ r # Listener
      BY ManagerAssumption DEF Procs
    <3>. QED BY <1>3, <2>4, <3>1, SyncBehind DEF CancelRename
  <2>5. ASSUME NEW s \in strays, LateRename(s)
        PROVE  late' \/ (bird' = bird /\ ~late)
    BY <2>5 DEF LateRename
  <2>. QED BY <2>1, <2>2, <2>3, <2>4, <2>5, BirdKinds
<1>8. CASE m = l
  BY <1>1, <1>3, <1>5, <1>6, <1>7, <1>8 DEF BirdRests
<1>9. CASE m # l
  <2>1. m.phase # "bird_sync" => bird' = BirdOf(Listing(rows')) \/ late'
    BY <1>1, <1>3, <1>5, <1>6, <1>7, <1>9, ListenerLeads DEF BirdRests
  <2>2. m.phase = "bird_sync" => m.snap = Listing(rows')
    BY <1>1, <1>3, <1>9, ListenerLeads
  <2>3. "bird_sync" \notin Synchronized
    BY DEF Synchronized, NftPhases
  <2>. QED BY <2>1, <2>2, <2>3
<1>. QED BY <1>8, <1>9

LEMMA BirdCoveredStep ==
    ASSUME IndInv, RunningOK, EventsOK, WorkOK, ListedOK, RepairOK, BirdOK, BirdCovered,
           NEW owner, Known(owner), [Next]_vars
    PROVE  BirdCovered'
<1>1. SUFFICES ASSUME mode' = "up", \A c \in Change : ~(events'[c] > 0)
               PROVE  bird' = BirdOf(Listing(rows')) \/ late'
  <2>1. BirdOf(Listing(rows))' = BirdOf(Listing(rows'))
    BY DEF Listing, BirdOf
  <2>. QED BY <2>1 DEF BirdCovered
<1>2. \A c \in Change : events[c] \in Nat /\ events'[c] \in Nat
  <2>1. IndInv'
    BY StepOK
  <2>. QED BY <2>1, StoreFacts DEF IndInv, StateOK, StoreTypeOK
<1>3. CASE mode # "up"
  <2>1. \A id \in PeerIds : rows'[id] = listed[id]
    <3>1. \A id \in PeerIds : ~Pending(id)'
      BY <1>1 DEF Pending
    <3>. QED BY <1>1, <1>3, <3>1, Recovered
  <2>2. Listing(rows') = Listing(listed)
    BY <2>1 DEF Listing
  <2>. QED BY <1>1, <1>3, <2>2, Recovered
<1>4. CASE mode = "up"
  <2>1. ~AnyLeft'
    BY <1>1, <1>2 DEF AnyLeft, Left
  <2>2. rows' = rows
    BY <2>1, TableLeft
  <2>3. Listener \in Procs /\ (Busy(Listener) => ~AnyLeft)
    BY <2>1, AnyLeftKept DEF Procs
  <2>4. CASE \E ok \in BOOLEAN : Ack(ok)
    <3>1. Busy(Listener) /\ proc[Listener].phase = "ack" /\ bird' = bird /\ late' = late
      BY <2>4, AckFacts DEF Ack
    <3>. QED BY <2>2, <2>3, <3>1 DEF BirdOK, Synchronized
  <2>5. CASE ~\E ok \in BOOLEAN : Ack(ok)
    <3>1. \A c \in Change : ~(events[c] > 0)
      <4>1. Grows
        BY <1>1, <2>5, StepStore, TakeFacts
      <4>. QED BY <1>1, <1>2, <4>1 DEF Grows
    <3>2. bird = BirdOf(Listing(rows)) \/ late
      BY <1>4, <3>1 DEF BirdCovered
    <3>3. ~Busy(Listener) /\ ~AnyLeft
      <4>1. Busy(Listener) => Handled \in Change /\ events[Handled] > 0
        BY HandledChange DEF EventsOK
      <4>. QED BY <1>2, <3>1, <4>1 DEF AnyLeft, Left
    <3>4. ASSUME NEW p \in Procs, NEW ok \in BOOLEAN, SyncBird(p, ok)
          PROVE  FALSE
      BY <3>3, <3>4, SyncBehind DEF SyncBird, Call, Busy
    <3>7. ASSUME NEW r \in Requests, CancelRename(r)
          PROVE  FALSE
      <4>1. r \in Procs /\ r # Listener
        BY ManagerAssumption DEF Procs
      <4>. QED BY <3>3, <3>7, <4>1, SyncBehind DEF CancelRename
    <3>8. ASSUME NEW s \in strays, LateRename(s)
          PROVE  late' \/ (bird' = bird /\ ~late)
      BY <3>8 DEF LateRename
    <3>5. ASSUME NEW reboot \in BOOLEAN, Crash(reboot)
          PROVE  FALSE
      BY <1>1, <3>5, CrashFacts
    <3>6. ASSUME NEW ok \in BOOLEAN, RecoverBird(ok)
          PROVE  FALSE
      BY <1>4, <3>6 DEF RecoverBird, Recovering
    <3>. QED BY <2>2, <3>2, <3>4, <3>5, <3>6, <3>7, <3>8, BirdKinds DEF BirdRests
  <2>. QED BY <2>4, <2>5
<1>. QED BY <1>3, <1>4

(***************************************************************************)
(* create_peer and update_peer return success after the row is activated,  *)
(* and nowhere else.                                                       *)
(***************************************************************************)
LEMMA SuccessStep ==
    ASSUME IndInv, RunningOK, EventsOK, EffectOK, NEW owner, Known(owner), [Next]_vars,
           NEW r \in Requests, proc[r].stage \in {"create", "update"},
           proc'[r].stage \in {"created", "updated"}
    PROVE  wg'[proc[r].id] = [cfg |-> proc[r].cfg, port |-> proc[r].port]
<1>0. Requests \subseteq Procs /\ Listener \notin Requests /\ r \in Procs
  BY ManagerAssumption DEF Procs
<1>1. proc'[r] # proc[r]
  OBVIOUS
<1>2. ASSUME NEW p \in Procs, Advances(p)
      PROVE  p = r
  BY <1>0, <1>1, <1>2 DEF Advances
<1>3. ASSUME NEW p \in Procs, NEW l, Starts(p, l)
      PROVE  FALSE
  <2>1. proc'[p] = l /\ Advances(p) /\ l.stage \notin {"created", "updated"}
    BY <1>3, StartFacts DEF Starts
  <2>. QED BY <1>2, <2>1
<1>4. ASSUME NEW p \in Procs, NEW t, Moves(p, t)
      PROVE  FALSE
  <2>1. Advances(p) /\ Onto(p, t) /\ (Fails(p, t) \/ Succeeds(p, t))
    BY <1>4, MoveTurns, MoveLeads DEF Turns
  <2>. QED BY <1>2, <2>1 DEF Onto, Fails, Succeeds
<1>5. ASSUME NEW p \in Procs, NEW ok \in BOOLEAN, NEW device, Touches(p, ok, device)
      PROVE  FALSE
  <2>. DEFINE t == Branch(p, ok)
  <2>1. Turns(p, t)
    BY <1>5, TouchTurns
  <2>2. /\ ~ok => Fails(p, t)
        /\ ok => \/ t = At(proc[p].stage, "configure")
                 \/ t = At(proc[p].stage, "bird_list")
                 \/ t = RemoveDone(proc[p].stage)
    BY <1>5, TouchLeads DEF Touches
  <2>. HIDE DEF t
  <2>3. Advances(p) /\ Onto(p, t)
    BY <2>1 DEF Turns
  <2>. QED BY <1>2, <2>2, <2>3 DEF Onto, Fails, At, RemoveDone
<1>6. ASSUME NEW p \in Procs, NEW ok \in BOOLEAN, Writes(p, ok)
      PROVE  wg'[proc[r].id] = [cfg |-> proc[r].cfg, port |-> proc[r].port]
  <2>. DEFINE t == Branch(p, RowWritten(p, ok))
  <2>1. p = r
    BY <1>2, <1>6, WriteTurns DEF Turns
  <2>2. Onto(p, t) /\ (~RowWritten(p, ok) => Fails(p, t))
    BY <1>6, WriteLeads
  <2>3. RowWritten(p, ok) /\ t.stage \in {"created", "updated"}
    BY <2>1, <2>2 DEF Onto, Fails
  <2>4. proc[p].phase = "activate"
    BY <1>6, <2>1, <2>3, WritePlaces DEF Writes
  <2>5. Applied(proc[r]) /\ wg' = wg
    BY <1>0, <1>6 DEF EffectOK, Writes
  <2>. QED BY <2>1, <2>4, <2>5 DEF Applied
<1>7. ASSUME NEW p \in Requests, NEW ok \in BOOLEAN, ReservePeer(p, ok)
      PROVE  FALSE
  BY <1>0, <1>1, <1>7, ReserveFacts
<1>8. ASSUME NEW p \in Requests, NEW l, Reads(p, l)
      PROVE  FALSE
  <2>1. proc'[p] = l /\ Advances(p) /\ p \in Procs
    BY <1>8, RequestReads
  <2>2. l.stage \in {"update", "delete"}
    BY <1>8 DEF Reads
  <2>. QED BY <1>2, <2>1, <2>2
<1>9. (\E c \in Change : TakeChange(c)) \/ ReadChange \/ (\E ok \in BOOLEAN : Ack(ok)) => FALSE
  BY <1>0, <1>1, TakeFacts, ReadFacts, AckFacts
<1>10. ASSUME NEW reboot \in BOOLEAN, Crash(reboot)
       PROVE  FALSE
  BY <1>0, <1>1, <1>10, CrashFacts
<1>11. RecoverStep \/ Rests \/ (\E id \in PeerIds : \E row : Intervenes(id, row)) => FALSE
  BY <1>1, RecoverModes DEF Rests, Intervenes
<1>. QED BY <1>3, <1>4, <1>5, <1>6, <1>7, <1>8, <1>9, <1>10, <1>11, Kinds

(***************************************************************************)
(* The inductive invariant.                                                *)
(***************************************************************************)
CoverInv ==
    /\ IndInv
    /\ OwnerOK
    /\ RunningOK
    /\ EventsOK
    /\ WorkOK
    /\ EffectOK
    /\ HandledOK
    /\ StrayOK
    /\ ListedOK
    /\ RepairOK
    /\ GoneOK
    /\ BirdOK
    /\ KernelCovered
    /\ BirdCovered

LEMMA CoverInit ==
    ASSUME Init
    PROVE  CoverInv
<1>0. IndInv
  BY InitOK
<1>1. /\ \A p \in Procs : proc[p].phase = "idle" /\ proc[p].stage = "ready" /\ ~Busy(p)
      /\ Listener \in Procs /\ Requests \subseteq Procs
      /\ mode = "up" /\ listed = NoRows
      /\ \A c \in Change : ~(events[c] > 0)
  BY DEF Init, Blank, Busy, Procs, NoChanges
<1>2. OwnerOK
  <2>0. PICK owner : owner = [id \in PeerIds |-> IF Exists(id) THEN rows[id].key ELSE NoKey]
    OBVIOUS
  <2>1. \A id \in PeerIds : Exists(id) => rows[id] \in Peer
    BY <1>0, StoreFacts DEF StoreTypeOK, Exists
  <2>2. owner \in [PeerIds -> Keys \cup {NoKey}]
    BY <2>0, <2>1 DEF Peer
  <2>3. \A id \in PeerIds : Exists(id) => rows[id].key = owner[id] /\ id < nextId
    BY <2>0 DEF Init
  <2>4. Known(owner)
    BY <1>1, <2>2, <2>3 DEF Known
  <2>. QED BY <2>4 DEF OwnerOK
<1>3. RunningOK /\ EventsOK /\ ListedOK /\ RepairOK
  BY <1>1 DEF RunningOK, EventsOK, ListedOK, RepairOK
<1>4. WorkOK
  BY <1>1 DEF WorkOK, Working
<1>5. EffectOK
  BY <1>1 DEF EffectOK, Applied, Removed, BirdPhases, NftPhases
<1>6. HandledOK
  BY <1>1 DEF HandledOK, NftPhases
<1>7. \A id \in PeerIds : wg[id] = DeviceFor(rows[id])
  BY DEF Init
<1>8. StrayOK
  <2>1. ASSUME NEW id \in PeerIds, ~Exists(id)
        PROVE  wg[id] = NoIface
    BY <1>7, <2>1 DEF DeviceFor, Wanted, Exists
  <2>. QED BY <2>1, ManagerAssumption DEF StrayOK
<1>9. GoneOK
  BY <1>1 DEF GoneOK
<1>10. BirdOK
  BY <1>1 DEF BirdOK, Synchronized, NftPhases
<1>11. KernelCovered
  <2>1. \A id \in PeerIds : Exists(id) => rows[id].status \in {"active", "disabled"}
    BY ManagerAssumption DEF Init, Exists
  <2>. QED BY <1>7, <2>1 DEF KernelCovered, Settled
<1>12. BirdCovered
  BY DEF Init, BirdCovered
<1>. QED BY <1>0, <1>2, <1>3, <1>4, <1>5, <1>6, <1>8, <1>9, <1>10, <1>11, <1>12 DEF CoverInv

LEMMA CoverStep ==
    ASSUME CoverInv, [Next]_vars
    PROVE  CoverInv'
<1>. USE DEF CoverInv
<1>0. PICK owner : Known(owner)
  BY DEF OwnerOK
<1>1. IndInv' /\ RunningOK' /\ OwnerOK' /\ EventsOK'
  BY <1>0, StepOK, RunningStep, OwnerStep, EventsStep
<1>2. WorkOK' /\ EffectOK' /\ HandledOK'
  BY <1>0, WorkStep, EffectStep, HandledStep
<1>3. StrayOK' /\ ListedOK' /\ RepairOK'
  BY <1>0, StrayStep, ListedStep, RepairStep
<1>4. GoneOK' /\ BirdOK'
  BY <1>0, GoneStep, BirdStep
<1>5. KernelCovered' /\ BirdCovered'
  BY <1>0, KernelStep, BirdCoveredStep
<1>. QED BY <1>1, <1>2, <1>3, <1>4, <1>5

LEMMA CoverInvariant == Spec => []CoverInv
<1>1. CoverInv /\ [Next]_vars => CoverInv'
  BY CoverStep
<1>2. Init => CoverInv
  BY CoverInit
<1>. QED BY <1>1, <1>2, PTL DEF Spec

(***************************************************************************)
(* Every step of the service is one of PeerOutbox or none.                 *)
(***************************************************************************)
Target == [id \in PeerIds |-> DeviceFor(rows[id])]
Resting == {id \in PeerIds : Exists(id) => rows[id].status \in {"active", "disabled"}}
Waiting == {id \in PeerIds : Pending(id)}

LEMMA TargetType ==
    ASSUME IndInv
    PROVE  Target \in [PeerIds -> Device \cup {NoIface, Unaliased}]
<1>1. ASSUME NEW id \in PeerIds
      PROVE  DeviceFor(rows[id]) \in Device \cup {NoIface}
  <2>1. rows[id] \in Peer \cup {NoRow}
    BY StoreFacts DEF StoreTypeOK
  <2>. QED BY <2>1 DEF DeviceFor, DeviceOf, Device, Wanted, Peer
<1>. QED BY <1>1 DEF Target

LEMMA TableSame ==
    ASSUME UNCHANGED <<rows, events>>
    PROVE  Target' = Target /\ Resting' = Resting /\ Waiting' = Waiting
<1>1. Target' = Target
  BY DEF Target, DeviceFor, DeviceOf, Wanted
<1>2. Resting' = Resting
  BY DEF Resting, Exists
<1>3. Waiting' = Waiting
  BY DEF Waiting, Pending
<1>. QED BY <1>1, <1>2, <1>3

LEMMA OutboxRows ==
    ASSUME IndInv, RunningOK, EventsOK, NEW owner, Known(owner), [Next]_vars,
           Grows \/ events' = events
    PROVE  Outbox!RowsChange
<1>1. IndInv'
  BY StepOK
<1>2. Target' \in [PeerIds -> Device \cup {NoIface, Unaliased}]
  <2>1. \A id \in PeerIds : (DeviceFor(rows[id]) \in Device \cup {NoIface, Unaliased})'
    <3>1. \A id \in PeerIds : rows'[id] \in Peer \cup {NoRow}
      BY <1>1 DEF IndInv, StateOK, StoreTypeOK
    <3>. QED BY <3>1 DEF DeviceFor, DeviceOf, Device, Wanted, Peer
  <2>. QED BY <2>1 DEF Target
<1>3. Waiting \subseteq Waiting' /\ Waiting' \subseteq PeerIds /\ Resting' \subseteq PeerIds
  BY PendingGrows DEF Waiting, Resting
<1>4. ASSUME NEW id \in PeerIds \ Waiting'
      PROVE  Target'[id] = Target[id] /\ (id \in Resting' <=> id \in Resting)
  <2>1. ~Pending(id)'
    BY <1>4 DEF Waiting
  <2>2. rows'[id] = rows[id]
    BY <2>1, RowPending
  <2>3. DeviceFor(rows'[id]) = DeviceFor(rows[id])
    BY <2>2
  <2>. QED BY <2>2, <2>3 DEF Target, Resting, Exists, DeviceFor, DeviceOf, Wanted
<1>. QED BY <1>2, <1>3, <1>4 DEF Outbox!RowsChange, Waiting, Resting, Target

LEMMA OutboxSteps ==
    ASSUME CoverInv, CoverInv', [Next]_vars
    PROVE  Outbox!Next \/ UNCHANGED Outbox!outboxVars
<1>. USE DEF CoverInv
<1>0. PICK owner : Known(owner)
  BY DEF OwnerOK
<1>1. wg' \in [PeerIds -> Device \cup {NoIface, Unaliased}]
  BY DEF IndInv, StateOK
<1>2. ASSUME UNCHANGED <<rows, events>>, mode' # "up"
      PROVE  Outbox!Next
  BY <1>1, <1>2, TableSame DEF Outbox!Next, Outbox!Closed, Target, Resting, Waiting
<1>3. ASSUME wg' = wg, (mode = "up") <=> (mode' = "up"), Grows
      PROVE  Outbox!Next
  BY <1>0, <1>3, OutboxRows DEF Outbox!Next, Outbox!Write
<1>4. ASSUME NEW p \in Procs, NEW ok \in BOOLEAN,
             NEW device \in Device \cup {NoIface, Unaliased}, Touches(p, ok, device)
      PROVE  Outbox!Next
  <2>1. /\ UNCHANGED <<rows, events, mode>> /\ mode = "up"
        /\ wg' = [wg EXCEPT ![proc[p].id] = device]
    BY <1>4 DEF Touches
  <2>2. PICK id \in PeerIds : id = proc[p].id
    BY <1>0, <1>4, TouchElsewhere
  <2>3. Pending(id)
    BY <1>0, <1>4, <2>2, TouchPending
  <2>4. Outbox!Touch(id)
    BY <2>1, <2>2, <2>3, TableSame DEF Outbox!Touch, Target, Resting, Waiting
  <2>. QED BY <2>4 DEF Outbox!Next
<1>5. ASSUME NEW ok \in BOOLEAN, Ack(ok)
      PROVE  Outbox!Next \/ UNCHANGED Outbox!outboxVars
  <2>1. /\ UNCHANGED <<rows, wg, mode>> /\ mode = "up" /\ Busy(Listener)
        /\ Handled \in Change /\ Handled.id = proc[Listener].id
        /\ \A c \in Change \ {Handled} : events'[c] = events[c]
        /\ events'[Handled] = events[Handled] - 1 /\ events[Handled] > 0
    BY <1>5, AckFacts, HandledChange DEF EventsOK
  <2>2. PICK id \in PeerIds : id = proc[Listener].id
    BY <2>1 DEF Change
  <2>3. \A other \in PeerIds : other # id => (Pending(other)' <=> Pending(other))
    BY <2>1, <2>2 DEF Pending
  <2>4. Pending(id)
    BY <2>1, <2>2 DEF Pending
  <2>5. Target' = Target /\ Resting' = Resting
    <3>1. Target' = Target
      BY <2>1 DEF Target, DeviceFor, DeviceOf, Wanted
    <3>. QED BY <2>1, <3>1 DEF Resting, Exists
  <2>6. CASE Pending(id)'
    <3>1. Waiting' = Waiting
      BY <2>3, <2>4, <2>6 DEF Waiting
    <3>. QED BY <2>1, <2>5, <3>1 DEF Outbox!outboxVars, Target, Resting, Waiting
  <2>7. CASE ~Pending(id)'
    <3>1. Waiting' = Waiting \ {id}
      BY <2>3, <2>4, <2>7 DEF Waiting
    <3>2. Settled(id)
      BY <1>5, <2>4, <2>7, AckPending
    <3>3. Outbox!InOrder(id)
      BY <3>2 DEF Outbox!InOrder, Settled
    <3>4. Outbox!Settle(id)
      BY <2>1, <2>4, <2>5, <3>1, <3>3 DEF Outbox!Settle, Outbox!InOrder, Target, Resting, Waiting
    <3>. QED BY <3>4 DEF Outbox!Next
  <2>. QED BY <2>6, <2>7
<1>6. ASSUME NEW reboot \in BOOLEAN, Crash(reboot)
      PROVE  Outbox!Next
  BY <1>2, <1>6, CrashFacts
<1>7. CASE RecoverStep /\ mode' # "up"
  <2>1. mode # "up" /\ Grows
    BY <1>7, RecoverModes, RecoverStore
  <2>2. UNCHANGED <<rows, events>> \/ wg' = wg
    BY <1>7 DEF RecoverStep, Restart, RecoverList, RecoverFail, RecoverWireguard, RecoverNft,
                RecoverBird, RecoverRemove, RecoverManaged, RecoverChanges, RecoverSweep,
                RecoverDrop, RecoverActivate, storeVars
  <2>. QED BY <1>2, <1>3, <1>7, <2>1, <2>2
<1>8. CASE RecoverStep /\ mode' = "up"
  <2>1. mode # "up" /\ Grows /\ wg' = wg
    BY <1>8, RecoverModes, RecoverStore, Recovered
  <2>2. Outbox!RowsChange
    BY <1>0, <2>1, OutboxRows
  <2>3. ASSUME NEW id \in PeerIds, ~Pending(id)'
        PROVE  Settled(id)'
    BY <1>8, <2>3 DEF KernelCovered
  <2>4. \A id \in PeerIds \ Waiting' : Outbox!InOrder(id)'
    BY <2>3 DEF Outbox!InOrder, Settled, Waiting
  <2>5. Outbox!Reopen
    BY <1>8, <2>1, <2>2, <2>4 DEF Outbox!Reopen, Outbox!InOrder, Waiting
  <2>. QED BY <2>5 DEF Outbox!Next
<1>9. CASE ~RecoverStep /\ wg' = wg /\ ~\E reboot \in BOOLEAN : Crash(reboot)
  <2>1. (mode = "up") <=> (mode' = "up")
    <3>1. mode # "up" => mode' # "up"
      BY <1>9, Reopens
    <3>2. mode = "up" => mode' = "up"
      <4>1. ASSUME NEW p \in Procs, Advances(p)
            PROVE  mode' = mode
        BY <4>1 DEF Advances
      <4>2. ASSUME NEW p \in Procs, NEW l, Starts(p, l)
            PROVE  mode' = mode
        BY <4>2 DEF Starts
      <4>3. ASSUME NEW p \in Procs, NEW t, Turns(p, t)
            PROVE  mode' = mode
        BY <4>1, <4>3 DEF Turns
      <4>4. ASSUME NEW r \in Requests, NEW l, Reads(r, l)
            PROVE  mode' = mode
        BY <4>4 DEF Reads
      <4>5. ASSUME NEW ok \in BOOLEAN, Ack(ok)
            PROVE  mode' = mode
        BY <4>5 DEF Ack, Call
      <4>. QED BY <1>9, <4>2, <4>3, <4>4, <4>5, Movers, ReserveFacts, TakeFacts, ReadFacts
    <3>. QED BY <3>1, <3>2
  <2>2. ASSUME Grows
        PROVE  Outbox!Next
    BY <1>3, <1>9, <2>1, <2>2
  <2>3. ASSUME NEW c \in Change, TakeChange(c)
        PROVE  Grows
    BY <2>3, TakeFacts, GrowsSame, StoreFacts
  <2>. QED BY <1>0, <1>5, <2>2, <2>3, StepStore
<1>. QED BY <1>4, <1>6, <1>7, <1>8, <1>9, WgKinds

LEMMA OutboxInit == Init => Outbox!Init
<1>. SUFFICES ASSUME Init PROVE Outbox!Init
  OBVIOUS
<1>1. IndInv
  BY InitOK
<1>2. Target \in [PeerIds -> Device \cup {NoIface, Unaliased}] /\ wg = Target
  BY <1>1, TargetType DEF Init, Target
<1>3. Resting = PeerIds
  BY ManagerAssumption DEF Init, Resting, Exists
<1>4. Waiting = {}
  BY DEF Init, Waiting, Pending, NoChanges
<1>. QED BY <1>2, <1>3, <1>4 DEF Outbox!Init, Init, Target, Resting, Waiting

-----------------------------------------------------------------------------
(***************************************************************************)
(* No change is forgotten: while the service is up, every peer has an      *)
(* interface exactly when its row wants one, which carries what the row    *)
(* asks for, and the row is settled, or a durable event is left that makes *)
(* the listener look at the peer again (sync_pending_peer_changes deletes  *)
(* an event only after it was applied).                                    *)
(***************************************************************************)
THEOREM NoChangeForgotten == Spec => []KernelCovered
<1>1. CoverInv => KernelCovered
  BY DEF CoverInv
<1>. QED BY <1>1, CoverInvariant, PTL

(***************************************************************************)
(* The same for BIRD: `current` holds the peers that the table wants, or   *)
(* an event is left, although sync_bird_configs lists the peers before it  *)
(* takes the lock under which it writes them.  The exception is a rename   *)
(* that a dropped request left to the runtime: after it, and until a sync  *)
(* succeeds, BIRD may be behind the table with no event left.              *)
(***************************************************************************)
THEOREM BirdNotForgotten == Spec => []BirdCovered
<1>1. CoverInv => BirdCovered
  BY DEF CoverInv
<1>. QED BY <1>1, CoverInvariant, PTL

(***************************************************************************)
(* Once delete_peer has answered success, neither the row nor the          *)
(* interface of the peer comes back: not through late events, compensation *)
(* of other requests, a new peer of the same machine, crashes or recovery. *)
(***************************************************************************)
THEOREM DeletionIsFinal == Spec => []DeletedStaysGone
<1>1. CoverInv => DeletedStaysGone
  BY DEF CoverInv, GoneOK, Gone, DeletedStaysGone
<1>. QED BY <1>1, CoverInvariant, PTL

(***************************************************************************)
(* When recover is through, exactly the rows it has listed and wants have  *)
(* interfaces, each carries the settings of its row, and the BIRD          *)
(* configuration is that of those rows, whatever a crash left half way and *)
(* however the table changed meanwhile.                                    *)
(***************************************************************************)
THEOREM RecoveryIsComplete == Spec => RecoveryRepairs
<1>1. CoverInv /\ [Next]_vars =>
        [mode = "activate" /\ mode' = "up" =>
           /\ \A id \in PeerIds : wg[id] = DeviceFor(listed[id])
           /\ bird = BirdOf(Listing(listed))]_vars
  BY Recovered DEF CoverInv
<1>. QED BY <1>1, CoverInvariant, PTL DEF Spec, RecoveryRepairs

(***************************************************************************)
(* create_peer and update_peer answer success only when the interface of   *)
(* the peer carries the settings that were asked for, although             *)
(* sync_bird_configs and sync_nft_ports, and writes by others, come        *)
(* between the last netlink call and the answer.  Addresses of settings it *)
(* had before may still be there (see Configure).                          *)
(***************************************************************************)
THEOREM SuccessIsTrue == Spec => SuccessMeansApplied
<1>1. CoverInv /\ [Next]_vars =>
        [\A r \in Requests :
           /\ proc[r].stage \in {"create", "update"}
           /\ proc'[r].stage \in {"created", "updated"}
           => wg'[proc[r].id] = [cfg |-> proc[r].cfg, port |-> proc[r].port]]_vars
  BY SuccessStep DEF CoverInv, OwnerOK
<1>. QED BY <1>1, CoverInvariant, PTL DEF Spec, SuccessMeansApplied

(***************************************************************************)
(* The service implements PeerOutbox: no interface is touched but under a  *)
(* durable event of its peer, the last event of a peer goes away only when *)
(* interface and row are in order at that very moment, and recovery opens  *)
(* the service only when every peer is in order or has an event.           *)
(***************************************************************************)
THEOREM ServiceImplementsOutbox == Spec => KeepsOutbox
<1>1. CoverInv /\ CoverInv' /\ [Next]_vars => [Outbox!Next]_(Outbox!outboxVars)
  BY OutboxSteps
<1>. QED BY <1>1, OutboxInit, CoverInvariant, PTL DEF Spec, KeepsOutbox, Outbox!Spec
=============================================================================
