------------------------- MODULE PeerManagerProofs -------------------------
(***************************************************************************)
(* Proofs about PeerManager: type correctness and mutual exclusion, for    *)
(* any number of requests, machines, peers and ports.                      *)
(***************************************************************************)
EXTENDS PeerManager, PeerFlowProofs, WellFoundedInduction, TLAPS

USE DEF birdVars

(***************************************************************************)
(* The inductive invariant.  TypeOK alone is not inductive: what a write   *)
(* stores is a local variable, and that this variable is set when the      *)
(* write is reached depends on the places a process can be at.             *)
(***************************************************************************)
\* The stages in which cfg, and old, hold a configuration, and those in
\* which the listener handles an event.
CfgStages ==
    {"create", "undo_create", "update", "undo_update", "undo_delete", "reapply", "promote"}
OldStages == {"update", "undo_update", "delete", "unmark", "undo_delete"}
ChangeStages == {"change", "reapply", "promote", "purge", "withdraw"}

Shape(l) ==
    /\ l.phase \in PhasesOf(l.stage)
    /\ l.stage \in CfgStages => l.cfg \in Cfgs
    /\ l.stage \in OldStages /\ l.phase # "read" => l.old \in Cfgs
    /\ l.stage \in ChangeStages => l.id \in PeerIds
    /\ l.phase # "idle" => (l.stage = "reconcile" <=> l.key = NoKey)

\* A process past the lock of its machine is the holder of that lock.
Owns(p) ==
    Locked(proc[p].phase) /\ proc[p].key # NoKey => peerLock[proc[p].key] = p

\* Which functions a process executes.
RequestStages ==
    {"ready", "create", "undo_create", "update", "undo_update", "delete", "unmark",
     "undo_delete", "created", "tested", "updated", "deleted", "failed"}
ListenerStages == {"ready"} \cup ChangeStages
ReconcilerStages == {"ready", "reconcile"}

Plays(p, s) ==
    /\ p \in Requests => s \in RequestStages
    /\ p = Listener => s \in ListenerStages
    /\ p \in Reconcilers => s \in ReconcilerStages

\* The processes and their locks.
ProcOK ==
    /\ proc \in [Procs -> Local]
    /\ peerLock \in [Keys -> Procs \cup {Free}]
    /\ \A p \in Procs : Shape(proc[p]) /\ Plays(p, proc[p].stage) /\ Owns(p)

\* The other variables.
StateOK ==
    /\ StoreTypeOK
    /\ wg \in [PeerIds -> Device \cup {NoIface, Unaliased}]
    /\ bird \in SUBSET BirdConf
    /\ strays \subseteq [by : Requests, conf : SUBSET BirdConf]
    /\ late \in BOOLEAN
    /\ nft \in SUBSET Ports
    /\ mode \in Modes
    /\ listed \in [PeerIds -> Peer \cup {NoRow}]
    /\ admin \in 0 .. MaxAdmin
    /\ crashes \in 0 .. MaxCrash
    /\ faulty \in BOOLEAN

IndInv == StateOK /\ ProcOK

Place == [stage : Stages, phase : Phases]

(***************************************************************************)
(* What PeerFlow guarantees about the place t that follows (s, f).         *)
(***************************************************************************)
Follows(s, f, t) ==
    /\ t \in Place
    /\ t.phase \in PhasesOf(t.stage)
    /\ t.stage \in CfgStages => s \in CfgStages \/ t.stage \in {"undo_update", "undo_delete"}
    /\ t.stage \in OldStages => s \in OldStages
    /\ t.stage \in OldStages => f # "read" \/ t.phase = "desire" \/ t.phase = "mark"
    /\ t.stage \in {"undo_update", "undo_delete"} => f # "read"
    /\ t.stage \in ChangeStages => s \in ChangeStages
    /\ t.phase # "idle" => (t.stage = "reconcile" <=> s = "reconcile")
    /\ f = "ack" => t.phase = "idle"
    /\ s \in RequestStages => t.stage \in RequestStages
    /\ s \in ListenerStages => t.stage \in ListenerStages
    /\ s \in ReconcilerStages => t.stage \in ReconcilerStages

(***************************************************************************)
(* Every branch of every function leads to a place that the function, its  *)
(* compensation or the listener's loop has.                                *)
(***************************************************************************)
LEMMA FlowOK ==
    ASSUME NEW s \in Stages, NEW f \in PhasesOf(s), f # "idle"
    PROVE  /\ Follows(s, f, Program(s, f).ok)
           /\ Follows(s, f, Program(s, f).err)
  <1> USE DEF Stages, Phases, Place, PhasesOf, CfgStages, OldStages, ChangeStages,
          RequestStages, ListenerStages, ReconcilerStages, Follows, Program,
          ApplyPhases, RemovePhases, NftPhases, BirdPhases, At, Go, Return
  <1>1. CASE s = "create"      BY <1>1 DEF create_peer, apply_peer, sync_bird_configs,
                                  sync_nft_ports
  <1>2. CASE s = "undo_create" BY <1>2 DEF compensate_failed_create, remove_external_state,
                                  sync_bird_configs, sync_nft_ports
  <1>3. CASE s = "update"      BY <1>3 DEF update_peer, apply_peer, sync_bird_configs
  <1>4. CASE s = "undo_update" BY <1>4 DEF compensate_failed_update, apply_peer, sync_bird_configs
  <1>5. CASE s = "delete"      BY <1>5 DEF delete_peer, remove_external_state, sync_bird_configs,
                                  sync_nft_ports
  <1>6. CASE s = "unmark"      BY <1>6 DEF unmark
  <1>7. CASE s = "undo_delete" BY <1>7 DEF undo_delete, apply_peer, sync_bird_configs,
                                  sync_nft_ports
  <1>8. CASE s = "reconcile"   BY <1>8 DEF nft_reconcile, sync_nft_ports
  <1>9. CASE s = "change"      BY <1>9 DEF apply_peer_change
  <1>10. CASE s = "reapply"    BY <1>10 DEF apply_peer_change, apply_peer, sync_bird_configs,
                                  sync_nft_ports
  <1>11. CASE s = "promote"    BY <1>11 DEF apply_peer_change, apply_peer, sync_bird_configs,
                                  sync_nft_ports
  <1>12. CASE s = "purge"      BY <1>12 DEF apply_peer_change, remove_external_state,
                                  sync_bird_configs, sync_nft_ports
  <1>13. CASE s = "withdraw"   BY <1>13 DEF apply_peer_change, remove_external_state,
                                  sync_bird_configs, sync_nft_ports
  <1>14. CASE s \in {"ready", "created", "tested", "updated", "deleted", "failed"}
    BY <1>14
  <1> QED
    BY <1>1, <1>2, <1>3, <1>4, <1>5, <1>6, <1>7, <1>8, <1>9, <1>10, <1>11, <1>12, <1>13, <1>14

(***************************************************************************)
(* Where the reads and the reservation lead, and that a request can return *)
(* from every place.                                                       *)
(***************************************************************************)
LEMMA FirstSteps ==
    /\ Program("create", "reserve").ok = At("create", "ensure")
    /\ Program("update", "read").ok = At("update", "desire")
    /\ Program("delete", "read").ok = At("delete", "mark")
  <1> USE DEF Program, Go, At, ApplyPhases, RemovePhases, NftPhases, BirdPhases
  <1>1. Program("create", "reserve").ok = At("create", "ensure")
    BY DEF create_peer
  <1>2. Program("update", "read").ok = At("update", "desire")
    BY DEF update_peer
  <1>3. Program("delete", "read").ok = At("delete", "mark")
    BY DEF delete_peer
  <1> QED
    BY <1>1, <1>2, <1>3

LEMMA ReturnOK ==
    ASSUME NEW s \in RequestStages \ {"ready"}, NEW f, NEW answer \in {"failed", "tested"}
    PROVE  Follows(s, f, Return(answer))
  <1>1. Return(answer).stage = answer /\ Return(answer).phase = "idle"
        /\ Return(answer) \in Place
    BY DEF Return, At, Place, Stages, Phases
  <1>2. PhasesOf(answer) = {"idle"}
    BY DEF PhasesOf
  <1> QED
    BY <1>1, <1>2 DEF Follows, CfgStages, OldStages, ChangeStages, RequestStages, ListenerStages,
                      ReconcilerStages

(***************************************************************************)
(* A process that is idle has an admissible local state.                   *)
(***************************************************************************)
LEMMA BlankOK ==
    ASSUME NEW s \in Stages, "idle" \in PhasesOf(s)
    PROVE  /\ Blank(s) \in Local
           /\ Shape(Blank(s))
           /\ \A id \in PeerIds \cup {0} :
                /\ [Blank(s) EXCEPT !.id = id] \in Local
                /\ Shape([Blank(s) EXCEPT !.id = id])
  <1>1. s \notin CfgStages \cup OldStages \cup ChangeStages
    BY DEF PhasesOf, CfgStages, OldStages, ChangeStages, ApplyPhases, RemovePhases, NftPhases,
       BirdPhases
  <1>2. 0 \in Ports
    BY StoreAssumption DEF Ports
  <1> QED
    BY <1>1, <1>2 DEF Blank, Local, Shape, Phases, Stages

(***************************************************************************)
(* Moving to a place that follows keeps the local state admissible.        *)
(***************************************************************************)
LEMMA MovedOK ==
    ASSUME NEW l \in Local, Shape(l), l.phase # "idle",
           NEW t, Follows(l.stage, l.phase, t),
           l.phase = "read" => t.phase = "idle",
           NEW snap \in SUBSET Listed
    PROVE  /\ Moved(l, t, snap) \in Local
           /\ Shape(Moved(l, t, snap))
           /\ Moved(l, t, snap).phase = t.phase
           /\ Moved(l, t, snap).stage = t.stage
           /\ t.phase # "idle" => Moved(l, t, snap).key = l.key
  <1>1. CASE t.phase = "idle"
    <2>1. t.stage \in Stages /\ "idle" \in PhasesOf(t.stage)
      BY <1>1 DEF Follows, Place
    <2>2. l.id \in PeerIds \cup {0}
      BY DEF Local
    <2> QED
      BY <1>1, <2>1, <2>2, BlankOK DEF Moved, Blank
  <1>2. CASE t.phase # "idle"
    <2> DEFINE m == [l EXCEPT !.stage = t.stage, !.phase = t.phase, !.snap = snap,
                              !.cfg = IF t.stage \in {"undo_update", "undo_delete"}
                                        THEN l.old ELSE l.cfg]
    <2>1. Moved(l, t, snap) = m
      BY <1>2 DEF Moved
    <2>2. m \in Local
      BY DEF Local, Follows, Place
    <2>3. m.stage = t.stage /\ m.phase = t.phase /\ m.key = l.key /\ m.old = l.old
          /\ m.id = l.id
          /\ m.cfg = IF t.stage \in {"undo_update", "undo_delete"} THEN l.old ELSE l.cfg
      BY DEF Local
    <2>4. Shape(m)
      BY <1>2, <2>3 DEF Shape, Follows, OldStages, CfgStages, ChangeStages
    <2> QED
      BY <2>1, <2>2, <2>3, <2>4
  <1> QED
    BY <1>1, <1>2

(***************************************************************************)
(* Goto keeps the processes and their locks in order: nobody loses a lock  *)
(* to another process, and who returns gives its lock back.                *)
(***************************************************************************)
LEMMA GotoOK ==
    ASSUME ProcOK, NEW p \in Procs, proc[p].phase # "idle",
           NEW t, Follows(proc[p].stage, proc[p].phase, t),
           proc[p].phase = "read" => t.phase = "idle",
           NEW snap \in SUBSET Listed, Goto(p, t, snap)
    PROVE  ProcOK'
  <1> DEFINE m == Moved(proc[p], t, snap)
  <1>1. /\ m \in Local /\ Shape(m) /\ m.phase = t.phase /\ m.stage = t.stage
        /\ t.phase # "idle" => m.key = proc[p].key
    BY MovedOK DEF ProcOK
  <1> HIDE DEF m
  <1>2. proc' = [proc EXCEPT ![p] = m]
    BY DEF Goto, m
  <1>3. peerLock' = [k \in Keys |->
                      IF peerLock[k] = p /\ ~Locked(t.phase) THEN Free ELSE peerLock[k]]
    BY DEF Goto
  <1>4. proc' \in [Procs -> Local] /\ peerLock' \in [Keys -> Procs \cup {Free}]
    BY <1>1, <1>2, <1>3 DEF ProcOK
  <1>5. ASSUME NEW q \in Procs
        PROVE  Shape(proc[q])' /\ Plays(q, proc[q].stage)' /\ Owns(q)'
    <2>1. CASE q = p
      <3>1. proc'[p] = m
        BY <1>2 DEF ProcOK
      <3>2. Locked(t.phase) => Locked(proc[p].phase)
        BY DEF Follows, Locked
      <3>3. ASSUME Locked(m.phase), m.key # NoKey
            PROVE  peerLock'[m.key] = p
        <4>1. m.key = proc[p].key
          BY <1>1, <3>3 DEF Locked
        <4>2. peerLock[m.key] = p
          BY <1>1, <3>2, <3>3, <4>1 DEF ProcOK, Owns
        <4>3. m.key \in Keys
          BY <1>1, <3>3 DEF Local
        <4> QED
          BY <1>1, <1>3, <3>3, <4>2, <4>3
      <3>4. Plays(p, m.stage)
        BY <1>1 DEF ProcOK, Plays, Follows
      <3> QED
        BY <1>1, <2>1, <3>1, <3>3, <3>4 DEF Owns, Shape, Plays
    <2>2. CASE q # p
      <3>1. proc'[q] = proc[q]
        BY <1>2, <2>2 DEF ProcOK
      <3>2. ASSUME Locked(proc[q].phase), proc[q].key # NoKey
            PROVE  peerLock'[proc[q].key] = q
        <4>1. peerLock[proc[q].key] = q /\ proc[q].key \in Keys
          BY <3>2 DEF ProcOK, Owns, Local
        <4> QED
          BY <1>3, <2>2, <4>1
      <3> QED
        BY <3>1, <3>2 DEF ProcOK, Owns, Shape, Plays
    <2> QED
      BY <2>1, <2>2
  <1> QED
    BY <1>4, <1>5 DEF ProcOK

(***************************************************************************)
(* The same for Continue.  A read that succeeds sets more than the place,  *)
(* and is not an instance.                                                 *)
(***************************************************************************)
LEMMA ContinueOK ==
    ASSUME ProcOK, NEW p \in Procs, proc[p].phase # "idle",
           NEW ok, ok => proc[p].phase # "read", Continue(p, ok)
    PROVE  ProcOK'
  <1> DEFINE s == proc[p].stage
             f == proc[p].phase
  <1>1. s \in Stages /\ f \in PhasesOf(s)
    BY DEF ProcOK, Local, Shape
  <1>2. Follows(s, f, Branch(p, ok))
    BY <1>1, FlowOK DEF Branch
  <1>3. ASSUME f = "read" PROVE Branch(p, ok).phase = "idle"
    <2>1. s \in {"update", "delete", "change"}
      BY <1>1, <1>3 DEF PhasesOf, ApplyPhases, RemovePhases, NftPhases, BirdPhases, Stages
    <2> QED
      BY <1>3, <2>1 DEF Branch, Program, update_peer, delete_peer, apply_peer_change,
                        Go, Return, At, ApplyPhases, RemovePhases, NftPhases, BirdPhases
  <1> QED
    BY <1>2, <1>3, GotoOK DEF Continue

(***************************************************************************)
(* The statements of PeerStore keep the types of the tables.               *)
(***************************************************************************)
LEMMA WriteOK ==
    ASSUME StoreTypeOK, NEW id \in PeerIds \cup {0},
           NEW row, id \in PeerIds => row \in Peer, WriteRow(id, row)
    PROVE  /\ rows' \in [PeerIds -> Peer \cup {NoRow}]
           /\ events' \in [Change -> Nat]
  <1>1. rows' \in [PeerIds -> Peer \cup {NoRow}]
    BY DEF StoreTypeOK, WriteRow
  <1>2. events' \in [Change -> Nat]
    <2> DEFINE c == [id |-> id, key |-> row.key, op |-> "upsert"]
    <2>1. events' = [events EXCEPT ![c] = events[c] + 1]
      BY DEF WriteRow, Enqueue
    <2> HIDE DEF c
    <2>2. c \in Change => events[c] + 1 \in Nat
      BY DEF StoreTypeOK
    <2>3. events' = [d \in Change |-> IF d = c THEN events[c] + 1 ELSE events[d]]
      BY <2>1 DEF StoreTypeOK
    <2>4. \A d \in Change : events[d] \in Nat
      BY DEF StoreTypeOK
    <2> QED
      BY <2>2, <2>3, <2>4
  <1> QED
    BY <1>1, <1>2

LEMMA DeleteRowOK ==
    ASSUME StoreTypeOK, NEW id \in PeerIds \cup {0}, delete_row(id)
    PROVE  /\ rows' \in [PeerIds -> Peer \cup {NoRow}]
           /\ events' \in [Change -> Nat]
  BY DEF StoreTypeOK, delete_row, Enqueue

LEMMA SetStatusOK ==
    ASSUME StoreTypeOK, NEW id \in PeerIds \cup {0}, NEW status \in Statuses,
           set_status(id, status)
    PROVE  /\ rows' \in [PeerIds -> Peer \cup {NoRow}]
           /\ events' \in [Change -> Nat]
  <1>1. CASE Exists(id)
    <2> DEFINE row == [rows[id] EXCEPT !.status = status]
    <2>1. id \in PeerIds => row \in Peer
      BY <1>1 DEF StoreTypeOK, Exists, Peer
    <2>2. WriteRow(id, row)
      BY <1>1 DEF set_status
    <2> QED
      BY <2>1, <2>2, WriteOK
  <1>2. CASE ~Exists(id)
    BY <1>2 DEF StoreTypeOK, set_status
  <1> QED
    BY <1>1, <1>2

LEMMA UpdateDesiredOK ==
    ASSUME StoreTypeOK, NEW id \in PeerIds \cup {0}, NEW cfg \in Cfgs, NEW port \in Ports,
           update_peer_desired(id, cfg, port)
    PROVE  /\ rows' \in [PeerIds -> Peer \cup {NoRow}]
           /\ events' \in [Change -> Nat]
  <1>1. CASE Exists(id)
    <2> DEFINE row == [rows[id] EXCEPT !.cfg = cfg, !.port = port, !.status = "provisioning"]
    <2>1. id \in PeerIds => row \in Peer
      BY <1>1 DEF StoreTypeOK, Exists, Peer, Statuses
    <2>2. WriteRow(id, row)
      BY <1>1 DEF update_peer_desired
    <2> QED
      BY <2>1, <2>2, WriteOK
  <1>2. CASE ~Exists(id)
    BY <1>2 DEF StoreTypeOK, update_peer_desired
  <1> QED
    BY <1>1, <1>2

LEMMA EnqueueAllOK ==
    ASSUME StoreTypeOK, NEW ids, NEW op, EnqueueAll(ids, op)
    PROVE  events' \in [Change -> Nat]
  BY DEF StoreTypeOK, EnqueueAll

LEMMA ListingOK ==
    ASSUME NEW table \in [PeerIds -> Peer \cup {NoRow}]
    PROVE  /\ Listing(table) \in SUBSET Listed
           /\ BirdOf(Listing(table)) \in SUBSET BirdConf
           /\ PortsOf(Listing(table)) \in SUBSET Ports
  <1>1. Listing(table) \in SUBSET Listed
    BY DEF Listing, Listed, Wanted, Peer
  <1> QED
    BY <1>1 DEF Listed, BirdOf, BirdConf, PortsOf

LEMMA SnapOK ==
    ASSUME NEW snap \in SUBSET Listed
    PROVE  /\ BirdOf(snap) \in SUBSET BirdConf
           /\ PortsOf(snap) \in SUBSET Ports
  BY DEF Listed, BirdOf, BirdConf, PortsOf

(***************************************************************************)
(* reserve_peer finds a port when there is a free one: the first one, seen *)
(* from the preferred port around the end of the range, is well defined.   *)
(***************************************************************************)
LEMMA FirstPortOK ==
    ASSUME NEW k \in Keys, FreePorts # {}
    PROVE  FirstPort(k) \in FreePorts
  <1> DEFINE Steps == {Increment(k, port) : port \in FreePorts}
  <1>1. NumPorts \in Nat \ {0} /\ Preferred[k] \in 0 .. NumPorts - 1
    BY StoreAssumption DEF Ports
  <1>2. ASSUME NEW port \in FreePorts
        PROVE  Increment(k, port) \in Nat
    <2>1. port \in 0 .. NumPorts - 1
      BY DEF FreePorts, Ports
    <2>2. port + NumPorts - Preferred[k] \in Nat
      BY <1>1, <2>1
    <2> QED
      BY <1>1, <2>2 DEF Increment
  <1>3. Steps # {} /\ Steps \in SUBSET Nat
    BY <1>2
  <1>4. PICK n \in Steps : \A m \in Steps : ~(<<m, n>> \in OpToRel(<, Nat))
    BY <1>3, NatLessThanWellFounded, WFMin
  <1>5. PICK port \in FreePorts : n = Increment(k, port)
    BY <1>4
  <1>6. ASSUME NEW other \in FreePorts
        PROVE  Increment(k, port) <= Increment(k, other)
    <2> DEFINE i == Increment(k, port)
               j == Increment(k, other)
    <2>1. i \in Nat /\ j \in Nat
      BY <1>2
    <2>2. j \in Steps /\ ~(<<j, i>> \in OpToRel(<, Nat))
      BY <1>4, <1>5
    <2> HIDE DEF i, j, Steps
    <2>3. ~(j < i)
      BY <2>1, <2>2 DEF OpToRel
    <2>4. i <= j
      BY <2>1, <2>3
    <2> QED
      BY <2>4 DEF i, j
  <1> QED
    BY <1>5, <1>6 DEF FirstPort

LEMMA EnsuredOK ==
    ASSUME NEW device, NEW cfg \in Cfgs
    PROVE  Ensured(device, cfg) \in Device
  BY DEF Ensured, Device, Blend

(***************************************************************************)
(* The initial states.                                                     *)
(***************************************************************************)
LEMMA InitOK == Init => IndInv
  <1> SUFFICES ASSUME Init PROVE IndInv
    OBVIOUS
  <1>1. StoreTypeOK
    <2>1. rows \in [PeerIds -> Peer \cup {NoRow}]
      BY ManagerAssumption DEF Init
    <2>2. events \in [Change -> Nat]
      BY DEF Init, NoChanges
    <2> QED
      BY <2>1, <2>2 DEF Init, StoreTypeOK
  <1>2. wg \in [PeerIds -> Device \cup {NoIface, Unaliased}]
    BY <1>1 DEF Init, StoreTypeOK, DeviceFor, DeviceOf, Wanted, Device, Peer
  <1>3. bird \in SUBSET BirdConf /\ nft \in SUBSET Ports
    BY <1>1, ListingOK DEF Init, StoreTypeOK
  <1>6. strays \subseteq [by : Requests, conf : SUBSET BirdConf] /\ late \in BOOLEAN
    BY DEF Init
  <1>4. ProcOK
    <2>1. Blank("ready") \in Local /\ Shape(Blank("ready"))
      BY BlankOK DEF Stages, PhasesOf
    <2>2. Blank("ready").phase = "idle"
      BY DEF Blank
    <2> QED
      BY <2>1, <2>2 DEF Init, ProcOK, Owns, Locked, Blank, Plays, RequestStages,
                        ListenerStages, ChangeStages, ReconcilerStages
  <1>5. /\ mode \in Modes
        /\ listed \in [PeerIds -> Peer \cup {NoRow}]
        /\ admin \in 0 .. MaxAdmin
        /\ crashes \in 0 .. MaxCrash
        /\ faulty \in BOOLEAN
    BY ManagerAssumption DEF Init, Modes, NoRows
  <1> QED
    BY <1>1, <1>2, <1>3, <1>4, <1>5, <1>6 DEF IndInv, StateOK

(***************************************************************************)
(* The calls that every function makes.                                    *)
(***************************************************************************)
LEMMA SharedOK ==
    ASSUME IndInv, NEW p \in Procs, SharedStep(p)
    PROVE  IndInv'
  <1> DEFINE me == proc[p]
  <1>1. /\ me \in Local /\ Shape(me)
        /\ me.id \in PeerIds \cup {0} /\ me.port \in Ports /\ me.snap \in SUBSET Listed
    BY DEF IndInv, ProcOK, Local
  <1>2. ASSUME me.phase \in {"ensure", "configure"}
        PROVE  me.cfg \in Cfgs
    BY <1>1, <1>2 DEF Shape, PhasesOf, CfgStages, Local, Stages,
                      ApplyPhases, RemovePhases, NftPhases, BirdPhases
  <1>3. ASSUME NEW f \in Phases \ {"idle", "read"}, NEW ok, NEW ok2, Call(p, f, ok),
               Continue(p, ok2)
        PROVE  ProcOK'
    BY <1>3, ContinueOK DEF Call, IndInv
  <1>4. CASE ConfigureRefused(p)
    BY <1>3, <1>4 DEF ConfigureRefused, Call, IndInv, StateOK, StoreTypeOK, storeVars, Phases
  <1>5. CASE ListPeers(p)
    <2>1. Listing(rows) \in SUBSET Listed
      BY ListingOK DEF IndInv, StateOK, StoreTypeOK
    <2>2. me.phase \in {"bird_list", "nft_list"}
      BY <1>5 DEF ListPeers, Call
    <2>3. Follows(me.stage, me.phase, Branch(p, TRUE))
      BY <1>1, <2>2, FlowOK DEF Branch, Shape, Local
    <2>4. ProcOK'
      BY <1>5, <2>1, <2>2, <2>3, GotoOK DEF ListPeers, IndInv
    <2> QED
      BY <1>5, <2>4 DEF ListPeers, Call, IndInv, StateOK, StoreTypeOK, storeVars
  <1>6. ASSUME NEW ok \in BOOLEAN, Activate(p, ok)
        PROVE  IndInv'
    <2>1. /\ rows' \in [PeerIds -> Peer \cup {NoRow}]
          /\ events' \in [Change -> Nat]
      BY <1>1, <1>6, SetStatusOK DEF Activate, IndInv, StateOK, Statuses
    <2>2. ProcOK'
      BY <1>3, <1>6 DEF Activate, Phases
    <2> QED
      BY <1>6, <2>1, <2>2 DEF Activate, Call, IndInv, StateOK, StoreTypeOK
  <1>7. ASSUME NEW ok \in BOOLEAN, DropRow(p, ok)
        PROVE  IndInv'
    <2>1. /\ rows' \in [PeerIds -> Peer \cup {NoRow}]
          /\ events' \in [Change -> Nat]
      BY <1>1, <1>7, DeleteRowOK DEF DropRow, IndInv, StateOK
    <2>2. ProcOK'
      BY <1>3, <1>7 DEF DropRow, Phases
    <2> QED
      BY <1>7, <2>1, <2>2 DEF DropRow, Call, IndInv, StateOK, StoreTypeOK
  <1>8. ASSUME NEW ok \in BOOLEAN, EnsureInterface(p, ok)
        PROVE  IndInv'
    <2>1. me.cfg \in Cfgs
      BY <1>2, <1>8 DEF EnsureInterface, Call
    <2>2. wg' \in [PeerIds -> Device \cup {NoIface, Unaliased}]
      <3>1. \A device \in Device \cup {NoIface, Unaliased} : Ensured(device, me.cfg) \in Device
        BY <2>1, EnsuredOK
      <3> QED
        BY <1>8, <3>1 DEF EnsureInterface, IndInv, StateOK
    <2>3. ProcOK'
      BY <1>3, <1>8 DEF EnsureInterface, Phases
    <2> QED
      BY <1>8, <2>2, <2>3 DEF EnsureInterface, Call, IndInv, StateOK, StoreTypeOK, storeVars
  <1>9. ASSUME NEW ok \in BOOLEAN, Configure(p, ok)
        PROVE  IndInv'
    <2>1. me.cfg \in Cfgs
      BY <1>2, <1>9 DEF Configure, Call
    <2> DEFINE d == [cfg |-> IF ok THEN me.cfg ELSE Blend(wg[me.id].cfg, me.cfg),
                     port |-> me.port]
    <2>2. d \in Device
      BY <1>1, <2>1 DEF Device, Blend
    <2>3. wg' = [wg EXCEPT ![me.id] = d]
      BY <1>9 DEF Configure
    <2>4. wg' \in [PeerIds -> Device \cup {NoIface, Unaliased}]
      BY <2>2, <2>3 DEF IndInv, StateOK
    <2>5. ProcOK'
      BY <1>3, <1>9 DEF Configure, Phases
    <2> QED
      BY <1>9, <2>4, <2>5 DEF Configure, Call, IndInv, StateOK, StoreTypeOK, storeVars
  <1>10. ASSUME NEW ok \in BOOLEAN, RemoveInterface(p, ok)
         PROVE  IndInv'
    <2>1. wg' \in [PeerIds -> Device \cup {NoIface, Unaliased}]
      BY <1>10 DEF RemoveInterface, IndInv, StateOK
    <2>2. ProcOK'
      BY <1>3, <1>10 DEF RemoveInterface, Phases
    <2> QED
      BY <1>10, <2>1, <2>2 DEF RemoveInterface, Call, IndInv, StateOK, StoreTypeOK, storeVars
  <1>11. ASSUME NEW ok \in BOOLEAN, SyncBird(p, ok)
         PROVE  IndInv'
    <2>1. bird' \in SUBSET BirdConf
      BY <1>1, <1>11, SnapOK DEF SyncBird, Synced
    <2>3. late' \in BOOLEAN /\ UNCHANGED strays
      BY <1>11 DEF SyncBird, Synced
    <2>2. ProcOK'
      BY <1>3, <1>11 DEF SyncBird, Phases
    <2> QED
      BY <1>11, <2>1, <2>2, <2>3 DEF SyncBird, Call, IndInv, StateOK, StoreTypeOK, storeVars
  <1>12. ASSUME NEW ok \in BOOLEAN, SyncNft(p, ok)
         PROVE  IndInv'
    <2>1. nft' \in SUBSET Ports
      BY <1>1, <1>12, SnapOK DEF SyncNft
    <2>2. ProcOK'
      BY <1>3, <1>12 DEF SyncNft, Phases
    <2> QED
      BY <1>12, <2>1, <2>2 DEF SyncNft, Call, IndInv, StateOK, StoreTypeOK, storeVars
  <1> QED
    BY <1>4, <1>5, <1>6, <1>7, <1>8, <1>9, <1>10, <1>11, <1>12 DEF SharedStep

(***************************************************************************)
(* A process whose own state changes while no lock does.                   *)
(***************************************************************************)
LEMMA LocalOK ==
    ASSUME ProcOK, NEW p \in Procs, NEW l \in Local, Shape(l), Plays(p, l.stage),
           l.key = NoKey \/ (l.key = proc[p].key /\ Locked(proc[p].phase)),
           proc' = [proc EXCEPT ![p] = l], UNCHANGED peerLock
    PROVE  ProcOK'
  <1>1. proc' \in [Procs -> Local] /\ peerLock' \in [Keys -> Procs \cup {Free}]
    BY DEF ProcOK
  <1>2. ASSUME NEW q \in Procs
        PROVE  Shape(proc[q])' /\ Plays(q, proc[q].stage)' /\ Owns(q)'
    <2>1. CASE q = p
      <3>1. proc'[q] = l
        BY <2>1 DEF ProcOK
      <3>2. Shape(proc'[q])
        BY <3>1
      <3> QED
        BY <2>1, <3>1, <3>2 DEF ProcOK, Owns, Shape, Plays
    <2>2. CASE q # p
      <3>1. proc'[q] = proc[q]
        BY <2>2 DEF ProcOK
      <3> QED
        BY <3>1 DEF ProcOK, Owns, Shape, Plays
    <2> QED
      BY <2>1, <2>2
  <1> QED
    BY <1>1, <1>2 DEF ProcOK

(***************************************************************************)
(* A process that gets a free lock.                                        *)
(***************************************************************************)
LEMMA AcquireOK ==
    ASSUME ProcOK, NEW p \in Procs, NEW l \in Local, Shape(l), Plays(p, l.stage),
           l.key \in Keys, peerLock[l.key] = Free,
           proc' = [proc EXCEPT ![p] = l], peerLock' = [peerLock EXCEPT ![l.key] = p]
    PROVE  ProcOK'
  <1>1. proc' \in [Procs -> Local] /\ peerLock' \in [Keys -> Procs \cup {Free}]
    BY DEF ProcOK
  <1>2. ASSUME NEW q \in Procs
        PROVE  Shape(proc[q])' /\ Plays(q, proc[q].stage)' /\ Owns(q)'
    <2>1. CASE q = p
      <3>1. proc'[q] = l /\ peerLock'[l.key] = p
        BY <2>1 DEF ProcOK
      <3>2. Shape(proc'[q])
        BY <3>1
      <3> QED
        BY <2>1, <3>1, <3>2 DEF Owns, Shape, Plays
    <2>2. CASE q # p
      <3>1. proc'[q] = proc[q]
        BY <2>2 DEF ProcOK
      <3>2. q # Free
        BY ManagerAssumption
      <3>3. ASSUME Locked(proc[q].phase), proc[q].key # NoKey
            PROVE  peerLock'[proc[q].key] = q
        <4>1. peerLock[proc[q].key] = q /\ proc[q].key \in Keys
          BY <3>3 DEF ProcOK, Owns, Local
        <4> QED
          BY <3>2, <4>1 DEF ProcOK
      <3> QED
        BY <3>1, <3>3 DEF ProcOK, Owns, Shape, Plays
    <2> QED
      BY <2>1, <2>2
  <1> QED
    BY <1>1, <1>2 DEF ProcOK

(***************************************************************************)
(* The steps of a request.                                                 *)
(***************************************************************************)
LEMMA RequestOK ==
    ASSUME IndInv, NEW r \in Requests, RequestStep(r)
    PROVE  IndInv'
  <1> DEFINE me == proc[r]
  <1>1. /\ r \in Procs /\ me \in Local /\ Shape(me) /\ Plays(r, me.stage)
        /\ me.id \in PeerIds \cup {0} /\ me.port \in Ports
    BY DEF IndInv, ProcOK, Local, Procs
  <1>2. ASSUME NEW f \in Phases \ {"idle", "read"}, NEW ok, NEW ok2, Call(r, f, ok),
               Continue(r, ok2)
        PROVE  ProcOK'
    BY <1>1, <1>2, ContinueOK DEF Call, IndInv
  <1>3. ASSUME me.phase = "reserve"
        PROVE  me.stage = "create" /\ me.cfg \in Cfgs /\ me.key \in Keys
    <2>1. me.stage = "create"
      BY <1>1, <1>3 DEF Shape, PhasesOf, Local, Stages,
                        ApplyPhases, RemovePhases, NftPhases, BirdPhases
    <2> QED
      BY <1>1, <1>3, <2>1 DEF Shape, CfgStages, Local
  <1>4. ASSUME NEW answer \in {"failed", "tested"}, ReserveNothing(r, answer)
        PROVE  IndInv'
    <2>1. me.phase = "reserve" /\ nextId \in PeerIds
      BY <1>4 DEF ReserveNothing, Call
    <2>2. Follows(me.stage, me.phase, Return(answer))
      BY <1>3, <2>1, ReturnOK DEF RequestStages
    <2>3. ProcOK'
      BY <1>1, <1>4, <2>1, <2>2, GotoOK DEF ReserveNothing, IndInv
    <2>4. nextId' \in 1 .. MaxId + 1
      BY <1>4, <2>1, StoreAssumption DEF ReserveNothing, PeerIds
    <2> QED
      BY <1>4, <2>3, <2>4 DEF ReserveNothing, Call, IndInv, StateOK, StoreTypeOK
  <1>5. CASE ReserveRefused(r)
    BY <1>2, <1>5 DEF ReserveRefused, Call, IndInv, StateOK, StoreTypeOK, storeVars, Phases
  <1>6. CASE ReadPeer(r)
    <2> DEFINE id == IdOf(me.key)
               found == KeyTaken(me.key) /\ (me.stage = "update" => rows[id].status # "deleting")
    <2>1. me.phase = "read"
      BY <1>6 DEF ReadPeer, Call
    <2>2. CASE found
      <3> DEFINE t == Branch(r, TRUE)
                 l == [Moved(me, t, {}) EXCEPT
                         !.id = id, !.port = rows[id].port, !.old = rows[id].cfg]
      <3>1. id \in PeerIds /\ rows[id] # NoRow
        BY <2>2 DEF KeyTaken, IdOf, Exists
      <3>2. rows[id].port \in Ports /\ rows[id].cfg \in Cfgs
        BY <3>1 DEF IndInv, StateOK, StoreTypeOK, Peer
      <3>3. me.stage \in {"update", "delete"}
        BY <1>1, <2>1 DEF Shape, PhasesOf, RequestStages, Plays,
                          ApplyPhases, RemovePhases, NftPhases, BirdPhases
      <3>4. /\ t.stage = me.stage
            /\ t.phase = IF me.stage = "update" THEN "desire" ELSE "mark"
        BY <2>1, <3>3, FirstSteps DEF Branch, At
      <3>5. proc' = [proc EXCEPT ![r] = l] /\ UNCHANGED peerLock
        BY <1>6, <2>2 DEF ReadPeer
      <3>6. l = [me EXCEPT !.stage = me.stage, !.snap = {}, !.id = id,
                           !.phase = IF me.stage = "update" THEN "desire" ELSE "mark",
                           !.port = rows[id].port, !.cfg = me.cfg, !.old = rows[id].cfg]
        BY <1>1, <3>3, <3>4 DEF Moved, Local
      <3> HIDE DEF l
      <3>7. l \in Local /\ l.key = me.key /\ l.stage = me.stage /\ Shape(l)
        BY <1>1, <2>1, <3>1, <3>2, <3>3, <3>6
           DEF Local, Shape, PhasesOf, CfgStages, OldStages, ChangeStages, Phases
      <3>8. ProcOK'
        BY <1>1, <2>1, <3>5, <3>7, LocalOK DEF IndInv, Locked
      <3> QED
        BY <1>6, <3>8 DEF ReadPeer, Call, IndInv, StateOK, StoreTypeOK, storeVars
    <2>3. CASE ~found
      <3>1. Continue(r, FALSE)
        BY <1>6, <2>3 DEF ReadPeer
      <3>2. ProcOK'
        BY <1>1, <2>1, <3>1, ContinueOK DEF IndInv
      <3> QED
        BY <1>6, <3>2 DEF ReadPeer, Call, IndInv, StateOK, StoreTypeOK, storeVars
    <2> QED
      BY <2>2, <2>3
  <1>7. ASSUME NEW ok \in BOOLEAN, ReservePeer(r, ok)
        PROVE  IndInv'
    <2> DEFINE port == FirstPort(me.key)
               row == [key |-> me.key, cfg |-> me.cfg, port |-> port,
                       status |-> "provisioning"]
    <2>1. me.phase = "reserve" /\ nextId \in PeerIds
      BY <1>7 DEF ReservePeer, Call
    <2>2. me.stage = "create" /\ me.cfg \in Cfgs /\ me.key \in Keys
      BY <1>3, <2>1
    <2>3. port \in Ports
      BY <1>7, <2>2, FirstPortOK DEF ReservePeer, FreePorts
    <2> HIDE DEF port
    <2>4. row \in Peer
      BY <2>2, <2>3 DEF Peer, Statuses
    <2>5. /\ rows' \in [PeerIds -> Peer \cup {NoRow}]
          /\ events' \in [Change -> Nat]
      BY <1>7, <2>1, <2>4, WriteOK DEF ReservePeer, Insert, port, IndInv, StateOK
    <2>6. nextId' \in 1 .. MaxId + 1
      BY <1>7, <2>1, StoreAssumption DEF ReservePeer, Insert, PeerIds
    <2>7. CASE ok
      <3> DEFINE l == [Moved(me, Branch(r, TRUE), {}) EXCEPT !.id = nextId, !.port = port]
      <3>1. proc' = [proc EXCEPT ![r] = l] /\ UNCHANGED peerLock
        BY <1>7, <2>7 DEF ReservePeer, port
      <3>2. Branch(r, TRUE).stage = "create" /\ Branch(r, TRUE).phase = "ensure"
        BY <2>1, <2>2, FirstSteps DEF Branch, At
      <3>3. l = [me EXCEPT !.stage = "create", !.phase = "ensure", !.snap = {},
                           !.cfg = me.cfg, !.id = nextId, !.port = port]
        BY <1>1, <3>2 DEF Moved, Local
      <3> HIDE DEF l
      <3>4. l \in Local /\ l.key = me.key /\ l.stage = me.stage /\ Shape(l)
        BY <1>1, <2>1, <2>2, <2>3, <3>3
           DEF Local, Shape, PhasesOf, ApplyPhases, CfgStages, OldStages, ChangeStages, Phases, Stages
      <3>5. ProcOK'
        BY <1>1, <2>1, <3>1, <3>4, LocalOK DEF IndInv, Locked
      <3> QED
        BY <1>7, <2>5, <2>6, <3>5 DEF ReservePeer, Call, IndInv, StateOK, StoreTypeOK
    <2>8. CASE ~ok
      <3>1. ProcOK'
        BY <1>2, <1>7, <2>8 DEF ReservePeer, Phases
      <3> QED
        BY <1>7, <2>5, <2>6, <3>1 DEF ReservePeer, Call, IndInv, StateOK, StoreTypeOK
    <2> QED
      BY <2>7, <2>8
  <1>8. ASSUME NEW ok \in BOOLEAN, StoreDesired(r, ok)
        PROVE  IndInv'
    <2>1. me.phase = "desire"
      BY <1>8 DEF StoreDesired, Call
    <2>2. me.cfg \in Cfgs
      BY <1>1, <2>1 DEF Shape, PhasesOf, CfgStages, Local, Stages,
                        ApplyPhases, RemovePhases, NftPhases, BirdPhases
    <2>3. /\ rows' \in [PeerIds -> Peer \cup {NoRow}]
          /\ events' \in [Change -> Nat]
      BY <1>1, <1>8, <2>2, UpdateDesiredOK DEF StoreDesired, IndInv, StateOK
    <2>4. ProcOK'
      BY <1>2, <1>8 DEF StoreDesired, Phases
    <2> QED
      BY <1>8, <2>3, <2>4 DEF StoreDesired, Call, IndInv, StateOK, StoreTypeOK
  <1>9. ASSUME NEW ok \in BOOLEAN, MarkDeleting(r, ok)
        PROVE  IndInv'
    <2>1. /\ rows' \in [PeerIds -> Peer \cup {NoRow}]
          /\ events' \in [Change -> Nat]
      BY <1>1, <1>9, SetStatusOK DEF MarkDeleting, IndInv, StateOK, Statuses
    <2>2. ProcOK'
      BY <1>2, <1>9 DEF MarkDeleting, Phases
    <2> QED
      BY <1>9, <2>1, <2>2 DEF MarkDeleting, Call, IndInv, StateOK, StoreTypeOK
  <1> QED
    BY <1>4, <1>5, <1>6, <1>7, <1>8, <1>9 DEF RequestStep

(***************************************************************************)
(* The steps with which a process starts, or stops early.                  *)
(***************************************************************************)
LEMMA BeginOK ==
    ASSUME IndInv, NEW r \in Requests, NEW op \in {"create", "update", "delete"},
           NEW k \in Keys, NEW c \in Cfgs \cup {NoCfg}, Begin(r, op, k, c)
    PROVE  IndInv'
  <1> DEFINE l == [Blank(op) EXCEPT !.key = k, !.cfg = c,
                      !.phase = IF op = "create" THEN "reserve" ELSE "read"]
  <1>1. 0 \in Ports /\ k # NoKey
    BY StoreAssumption, ManagerAssumption DEF Ports
  <1>2. l \in Local /\ l.key = k /\ l.stage = op /\ Shape(l)
    BY <1>1 DEF Begin, Blank, Local, Stages, Phases, Shape, PhasesOf, CfgStages, OldStages,
       ChangeStages
  <1>3. Plays(r, op)
    BY ManagerAssumption DEF Plays, RequestStages
  <1>4. proc' = [proc EXCEPT ![r] = l]
    BY DEF Begin
  <1> HIDE DEF l
  <1>5. ProcOK'
    BY <1>2, <1>3, <1>4, AcquireOK DEF Begin, IndInv, Procs
  <1> QED
    BY <1>5 DEF Begin, IndInv, StateOK, StoreTypeOK, storeVars

LEMMA FailOK ==
    ASSUME IndInv, NEW p \in Procs, Fail(p)
    PROVE  IndInv'
  <1>1. ProcOK'
    BY ContinueOK DEF Fail, Busy, IndInv
  <1> QED
    BY <1>1 DEF Fail, IndInv, StateOK, StoreTypeOK, storeVars

LEMMA CancelOK ==
    ASSUME IndInv, NEW r \in Requests, Cancel(r)
    PROVE  IndInv'
  <1>1. r \in Procs /\ proc[r].phase # "idle" /\ Plays(r, proc[r].stage)
    BY DEF Cancel, Busy, Procs, IndInv, ProcOK
  <1>2. proc[r].stage \in RequestStages \ {"ready"}
    BY <1>1 DEF IndInv, ProcOK, Shape, PhasesOf, Plays, RequestStages
  <1>3. Follows(proc[r].stage, proc[r].phase, Return("failed"))
    BY <1>2, ReturnOK
  <1>4. ProcOK'
    BY <1>1, <1>3, GotoOK DEF Cancel, Return, At, IndInv
  <1> QED
    BY <1>4 DEF Cancel, IndInv, StateOK, StoreTypeOK, storeVars

LEMMA ProcKept ==
    ASSUME ProcOK, UNCHANGED <<proc, peerLock>>
    PROVE  ProcOK'
  BY DEF ProcOK, Shape, Owns, Plays

\* A request that is dropped in a rename, and the rename it leaves behind.
LEMMA RenameOK ==
    ASSUME IndInv
    PROVE  /\ \A r \in Requests : CancelRename(r) => IndInv'
           /\ \A s \in strays : LateRename(s) => IndInv'
  <1>1. ASSUME NEW r \in Requests, CancelRename(r)
        PROVE  IndInv'
    <2>1. r \in Procs /\ proc[r].phase = "bird_sync" /\ Plays(r, proc[r].stage)
      BY <1>1 DEF CancelRename, Procs, IndInv, ProcOK
    <2>2. proc[r].stage \in RequestStages \ {"ready"}
      BY <2>1 DEF IndInv, ProcOK, Shape, PhasesOf, Plays, RequestStages
    <2>3. Follows(proc[r].stage, proc[r].phase, Return("failed"))
      BY <2>2, ReturnOK
    <2>4. ProcOK'
      BY <1>1, <2>1, <2>3, GotoOK DEF CancelRename, Return, At, IndInv
    <2> DEFINE want == BirdOf(proc[r].snap)
    <2>5. want \in SUBSET BirdConf /\ bird \in SUBSET BirdConf
      BY <2>1, SnapOK DEF IndInv, StateOK, ProcOK, Local
    <2>6. /\ bird' \in SUBSET BirdConf
          /\ strays' \subseteq [by : Requests, conf : SUBSET BirdConf]
      <3>1. CASE strays' = strays \cup {[by |-> r, conf |-> want]} /\ UNCHANGED bird
        BY <2>5, <3>1 DEF IndInv, StateOK
      <3>2. CASE strays' = strays \cup {[by |-> r, conf |-> bird]} /\ bird' = want
        BY <2>5, <3>2 DEF IndInv, StateOK
      <3> QED
        BY <1>1, <3>1, <3>2 DEF CancelRename
    <2> QED
      BY <1>1, <2>4, <2>6 DEF CancelRename, IndInv, StateOK, StoreTypeOK, storeVars
  <1>2. ASSUME NEW s \in strays, LateRename(s)
        PROVE  IndInv'
    <2>1. s.conf \in SUBSET BirdConf
      BY DEF IndInv, StateOK
    <2>2. /\ bird' \in SUBSET BirdConf
          /\ strays' \subseteq [by : Requests, conf : SUBSET BirdConf]
          /\ late' \in BOOLEAN
      BY <1>2, <2>1 DEF LateRename, IndInv, StateOK
    <2>3. ProcOK'
      BY <1>2, ProcKept DEF LateRename, IndInv
    <2> QED
      BY <1>2, <2>2, <2>3 DEF LateRename, IndInv, StateOK, StoreTypeOK, storeVars
  <1> QED
    BY <1>1, <1>2

LEMMA TickOK ==
    ASSUME IndInv, NEW p \in Reconcilers, Tick(p)
    PROVE  IndInv'
  <1> DEFINE l == [Blank("reconcile") EXCEPT !.phase = "nft_list"]
  <1>1. 0 \in Ports
    BY StoreAssumption DEF Ports
  <1>2. l \in Local /\ l.key = NoKey /\ Shape(l) /\ l.stage = "reconcile"
    BY <1>1 DEF Blank, Local, Stages, Phases, Shape, PhasesOf, NftPhases, CfgStages, OldStages,
       ChangeStages
  <1>3. Plays(p, "reconcile")
    BY ManagerAssumption DEF Plays, ReconcilerStages
  <1>4. proc' = [proc EXCEPT ![p] = l]
    BY DEF Tick
  <1> HIDE DEF l
  <1>5. ProcOK'
    BY <1>2, <1>3, <1>4, LocalOK DEF Tick, IndInv, Procs
  <1> QED
    BY <1>5 DEF Tick, IndInv, StateOK, StoreTypeOK, storeVars

(***************************************************************************)
(* The listener.                                                           *)
(***************************************************************************)
LEMMA ListenerOK ==
    ASSUME IndInv, ListenerStep
    PROVE  IndInv'
  <1> DEFINE me == proc[Listener]
  <1>1. Listener \in Procs /\ Listener \notin Requests \cup Reconcilers
    BY ManagerAssumption DEF Procs
  <1>2. /\ me \in Local /\ Shape(me) /\ Plays(Listener, me.stage)
        /\ me.id \in PeerIds \cup {0}
    BY <1>1 DEF IndInv, ProcOK, Local
  <1>3. ASSUME NEW c \in Change, TakeChange(c)
        PROVE  IndInv'
    <2> DEFINE l == [Blank("change") EXCEPT !.phase = "read", !.key = c.key,
                                            !.id = c.id, !.op = c.op]
    <2>1. 0 \in Ports /\ c.key \in Keys /\ c.key # NoKey
      BY StoreAssumption, ManagerAssumption DEF Ports, Change
    <2>2. l \in Local /\ l.key = c.key /\ l.stage = "change" /\ Shape(l)
      BY <2>1 DEF Blank, Local, Stages, Phases, Shape, PhasesOf, CfgStages, OldStages,
         ChangeStages, Change
    <2>3. Plays(Listener, "change")
      BY <1>1 DEF Plays, ListenerStages, ChangeStages
    <2>4. proc' = [proc EXCEPT ![Listener] = l]
      BY <1>3 DEF TakeChange
    <2> HIDE DEF l
    <2>5. ProcOK'
      BY <1>1, <1>3, <2>1, <2>2, <2>3, <2>4, AcquireOK DEF TakeChange, IndInv
    <2> QED
      BY <1>3, <2>5 DEF TakeChange, IndInv, StateOK, StoreTypeOK, storeVars
  <1>4. CASE ReadChange
    <2> DEFINE row == rows[me.id]
               stage == ChangeStage(row)
               l == [me EXCEPT
                      !.stage = stage,
                      !.phase = IF stage \in {"reapply", "promote"} THEN "ensure" ELSE "bird_list",
                      !.port = IF row = NoRow THEN 0 ELSE row.port,
                      !.cfg = IF row = NoRow THEN NoCfg ELSE row.cfg]
    <2>1. me.phase = "read" /\ me.stage = "change"
      BY <1>1, <1>2, <1>4 DEF ReadChange, Call, Shape, PhasesOf, Plays, ListenerStages,
         ChangeStages,
                         ApplyPhases, RemovePhases, NftPhases, BirdPhases
    <2>2. /\ stage \in {"withdraw", "purge", "reapply", "promote"}
          /\ row = NoRow => stage = "withdraw"
      BY DEF ChangeStage
    <2>3. me.id \in PeerIds
      BY <1>2, <2>1 DEF Shape, ChangeStages
    <2>4. row = NoRow \/ (row.port \in Ports /\ row.cfg \in Cfgs)
      BY <2>3 DEF IndInv, StateOK, StoreTypeOK, Peer
    <2>5. proc' = [proc EXCEPT ![Listener] = l] /\ UNCHANGED peerLock
      BY <1>4 DEF ReadChange
    <2> HIDE DEF stage, row
    <2>6. l \in Local /\ l.key = me.key /\ l.stage = stage /\ l.phase # "idle"
      <3>1. stage \in Stages /\ "ensure" \in Phases /\ "bird_list" \in Phases /\ 0 \in Ports
        BY <2>2, StoreAssumption DEF Stages, Phases, Ports
      <3> QED
        BY <1>2, <2>4, <3>1 DEF Local
    <2>7. Shape(l)
      BY <1>2, <2>1, <2>2, <2>4
         DEF Local, Shape, PhasesOf, CfgStages, OldStages, ChangeStages, Stages, Phases,
             ApplyPhases, RemovePhases, BirdPhases
    <2>8. Plays(Listener, stage)
      BY <1>1, <2>2 DEF Plays, ListenerStages, ChangeStages
    <2> HIDE DEF l
    <2>9. ProcOK'
      BY <1>1, <2>1, <2>5, <2>6, <2>7, <2>8, LocalOK DEF IndInv, Locked
    <2> QED
      BY <1>4, <2>9 DEF ReadChange, Call, IndInv, StateOK, StoreTypeOK, storeVars
  <1>5. ASSUME NEW ok \in BOOLEAN, Ack(ok)
        PROVE  IndInv'
    <2> DEFINE c == [id |-> me.id, key |-> me.key, op |-> me.op]
    <2>1. events' = [events EXCEPT ![c] = IF events[c] > 0 THEN events[c] - 1 ELSE 0]
      BY <1>5 DEF Ack, delete_peer_change
    <2> HIDE DEF c
    <2>2. events' \in [Change -> Nat]
      <3>1. c \in Change => (IF events[c] > 0 THEN events[c] - 1 ELSE 0) \in Nat
        BY DEF IndInv, StateOK, StoreTypeOK
      <3>2. events \in [Change -> Nat]
        BY DEF IndInv, StateOK, StoreTypeOK
      <3> QED
        BY <2>1, <3>1, <3>2
    <2>3. ProcOK'
      BY <1>1, <1>5, ContinueOK DEF Ack, Call, IndInv
    <2> QED
      BY <1>5, <2>2, <2>3 DEF Ack, Call, delete_peer_change, IndInv, StateOK, StoreTypeOK
  <1> QED
    BY <1>3, <1>4, <1>5 DEF ListenerStep

(***************************************************************************)
(* What happens outside of the service.                                    *)
(***************************************************************************)
LEMMA AdminOK ==
    ASSUME IndInv, NEW id \in PeerIds, AdminWrite(id)
    PROVE  IndInv'
  <1>1. /\ rows' \in [PeerIds -> Peer \cup {NoRow}]
        /\ events' \in [Change -> Nat]
    <2>1. ASSUME NEW status \in {"disabled", "provisioning"}, set_status(id, status)
          PROVE  /\ rows' \in [PeerIds -> Peer \cup {NoRow}]
                 /\ events' \in [Change -> Nat]
      BY <2>1, SetStatusOK DEF IndInv, StateOK, Statuses
    <2>2. ASSUME NEW c \in Cfgs, WriteRow(id, [rows[id] EXCEPT !.cfg = c])
          PROVE  /\ rows' \in [PeerIds -> Peer \cup {NoRow}]
                 /\ events' \in [Change -> Nat]
      <3>1. [rows[id] EXCEPT !.cfg = c] \in Peer
        BY DEF AdminWrite, Exists, IndInv, StateOK, StoreTypeOK, Peer
      <3> QED
        BY <2>2, <3>1, WriteOK DEF IndInv, StateOK
    <2>3. ASSUME delete_row(id)
          PROVE  /\ rows' \in [PeerIds -> Peer \cup {NoRow}]
                 /\ events' \in [Change -> Nat]
      BY <2>3, DeleteRowOK DEF IndInv, StateOK
    <2> QED
      BY <2>1, <2>2, <2>3 DEF AdminWrite
  <1>2. admin' \in 0 .. MaxAdmin
    BY ManagerAssumption DEF AdminWrite, IndInv, StateOK
  <1>3. ProcOK'
    BY ProcKept DEF AdminWrite, IndInv
  <1> QED
    BY <1>1, <1>2, <1>3 DEF AdminWrite, IndInv, StateOK, StoreTypeOK

LEMMA FirewallOK ==
    ASSUME IndInv, FirewallReload
    PROVE  IndInv'
  <1>1. admin' \in 0 .. MaxAdmin
    BY ManagerAssumption DEF FirewallReload, IndInv, StateOK
  <1>2. ProcOK'
    BY ProcKept DEF FirewallReload, IndInv
  <1> QED
    BY <1>1, <1>2 DEF FirewallReload, IndInv, StateOK, StoreTypeOK, storeVars

LEMMA CrashOK ==
    ASSUME IndInv, NEW reboot \in BOOLEAN, Crash(reboot)
    PROVE  IndInv'
  <1>1. ASSUME NEW p \in Procs
        PROVE  /\ Stopped(p) \in Local /\ Shape(Stopped(p)) /\ Plays(p, Stopped(p).stage)
               /\ Stopped(p).phase = "idle"
    <2>1. CASE Busy(p)
      <3> DEFINE s == IF p \in Requests THEN "failed" ELSE "ready"
      <3>1. s \in Stages /\ "idle" \in PhasesOf(s) /\ Plays(p, s)
        BY ManagerAssumption DEF Stages, PhasesOf, Plays, RequestStages, ListenerStages,
           ChangeStages,
                                 ReconcilerStages
      <3> QED
        BY <2>1, <3>1, BlankOK DEF Stopped, Blank
    <2>2. CASE ~Busy(p)
      BY <2>2 DEF Stopped, Busy, IndInv, ProcOK
    <2> QED
      BY <2>1, <2>2
  <1>2. ProcOK'
    <2>1. proc' \in [Procs -> Local] /\ peerLock' \in [Keys -> Procs \cup {Free}]
      BY <1>1 DEF Crash
    <2>2. ASSUME NEW p \in Procs
          PROVE  Shape(proc[p])' /\ Plays(p, proc[p].stage)' /\ Owns(p)'
      <3>1. proc'[p] = Stopped(p)
        BY DEF Crash
      <3> QED
        BY <1>1, <3>1 DEF Owns, Locked, Shape, Plays
    <2> QED
      BY <2>1, <2>2 DEF ProcOK
  <1>3. crashes' \in 0 .. MaxCrash
    BY ManagerAssumption DEF Crash, IndInv, StateOK
  <1>4. /\ wg' \in [PeerIds -> Device \cup {NoIface, Unaliased}]
        /\ bird' \in SUBSET BirdConf
        /\ nft' \in SUBSET Ports
        /\ strays' \subseteq [by : Requests, conf : SUBSET BirdConf]
        /\ late' \in BOOLEAN
    BY DEF Crash, IndInv, StateOK
  <1> QED
    BY <1>2, <1>3, <1>4 DEF Crash, IndInv, StateOK, StoreTypeOK, storeVars, Modes

(***************************************************************************)
(* Recovery.                                                               *)
(***************************************************************************)
LEMMA RecoveringOK ==
    ASSUME IndInv, NEW step \in Modes, NEW next \in Modes, NEW ok, Recovering(step, next, ok)
    PROVE  /\ ProcOK' /\ mode' \in Modes /\ admin' \in 0 .. MaxAdmin /\ faulty' \in BOOLEAN
           /\ listed' \in [PeerIds -> Peer \cup {NoRow}]
           /\ nextId' \in 1 .. MaxId + 1
  <1>1. ProcOK'
    BY ProcKept DEF Recovering, IndInv
  <1> QED
    BY <1>1 DEF Recovering, NoRows, Modes, IndInv, StateOK, StoreTypeOK

LEMMA SweepOK ==
    ASSUME IndInv, NEW step \in Modes, NEW next \in Modes, NEW ids, NEW ok,
           RecoverSweep(step, next, ids, ok)
    PROVE  IndInv'
  <1>1. /\ ProcOK' /\ mode' \in Modes /\ admin' \in 0 .. MaxAdmin /\ faulty' \in BOOLEAN
        /\ listed' \in [PeerIds -> Peer \cup {NoRow}]
        /\ nextId' \in 1 .. MaxId + 1
    BY RecoveringOK DEF RecoverSweep
  <1>2. wg' \in [PeerIds -> Device \cup {NoIface, Unaliased}]
    <2>1. PICK done : wg' = [id \in PeerIds |-> IF id \in done THEN NoIface ELSE wg[id]]
      BY DEF RecoverSweep
    <2> QED
      BY <2>1 DEF IndInv, StateOK
  <1> QED
    BY <1>1, <1>2 DEF RecoverSweep, IndInv, StateOK, StoreTypeOK

LEMMA RecoverOK ==
    ASSUME IndInv, RecoverStep
    PROVE  IndInv'
  <1>1. /\ listed \in [PeerIds -> Peer \cup {NoRow}]
        /\ Desired \in SUBSET PeerIds
        /\ \A id \in Desired : listed[id].cfg \in Cfgs /\ listed[id].port \in Ports
    BY DEF IndInv, StateOK, Desired, Wanted, Peer
  <1>2. CASE Restart \/ RecoverList
    <2>1. ProcOK'
      BY <1>2, ProcKept DEF Restart, RecoverList, IndInv
    <2> QED
      BY <1>2, <2>1 DEF Restart, RecoverList, IndInv, StateOK, StoreTypeOK, storeVars, Modes
  <1>3. CASE RecoverFail
    <2>1. PICK step \in Modes \ {"up", "down"} : Recovering(step, step, FALSE)
      BY <1>3 DEF RecoverFail
    <2>2. /\ ProcOK' /\ mode' \in Modes /\ admin' \in 0 .. MaxAdmin /\ faulty' \in BOOLEAN
          /\ listed' \in [PeerIds -> Peer \cup {NoRow}]
          /\ nextId' \in 1 .. MaxId + 1
      BY <2>1, RecoveringOK
    <2> QED
      BY <1>3, <2>2 DEF RecoverFail, IndInv, StateOK, StoreTypeOK
  <1>4. ASSUME NEW ok \in BOOLEAN, RecoverWireguard(ok)
        PROVE  IndInv'
    <2>1. /\ ProcOK' /\ mode' \in Modes /\ admin' \in 0 .. MaxAdmin /\ faulty' \in BOOLEAN
          /\ listed' \in [PeerIds -> Peer \cup {NoRow}]
          /\ nextId' \in 1 .. MaxId + 1
      BY <1>4, RecoveringOK DEF RecoverWireguard, Modes
    <2> DEFINE clear == {id \in Desired : ~PortClash(id, listed[id].port)}
    <2>2. PICK done \in IF ok THEN {Desired} ELSE SUBSET clear :
          \E half \in IF ok THEN {0} ELSE {0} \cup (Desired \ done) :
          \E device \in IF half = 0 THEN {NoIface}
                     ELSE {Ensured(wg[half], listed[half].cfg)}
                          \cup (IF wg[half] = NoIface THEN {Unaliased} ELSE {}) :
            wg' = [id \in PeerIds |-> CASE id = half   -> device
                                        [] id \in done  -> DeviceOf(listed[id])
                                        [] OTHER        -> wg[id]]
      BY <1>4 DEF RecoverWireguard
    <2>3. PICK half \in IF ok THEN {0} ELSE {0} \cup (Desired \ done) :
          \E device \in IF half = 0 THEN {NoIface}
                     ELSE {Ensured(wg[half], listed[half].cfg)}
                          \cup (IF wg[half] = NoIface THEN {Unaliased} ELSE {}) :
            wg' = [id \in PeerIds |-> CASE id = half   -> device
                                        [] id \in done  -> DeviceOf(listed[id])
                                        [] OTHER        -> wg[id]]
      BY <2>2
    <2>4. PICK device \in IF half = 0 THEN {NoIface}
                     ELSE {Ensured(wg[half], listed[half].cfg)}
                          \cup (IF wg[half] = NoIface THEN {Unaliased} ELSE {}) :
            wg' = [id \in PeerIds |-> CASE id = half   -> device
                                        [] id \in done  -> DeviceOf(listed[id])
                                        [] OTHER        -> wg[id]]
      BY <2>3
    <2>5. done \in SUBSET Desired /\ half \in {0} \cup Desired /\ half \notin done
      BY <1>1, <2>2, <2>3 DEF PeerIds
    <2>6. device \in Device \cup {NoIface, Unaliased}
      BY <1>1, <2>4, <2>5, EnsuredOK
    <2>7. \A id \in done : DeviceOf(listed[id]) \in Device
      BY <1>1, <2>5 DEF DeviceOf, Device
    <2>8. wg' \in [PeerIds -> Device \cup {NoIface, Unaliased}]
      <3>1. ASSUME NEW id \in PeerIds
            PROVE  wg'[id] \in Device \cup {NoIface, Unaliased}
        BY <2>4, <2>5, <2>6, <2>7 DEF IndInv, StateOK
      <3> QED
        BY <2>4, <3>1
    <2> QED
      BY <1>4, <2>1, <2>8 DEF RecoverWireguard, IndInv, StateOK, StoreTypeOK
  <1>5. ASSUME NEW ok \in BOOLEAN, RecoverNft(ok)
        PROVE  IndInv'
    <2>1. /\ ProcOK' /\ mode' \in Modes /\ admin' \in 0 .. MaxAdmin /\ faulty' \in BOOLEAN
          /\ listed' \in [PeerIds -> Peer \cup {NoRow}]
          /\ nextId' \in 1 .. MaxId + 1
      BY <1>5, RecoveringOK DEF RecoverNft, Modes
    <2>2. nft' \in SUBSET Ports
      BY <1>1, <1>5, ListingOK DEF RecoverNft
    <2> QED
      BY <1>5, <2>1, <2>2 DEF RecoverNft, IndInv, StateOK, StoreTypeOK
  <1>6. ASSUME NEW ok \in BOOLEAN, RecoverBird(ok)
        PROVE  IndInv'
    <2>1. /\ ProcOK' /\ mode' \in Modes /\ admin' \in 0 .. MaxAdmin /\ faulty' \in BOOLEAN
          /\ listed' \in [PeerIds -> Peer \cup {NoRow}]
          /\ nextId' \in 1 .. MaxId + 1
      BY <1>6, RecoveringOK DEF RecoverBird, Modes
    <2>2. bird' \in SUBSET BirdConf
      BY <1>1, <1>6, ListingOK DEF RecoverBird, Synced
    <2>3. late' \in BOOLEAN /\ UNCHANGED strays
      BY <1>6 DEF RecoverBird, Synced
    <2> QED
      BY <1>6, <2>1, <2>2, <2>3 DEF RecoverBird, IndInv, StateOK, StoreTypeOK
  <1>7. ASSUME NEW ok \in BOOLEAN, RecoverRemove(ok) \/ RecoverManaged(ok) \/ RecoverChanges(ok)
        PROVE  IndInv'
    BY <1>7, SweepOK DEF RecoverRemove, RecoverManaged, RecoverChanges, Modes
  <1>8. ASSUME NEW ok \in BOOLEAN, RecoverDrop(ok)
        PROVE  IndInv'
    <2>1. /\ ProcOK' /\ mode' \in Modes /\ admin' \in 0 .. MaxAdmin /\ faulty' \in BOOLEAN
          /\ listed' \in [PeerIds -> Peer \cup {NoRow}]
          /\ nextId' \in 1 .. MaxId + 1
      BY <1>8, RecoveringOK DEF RecoverDrop, Modes
    <2>2. PICK done : delete_rows(done)
      BY <1>8 DEF RecoverDrop
    <2>3. rows' \in [PeerIds -> Peer \cup {NoRow}]
      BY <2>2 DEF delete_rows, IndInv, StateOK, StoreTypeOK
    <2>4. events' \in [Change -> Nat]
      BY <2>2, EnqueueAllOK DEF delete_rows, IndInv, StateOK
    <2> QED
      BY <1>8, <2>1, <2>3, <2>4 DEF RecoverDrop, IndInv, StateOK, StoreTypeOK
  <1>9. ASSUME NEW ok \in BOOLEAN, RecoverActivate(ok)
        PROVE  IndInv'
    <2>1. /\ ProcOK' /\ mode' \in Modes /\ admin' \in 0 .. MaxAdmin /\ faulty' \in BOOLEAN
          /\ listed' \in [PeerIds -> Peer \cup {NoRow}]
          /\ nextId' \in 1 .. MaxId + 1
      BY <1>9, RecoveringOK DEF RecoverActivate, Modes
    <2> DEFINE present == {id \in Desired : Exists(id)}
    <2>2. PICK done \in IF ok THEN {Desired} ELSE SUBSET present : activate_rows(done)
      BY <1>9 DEF RecoverActivate
    <2>3. done \in SUBSET present
      BY <1>9, <2>2 DEF RecoverActivate
    <2>4. \A id \in PeerIds : id \in done => [rows[id] EXCEPT !.status = "active"] \in Peer
      BY <2>3 DEF Exists, IndInv, StateOK, StoreTypeOK, Peer, Statuses
    <2>5. rows' \in [PeerIds -> Peer \cup {NoRow}]
      BY <2>2, <2>4 DEF activate_rows, IndInv, StateOK, StoreTypeOK
    <2>6. events' \in [Change -> Nat]
      BY <2>2, EnqueueAllOK DEF activate_rows, IndInv, StateOK
    <2> QED
      BY <1>9, <2>1, <2>5, <2>6 DEF RecoverActivate, IndInv, StateOK, StoreTypeOK
  <1> QED
    BY <1>2, <1>3, <1>4, <1>5, <1>6, <1>7, <1>8, <1>9 DEF RecoverStep

(***************************************************************************)
(* The invariant is inductive, and implies what it is for.                 *)
(***************************************************************************)
LEMMA StepOK == IndInv /\ [Next]_vars => IndInv'
  <1> SUFFICES ASSUME IndInv, [Next]_vars PROVE IndInv'
    OBVIOUS
  <1>1. CASE \E r \in Requests, k \in Keys, c \in Cfgs \cup {NoCfg},
                op \in {"create", "update", "delete"} : Begin(r, op, k, c)
    BY <1>1, BeginOK
  <1>2. CASE \E r \in Requests : RequestStep(r) \/ Cancel(r) \/ CancelRename(r)
    BY <1>2, RequestOK, CancelOK, RenameOK
  <1>10. CASE \E s \in strays : LateRename(s)
    BY <1>10, RenameOK
  <1>3. CASE \E p \in Procs : SharedStep(p) \/ Fail(p)
    BY <1>3, SharedOK, FailOK
  <1>4. CASE ListenerStep
    BY <1>4, ListenerOK
  <1>5. CASE \E p \in Reconcilers : Tick(p)
    BY <1>5, TickOK
  <1>6. CASE (\E id \in PeerIds : AdminWrite(id)) \/ FirewallReload
    BY <1>6, AdminOK, FirewallOK
  <1>7. CASE \E reboot \in BOOLEAN : Crash(reboot)
    BY <1>7, CrashOK
  <1>8. CASE RecoverStep
    BY <1>8, RecoverOK
  <1>9. CASE UNCHANGED vars
    <2>1. ProcOK'
      BY <1>9, ProcKept DEF vars, managerVars, IndInv
    <2> QED
      BY <1>9, <2>1 DEF vars, managerVars, storeVars, IndInv, StateOK, StoreTypeOK
  <1> QED
    BY <1>1, <1>2, <1>3, <1>4, <1>5, <1>6, <1>7, <1>8, <1>9, <1>10 DEF Next, Quiescent

LEMMA IndInvTypes == IndInv => TypeOK
  BY DEF IndInv, StateOK, ProcOK, TypeOK

LEMMA IndInvExcludes == IndInv => MutualExclusion
  BY DEF IndInv, ProcOK, Owns, MutualExclusion

(***************************************************************************)
(* Every variable of the manager keeps its type, for any number of         *)
(* requests, machines, peers and ports: in particular reserve_peer only    *)
(* ever stores a port of its range, and no path through compensation,      *)
(* cancellation or recovery writes a configuration that was not read from  *)
(* a row or given in a request.                                            *)
(***************************************************************************)
THEOREM TypeCorrect == Spec => []TypeOK
  <1>1. Spec => []IndInv
    BY InitOK, StepOK, PTL DEF Spec
  <1> QED
    BY <1>1, IndInvTypes, PTL

(***************************************************************************)
(* Two processes never work on one machine at a time: the mutation lock of *)
(* create_peer, update_peer, delete_peer and apply_peer_change excludes    *)
(* them from each other on every path.                                     *)
(***************************************************************************)
THEOREM Mutex == Spec => []MutualExclusion
  <1>1. Spec => []IndInv
    BY InitOK, StepOK, PTL DEF Spec
  <1> QED
    BY <1>1, IndInvExcludes, PTL

=============================================================================
