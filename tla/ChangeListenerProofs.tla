------------------------ MODULE ChangeListenerProofs ------------------------
(***************************************************************************)
(* Proofs about ChangeListener: types, and that the replay of the events   *)
(* keeps the rules of PeerOutbox, for any number of peers and of writes by *)
(* others, whatever fails and in whatever order events appear.             *)
(***************************************************************************)
EXTENDS ChangeListener, WellFoundedInduction, TLAPS

(***************************************************************************)
(* The inductive invariant.  A peer's row is written by one transaction at *)
(* a time, so that the events of one peer, unlike those of different       *)
(* peers, appear in the order of their ids.                                *)
(***************************************************************************)
WritesOK ==
    /\ \A p \in Peers : row[p].version <= writes
    /\ \A t \in open : row[t.peer].version < writes
    /\ \A t, u \in open : t.peer = u.peer => t = u

IdsOK ==
    /\ \A e \in events : e.id < nextId
    /\ \A t \in open : t.id < nextId /\ \A e \in events : e.peer = t.peer => e.id < t.id

\* The listener works on events that are there and that only it deletes.
Working == {"read", "apply", "activate", "ports", "ack"}

WorkOK ==
    /\ \A e \in todo : e \in events /\ e.sound
    /\ at \in Working => now \in events /\ now.sound /\ now \notin todo

(***************************************************************************)
(* What the listener has read or applied is up to date, or the change that *)
(* makes it stale has left an event above the one the listener works on,   *)
(* which deleting that one will not take away.                             *)
(***************************************************************************)
Newer == \E e \in events : e.peer = now.peer /\ e.id > now.id

ReplayOK ==
    /\ at = "apply" => Newer \/ row[now.peer] = seen
    /\ at \in {"ports", "ack"} =>
         \/ Newer
         \/ applied[now.peer] = row[now.peer].version /\ ~row[now.peer].fresh

ListenerInv == ListenerTypeOK /\ WritesOK /\ IdsOK /\ WorkOK /\ ReplayOK

-----------------------------------------------------------------------------
(***************************************************************************)
(* The first event of a walk is one of those that are left.                *)
(***************************************************************************)
LEMMA LowestExists ==
    ASSUME NEW T \in SUBSET Event, T # {}
    PROVE  Lowest(T) \in T
<1>. DEFINE Ids == {e.id : e \in T}
<1>1. Ids \subseteq Nat /\ Ids # {}
  BY DEF Event, EventIds
<1>2. PICK i \in Ids : \A j \in Ids : ~(<<j, i>> \in OpToRel(<, Nat))
  BY <1>1, NatLessThanWellFounded, WFMin
<1>3. PICK e \in T : e.id = i
  BY <1>2
<1>4. ASSUME NEW other \in T
      PROVE  e.id <= other.id
  <2>1. e.id \in Nat /\ other.id \in Nat /\ other.id \in Ids
    BY <1>1
  <2>2. ~(other.id < e.id)
    BY <1>2, <1>3, <2>1 DEF OpToRel
  <2>. QED BY <2>1, <2>2
<1>. QED BY <1>4 DEF Lowest

(***************************************************************************)
(* The writers.                                                            *)
(***************************************************************************)
LEMMA BeginWriteStep ==
    ASSUME ListenerInv, NEW p \in Peers, NEW fresh \in BOOLEAN, NEW sound \in BOOLEAN,
           BeginWrite(p, fresh, sound)
    PROVE  ListenerInv'
<1>. USE DEF ListenerInv
<1>. DEFINE t == [id |-> nextId, peer |-> p, fresh |-> fresh, sound |-> sound]
<1>1. /\ writes < MaxWrites /\ writes' = writes + 1 /\ nextId' = nextId + 1
      /\ open' = open \cup {t} /\ \A u \in open : u.peer # p
      /\ UNCHANGED <<row, events, applied, session, notes, at, todo, now, seen, faulty>>
  BY DEF BeginWrite, RowLocked, workVars
<1>2. /\ t \in Transaction /\ t.id = nextId /\ t.peer = p
      /\ nextId \in Nat /\ nextId' \in EventIds /\ writes \in Nat /\ writes' \in 0 .. MaxWrites
  BY <1>1, ListenerAssumption DEF ListenerTypeOK, Transaction, EventIds
<1>. HIDE DEF t
<1>3. ListenerTypeOK'
  BY <1>1, <1>2 DEF ListenerTypeOK
<1>4. WritesOK'
  <2>1. \A q \in Peers : row[q].version \in Nat
    BY ListenerAssumption DEF ListenerTypeOK, RowState, Versions
  <2>2. \A u \in open : u.peer \in Peers
    BY DEF ListenerTypeOK, Transaction
  <2>3. \A q \in Peers : row[q].version <= writes /\ row[q].version < writes + 1
    BY <1>2, <2>1 DEF WritesOK
  <2>4. \A u \in open' : row[u.peer].version < writes + 1
    BY <1>1, <1>2, <2>2, <2>3
  <2>5. \A u, v \in open' : u.peer = v.peer => u = v
    BY <1>1, <1>2 DEF WritesOK
  <2>6. \A q \in Peers : row[q].version <= writes + 1
    BY <1>2, <2>1, <2>3
  <2>. QED BY <1>1, <2>4, <2>5, <2>6 DEF WritesOK
<1>5. IdsOK'
  <2>1. \A e \in events : e.id \in Nat /\ e.id < nextId
    BY DEF ListenerTypeOK, Event, EventIds, IdsOK
  <2>2. \A u \in open : /\ u.id \in Nat /\ u.id < nextId
                        /\ \A e \in events : e.peer = u.peer => e.id < u.id
    BY DEF ListenerTypeOK, Transaction, EventIds, IdsOK
  <2>. QED BY <1>1, <1>2, <2>1, <2>2 DEF IdsOK
<1>6. WorkOK' /\ ReplayOK'
  BY <1>1 DEF WorkOK, ReplayOK, Newer
<1>. QED BY <1>3, <1>4, <1>5, <1>6

(***************************************************************************)
(* A write of a row, by a transaction or by the listener, leaves an event  *)
(* above all other events of that peer.                                    *)
(***************************************************************************)
LEMMA StoreStep ==
    ASSUME ListenerInv, NEW p \in Peers, NEW new \in RowState, NEW id \in EventIds,
           Store(p, new, id), \A e \in events : e.peer = p => e.id < id, id < nextId'
    PROVE  /\ row' \in [Peers -> RowState] /\ row'[p] = new
           /\ \A q \in Peers : q # p => row'[q] = row[q]
           /\ events' \subseteq Event /\ notes' \in Nat
           /\ \E e \in events' : /\ e.peer = p /\ e.id = id
                                 /\ events' = events \cup {e}
           /\ at \in Working /\ now.peer = p =>
                \E e \in events' : e.peer = now.peer /\ e.id > now.id
<1>. USE DEF ListenerInv
<1>. DEFINE e == [id |-> id, peer |-> p, version |-> new.version, sound |-> new.sound]
<1>1. /\ row' = [row EXCEPT ![p] = new] /\ events' = events \cup {e}
      /\ notes' = IF session = "listening" THEN notes + 1 ELSE notes
  BY DEF Store
<1>2. e \in Event /\ e.peer = p /\ e.id = id
  BY DEF Event, RowState
<1>. HIDE DEF e
<1>3. notes' \in Nat
  BY <1>1 DEF ListenerTypeOK
<1>4. ASSUME at \in Working, now.peer = p
      PROVE  e.id > now.id
  <2>1. now \in events /\ now \in Event
    BY <1>4 DEF WorkOK, ListenerTypeOK
  <2>2. now.id < id /\ now.id \in Nat /\ id \in Nat
    BY <1>4, <2>1 DEF Event, EventIds
  <2>. QED BY <1>2, <2>2
<1>. QED BY <1>1, <1>2, <1>3, <1>4 DEF ListenerTypeOK

LEMMA CommitStep ==
    ASSUME ListenerInv, NEW t \in open, Commit(t)
    PROVE  ListenerInv'
<1>. USE DEF ListenerInv
<1>. DEFINE p == t.peer
            new == [version |-> row[p].version + 1, fresh |-> t.fresh, sound |-> t.sound]
<1>1. /\ open' = open \ {t} /\ Store(p, new, t.id)
      /\ UNCHANGED <<nextId, writes, applied, session, at, todo, now, seen, faulty>>
  BY DEF Commit, workVars
<1>2. t \in Transaction /\ p \in Peers /\ t.id \in EventIds
  BY DEF ListenerTypeOK, Transaction
<1>3. /\ row[p].version \in Nat /\ writes \in Nat /\ writes <= MaxWrites /\ MaxWrites \in Nat
      /\ row[p].version < writes
  BY <1>2, ListenerAssumption DEF ListenerTypeOK, RowState, Versions, WritesOK
<1>4. new \in RowState /\ new.version <= writes
  BY <1>2, <1>3 DEF RowState, Versions, Transaction
<1>5. /\ \A e \in events : e.peer = p => e.id < t.id
      /\ t.id < nextId
  BY DEF IdsOK
<1>. HIDE DEF new
<1>6. /\ row' \in [Peers -> RowState] /\ row'[p] = new
      /\ \A q \in Peers : q # p => row'[q] = row[q]
      /\ events' \subseteq Event /\ notes' \in Nat
      /\ \E e \in events' : e.peer = p /\ e.id = t.id /\ events' = events \cup {e}
      /\ at \in Working /\ now.peer = p =>
           \E e \in events' : e.peer = now.peer /\ e.id > now.id
  BY <1>1, <1>2, <1>4, <1>5, StoreStep
<1>7. ListenerTypeOK'
  BY <1>1, <1>6 DEF ListenerTypeOK
<1>8. \A u \in open' : u \in open /\ u.peer # p /\ u.peer \in Peers
  BY <1>1 DEF WritesOK, ListenerTypeOK, Transaction
<1>9. WritesOK'
  BY <1>1, <1>4, <1>6, <1>8 DEF WritesOK
<1>10. IdsOK'
  BY <1>1, <1>5, <1>6, <1>8 DEF IdsOK
<1>11. WorkOK'
  BY <1>1, <1>6 DEF WorkOK
<1>12. ReplayOK'
  <2>1. at \in Working => now.peer \in Peers
    BY DEF WorkOK, ListenerTypeOK, Event
  <2>2. CASE now.peer = p
    BY <1>1, <1>6, <2>2 DEF ReplayOK, Newer, Working
  <2>3. CASE now.peer # p
    BY <1>1, <1>6, <2>1, <2>3 DEF ReplayOK, Newer, Working
  <2>. QED BY <2>2, <2>3
<1>. QED BY <1>7, <1>9, <1>10, <1>11, <1>12

LEMMA RollbackStep ==
    ASSUME ListenerInv, NEW t \in open, Rollback(t)
    PROVE  ListenerInv'
<1>. USE DEF ListenerInv
<1>1. /\ open' = open \ {t}
      /\ UNCHANGED <<row, events, nextId, notes, writes, applied, session, at, todo, now, seen,
                     faulty>>
  BY DEF Rollback, tableVars, workVars
<1>2. ListenerTypeOK' /\ WritesOK' /\ IdsOK'
  BY <1>1 DEF ListenerTypeOK, WritesOK, IdsOK
<1>3. WorkOK' /\ ReplayOK'
  BY <1>1 DEF WorkOK, ReplayOK, Newer
<1>. QED BY <1>2, <1>3

LEMMA RemoveUnreadableStep ==
    ASSUME ListenerInv, NEW e \in events, RemoveUnreadable(e)
    PROVE  ListenerInv'
<1>. USE DEF ListenerInv
<1>1. /\ ~e.sound /\ events' = events \ {e}
      /\ UNCHANGED <<row, open, nextId, writes, applied, session, notes, at, todo, now, seen,
                     faulty>>
  BY DEF RemoveUnreadable, workVars
<1>2. PICK other \in events : other.peer = e.peer /\ other.id > e.id
  BY DEF RemoveUnreadable
<1>3. ListenerTypeOK' /\ WritesOK' /\ IdsOK'
  BY <1>1 DEF ListenerTypeOK, WritesOK, IdsOK
<1>4. WorkOK'
  BY <1>1 DEF WorkOK
<1>5. ASSUME at \in Working, Newer
      PROVE  Newer'
  <2>1. PICK f \in events : f.peer = now.peer /\ f.id > now.id
    BY <1>5 DEF Newer
  <2>2. now \in events
    BY <1>5 DEF WorkOK
  <2>3. e.id \in Nat /\ other.id \in Nat /\ f.id \in Nat /\ now.id \in Nat
    BY <2>2 DEF ListenerTypeOK, Event, EventIds
  <2>4. CASE f # e
    BY <1>1, <2>1, <2>4 DEF Newer
  <2>5. CASE f = e
    <3>1. other # e /\ other.id > now.id /\ other.peer = now.peer
      BY <1>2, <2>1, <2>3, <2>5
    <3>. QED BY <1>1, <3>1 DEF Newer
  <2>. QED BY <2>4, <2>5
<1>6. ReplayOK'
  BY <1>1, <1>5 DEF ReplayOK, Working
<1>. QED BY <1>3, <1>4, <1>6

(***************************************************************************)
(* The steps that leave tables, interfaces and the walk alone.             *)
(***************************************************************************)
LEMMA QuietStep ==
    ASSUME ListenerInv,
           Sleep \/ Recv \/ Resubscribe \/ RecvError \/ Retry \/ Disconnect \/ Heal
             \/ \E ok \in BOOLEAN : Connect(ok) \/ Subscribe(ok)
    PROVE  ListenerInv'
<1>. USE DEF ListenerInv
<1>1. UNCHANGED <<row, open, events, nextId, writes, applied, todo, now, seen>>
  BY DEF Sleep, Recv, Resubscribe, RecvError, Retry, Disconnect, Heal, Connect, Subscribe,
         tableVars, workVars
<1>2. at' = at \/ at' \in Places \ Working
  BY DEF Sleep, Recv, Resubscribe, RecvError, Retry, Disconnect, Heal, Connect, Subscribe,
         Places, Working
<1>3. session' \in Sessions /\ faulty' \in BOOLEAN
  BY DEF Sleep, Recv, Resubscribe, RecvError, Retry, Disconnect, Heal, Connect, Subscribe,
         ListenerTypeOK, Sessions
<1>4. notes' \in Nat
  BY DEF Sleep, Recv, Resubscribe, RecvError, Retry, Disconnect, Heal, Connect, Subscribe,
         ListenerTypeOK, tableVars
<1>5. ListenerTypeOK'
  BY <1>1, <1>2, <1>3, <1>4 DEF ListenerTypeOK
<1>6. WritesOK' /\ IdsOK'
  BY <1>1 DEF WritesOK, IdsOK
<1>7. WorkOK' /\ ReplayOK'
  BY <1>1, <1>2 DEF WorkOK, ReplayOK, Newer, Working
<1>. QED BY <1>5, <1>6, <1>7

(***************************************************************************)
(* The walk over the events.                                               *)
(***************************************************************************)
LEMMA StillTyped ==
    Still \in RowState
BY ListenerAssumption DEF Still, RowState, Versions

LEMMA ListStep ==
    ASSUME ListenerInv, NEW ok \in BOOLEAN, list_peer_changes(ok)
    PROVE  ListenerInv'
<1>. USE DEF ListenerInv
<1>1. /\ todo' = {} \/ (todo' = events /\ \A e \in events : e.sound)
      /\ at' \in {"walk", "wait"}
      /\ UNCHANGED <<row, events, nextId, notes, open, writes, applied, session, now, seen, faulty>>
  BY DEF list_peer_changes, tableVars, Readable
<1>2. ListenerTypeOK' /\ WritesOK' /\ IdsOK'
  BY <1>1 DEF ListenerTypeOK, WritesOK, IdsOK, Places
<1>3. WorkOK' /\ ReplayOK'
  BY <1>1 DEF WorkOK, ReplayOK, Working
<1>. QED BY <1>2, <1>3

LEMMA WalkStep ==
    ASSUME ListenerInv, Walk
    PROVE  ListenerInv'
<1>. USE DEF ListenerInv
<1>1. UNCHANGED <<row, events, nextId, notes, open, writes, applied, session, seen, faulty>>
  BY DEF Walk, tableVars
<1>2. WritesOK' /\ IdsOK'
  BY <1>1 DEF WritesOK, IdsOK
<1>3. CASE todo = {}
  <2>1. at' = "wait" /\ UNCHANGED <<todo, now>>
    BY <1>3 DEF Walk
  <2>. QED BY <1>1, <1>2, <2>1 DEF ListenerTypeOK, Places, WorkOK, ReplayOK, Working
<1>4. CASE todo # {}
  <2>1. at' = "read" /\ now' = Lowest(todo) /\ todo' = todo \ {now'}
    BY <1>4 DEF Walk
  <2>2. now' \in todo
    BY <1>4, <2>1, LowestExists DEF ListenerTypeOK
  <2>3. ListenerTypeOK'
    BY <1>1, <2>1, <2>2 DEF ListenerTypeOK, Places
  <2>4. WorkOK' /\ ReplayOK'
    BY <1>1, <2>1, <2>2 DEF WorkOK, ReplayOK
  <2>. QED BY <1>2, <2>3, <2>4
<1>. QED BY <1>3, <1>4

LEMMA ReadRowStep ==
    ASSUME ListenerInv, NEW ok \in BOOLEAN, ReadRow(ok)
    PROVE  ListenerInv'
<1>. USE DEF ListenerInv
<1>1. /\ at = "read"
      /\ UNCHANGED <<row, events, nextId, notes, open, writes, applied, session, faulty>>
  BY DEF ReadRow, tableVars
<1>2. WritesOK' /\ IdsOK'
  BY <1>1 DEF WritesOK, IdsOK
<1>3. CASE Loop
  BY <1>1, <1>2, <1>3, StillTyped DEF Loop, ListenerTypeOK, Places, WorkOK, ReplayOK, Working
<1>4. CASE at' = "apply" /\ seen' = row[now.peer] /\ UNCHANGED <<todo, now>>
  <2>1. now \in events /\ now.peer \in Peers
    BY <1>1 DEF WorkOK, Working, ListenerTypeOK, Event
  <2>2. ListenerTypeOK'
    BY <1>1, <1>4, <2>1 DEF ListenerTypeOK, Places
  <2>3. WorkOK' /\ ReplayOK'
    BY <1>1, <1>4 DEF WorkOK, ReplayOK, Working
  <2>. QED BY <1>2, <2>2, <2>3
<1>. QED BY <1>3, <1>4 DEF ReadRow

LEMMA ApplyStep ==
    ASSUME ListenerInv, NEW ok \in BOOLEAN, Apply(ok)
    PROVE  ListenerInv'
<1>. USE DEF ListenerInv
<1>1. /\ at = "apply" /\ UNCHANGED <<row, events, nextId, notes, open, writes, session, faulty>>
  BY DEF Apply, tableVars
<1>2. now \in events /\ now.peer \in Peers
  BY <1>1 DEF WorkOK, Working, ListenerTypeOK, Event
<1>3. PICK result \in {seen.version, applied[now.peer], Half} :
        /\ applied' = [applied EXCEPT ![now.peer] = result]
        /\ ok => result = seen.version
  BY DEF Apply
<1>4. result \in Versions \cup {Half}
  BY <1>2 DEF ListenerTypeOK, RowState
<1>5. applied' \in [Peers -> Versions \cup {Half}] /\ applied'[now.peer] = result
  BY <1>2, <1>3, <1>4 DEF ListenerTypeOK
<1>6. WritesOK' /\ IdsOK'
  BY <1>1 DEF WritesOK, IdsOK
<1>7. CASE Loop
  BY <1>1, <1>5, <1>6, <1>7, StillTyped
     DEF Loop, ListenerTypeOK, Places, WorkOK, ReplayOK, Working
<1>8. CASE ~Loop
  <2>1. ok /\ at' = (IF seen.fresh THEN "activate" ELSE "ports") /\ UNCHANGED <<todo, now, seen>>
    BY <1>8 DEF Apply, workVars
  <2>2. ListenerTypeOK'
    BY <1>1, <1>5, <2>1 DEF ListenerTypeOK, Places
  <2>3. WorkOK'
    BY <1>1, <2>1 DEF WorkOK, Working
  <2>4. ReplayOK'
    <3>1. CASE seen.fresh
      BY <2>1, <3>1 DEF ReplayOK
    <3>2. CASE ~seen.fresh
      <4>1. at' = "ports" /\ applied'[now.peer] = seen.version
        BY <1>3, <1>5, <2>1, <3>2
      <4>2. Newer \/ row[now.peer] = seen
        BY <1>1 DEF ReplayOK
      <4>. QED BY <1>1, <2>1, <3>2, <4>1, <4>2 DEF ReplayOK, Newer
    <3>. QED BY <3>1, <3>2
  <2>. QED BY <1>6, <2>2, <2>3, <2>4
<1>. QED BY <1>7, <1>8

LEMMA ActivateStep ==
    ASSUME ListenerInv, NEW ok \in BOOLEAN, Activate(ok)
    PROVE  ListenerInv'
<1>. USE DEF ListenerInv
<1>. DEFINE p == now.peer
            new == [row[p] EXCEPT !.fresh = FALSE]
<1>1. /\ at = "activate" /\ \A t \in open : t.peer # p
      /\ UNCHANGED <<open, writes, applied, session, faulty>>
  BY DEF Activate, RowLocked
<1>2. now \in events /\ now.sound /\ now \notin todo /\ p \in Peers
  BY <1>1 DEF WorkOK, Working, ListenerTypeOK, Event
<1>3. at' \in {"ports", "walk"} /\ todo' = todo /\ (at' = "ports" => ok /\ now' = now)
      /\ now' \in Event \cup {NoEvent} /\ seen' \in RowState
  BY StillTyped DEF Activate, Loop, workVars, ListenerTypeOK
<1>4. CASE UNCHANGED tableVars /\ ~ok
  <2>1. UNCHANGED <<row, events, nextId, notes>>
    BY <1>4 DEF tableVars
  <2>. QED BY <1>1, <1>3, <1>4, <2>1
            DEF ListenerTypeOK, Places, WritesOK, IdsOK, WorkOK, ReplayOK, Working
<1>5. CASE Store(p, new, nextId) /\ nextId' = nextId + 1
  <2>1. new \in RowState /\ new.version = row[p].version
    BY <1>2 DEF ListenerTypeOK, RowState
  <2>2. nextId \in EventIds /\ nextId \in Nat /\ nextId' \in EventIds /\ nextId < nextId'
    BY <1>5 DEF ListenerTypeOK, EventIds
  <2>3. \A e \in events : e.id < nextId
    BY DEF IdsOK
  <2>. HIDE DEF new
  <2>4. /\ row' \in [Peers -> RowState] /\ row'[p] = new
        /\ \A q \in Peers : q # p => row'[q] = row[q]
        /\ events' \subseteq Event /\ notes' \in Nat
        /\ \E e \in events' : e.peer = p /\ e.id = nextId /\ events' = events \cup {e}
        /\ \E e \in events' : e.peer = now.peer /\ e.id > now.id
    BY <1>1, <1>2, <1>5, <2>1, <2>2, <2>3, StoreStep DEF Working
  <2>5. ListenerTypeOK'
    BY <1>1, <1>3, <2>2, <2>4 DEF ListenerTypeOK, Places
  <2>6. \A t \in open : t.peer \in Peers /\ t.id \in Nat
    BY DEF ListenerTypeOK, Transaction, EventIds
  <2>7. WritesOK'
    BY <1>1, <2>1, <2>4, <2>6 DEF WritesOK
  <2>8. IdsOK'
    <3>1. \A e \in events : e.id \in Nat
      BY DEF ListenerTypeOK, Event, EventIds
    <3>2. \A e \in events' : e.id < nextId'
      BY <1>5, <2>2, <2>3, <2>4, <3>1
    <3>3. \A t \in open : t.id < nextId'
      BY <1>5, <2>2, <2>6 DEF IdsOK
    <3>4. \A t \in open, e \in events' : e.peer = t.peer => e.id < t.id
      BY <1>1, <2>4 DEF IdsOK
    <3>. QED BY <1>1, <3>2, <3>3, <3>4 DEF IdsOK
  <2>9. WorkOK'
    BY <1>2, <1>3, <2>4 DEF WorkOK, Working
  <2>10. ReplayOK'
    BY <1>3, <2>4 DEF ReplayOK, Newer
  <2>. QED BY <2>5, <2>7, <2>8, <2>9, <2>10
<1>. QED BY <1>4, <1>5 DEF Activate

LEMMA SyncPortsStep ==
    ASSUME ListenerInv, NEW ok \in BOOLEAN, SyncPorts(ok)
    PROVE  ListenerInv'
<1>. USE DEF ListenerInv
<1>1. /\ at = "ports"
      /\ UNCHANGED <<row, events, nextId, notes, open, writes, applied, session, faulty>>
  BY DEF SyncPorts, tableVars
<1>2. WritesOK' /\ IdsOK'
  BY <1>1 DEF WritesOK, IdsOK
<1>3. CASE Loop
  BY <1>1, <1>2, <1>3, StillTyped DEF Loop, ListenerTypeOK, Places, WorkOK, ReplayOK, Working
<1>4. CASE at' = "ack" /\ UNCHANGED workVars
  BY <1>1, <1>2, <1>4
     DEF workVars, ListenerTypeOK, Places, WorkOK, ReplayOK, Newer, Working
<1>. QED BY <1>3, <1>4 DEF SyncPorts

LEMMA AckStep ==
    ASSUME ListenerInv, NEW ok \in BOOLEAN, Ack(ok)
    PROVE  ListenerInv'
<1>. USE DEF ListenerInv
<1>1. /\ at = "ack" /\ at' = "walk" /\ now' = NoEvent /\ seen' = Still /\ todo' = todo
      /\ events' = events \ {now} \/ events' = events
      /\ UNCHANGED <<row, open, nextId, writes, applied, session, notes, faulty>>
  BY DEF Ack, Loop
<1>2. ListenerTypeOK'
  BY <1>1, StillTyped DEF ListenerTypeOK, Places
<1>3. WritesOK' /\ IdsOK'
  BY <1>1 DEF WritesOK, IdsOK
<1>4. WorkOK' /\ ReplayOK'
  BY <1>1 DEF WorkOK, ReplayOK, Working
<1>. QED BY <1>2, <1>3, <1>4

LEMMA ListenerInit ==
    Init => ListenerInv
<1>. SUFFICES ASSUME Init PROVE ListenerInv
  OBVIOUS
<1>1. ListenerTypeOK
  BY StillTyped, ListenerAssumption
     DEF Init, ListenerTypeOK, Versions, EventIds, Sessions, Places
<1>2. WritesOK /\ IdsOK
  BY DEF Init, WritesOK, IdsOK, Still
<1>3. WorkOK /\ ReplayOK
  BY DEF Init, WorkOK, ReplayOK, Working
<1>. QED BY <1>1, <1>2, <1>3 DEF ListenerInv

LEMMA ListenerInductive ==
    ListenerInv /\ [Next]_listenerVars => ListenerInv'
<1>. SUFFICES ASSUME ListenerInv, [Next]_listenerVars PROVE ListenerInv'
  OBVIOUS
<1>1. CASE UNCHANGED listenerVars
  BY <1>1 DEF listenerVars, ListenerInv, ListenerTypeOK, WritesOK, IdsOK, WorkOK, ReplayOK, Newer
<1>2. CASE ListenerStep
  BY <1>2, QuietStep, ListStep, WalkStep, ReadRowStep, ApplyStep, ActivateStep, SyncPortsStep,
     AckStep DEF ListenerStep
<1>3. CASE WriterStep
  BY <1>3, BeginWriteStep, CommitStep, RollbackStep, RemoveUnreadableStep DEF WriterStep
<1>4. CASE Disconnect \/ Heal
  BY <1>4, QuietStep
<1>. QED BY <1>1, <1>2, <1>3, <1>4 DEF Next

LEMMA ListenerInvariant ==
    Spec => []ListenerInv
BY ListenerInit, ListenerInductive, PTL DEF Spec

(***************************************************************************)
(* Every variable keeps its type: run_peer_change_listener never handles   *)
(* anything but an event, and no notification is consumed twice.           *)
(***************************************************************************)
THEOREM ListenerTypes ==
    Spec => []ListenerTypeOK
<1>1. ListenerInv => ListenerTypeOK
  BY DEF ListenerInv
<1>. QED BY <1>1, ListenerInvariant, PTL

-----------------------------------------------------------------------------
(***************************************************************************)
(* The refinement of PeerOutbox.                                           *)
(***************************************************************************)
Target == [p \in Peers |-> row[p].version]
Rest == {p \in Peers : ~row[p].fresh}
Pending == {e.peer : e \in events}

\* The outbox does not see the walk, the session and open transactions.
LEMMA OutboxUnchanged ==
    ASSUME row' = row, applied' = applied, Pending' = Pending
    PROVE  UNCHANGED Outbox!outboxVars
BY DEF Outbox!outboxVars, Pending

(***************************************************************************)
(* A write of a row, with its event, is a Write of the outbox.             *)
(***************************************************************************)
LEMMA StoreWrites ==
    ASSUME ListenerInv, ListenerInv', NEW p \in Peers, NEW new, NEW id, Store(p, new, id),
           applied' = applied
    PROVE  Outbox!Next
<1>. DEFINE e == [id |-> id, peer |-> p, version |-> new.version, sound |-> new.sound]
<1>1. events' = events \cup {e} /\ e.peer = p /\ row' = [row EXCEPT ![p] = new]
  BY DEF Store
<1>. HIDE DEF e
<1>2. Pending' = Pending \cup {p}
  BY <1>1 DEF Pending
<1>3. Pending' \subseteq Peers /\ Rest' \subseteq Peers
  BY DEF Pending, Rest, ListenerInv, ListenerTypeOK, Event
<1>4. Target' \in [Peers -> Versions \cup {Half}]
  BY DEF Target, ListenerInv, ListenerTypeOK, RowState
<1>5. \A q \in Peers : q # p => row'[q] = row[q]
  BY <1>1 DEF ListenerInv, ListenerTypeOK
<1>6. \A q \in Peers \ Pending' : Target'[q] = Target[q] /\ (q \in Rest' <=> q \in Rest)
  BY <1>2, <1>5 DEF Target, Rest
<1>7. Outbox!RowsChange
  BY <1>2, <1>3, <1>4, <1>6 DEF Outbox!RowsChange, Pending, Target, Rest
<1>. QED BY <1>7 DEF Outbox!Next, Outbox!Write

(***************************************************************************)
(* Each step of the listener and the writers is one of the outbox or none. *)
(***************************************************************************)
LEMMA OutboxSteps ==
    ASSUME ListenerInv, ListenerInv', [Next]_listenerVars
    PROVE  Outbox!Next \/ UNCHANGED Outbox!outboxVars
<1>. USE DEF ListenerInv
<1>1. ASSUME UNCHANGED <<row, events, applied>>
      PROVE  UNCHANGED Outbox!outboxVars
  BY <1>1, OutboxUnchanged DEF Pending
<1>2. ASSUME NEW t \in open, Commit(t)
      PROVE  Outbox!Next
  BY <1>2, StoreWrites DEF Commit, ListenerTypeOK, Transaction
<1>3. ASSUME NEW e \in events, RemoveUnreadable(e)
      PROVE  UNCHANGED Outbox!outboxVars
  <2>1. events' = events \ {e} /\ UNCHANGED <<row, applied>>
    BY <1>3 DEF RemoveUnreadable
  <2>2. PICK other \in events : other.peer = e.peer /\ other.id > e.id
    BY <1>3 DEF RemoveUnreadable
  <2>3. other # e
    <3>1. e.id \in Nat
      BY DEF ListenerTypeOK, Event, EventIds
    <3>. QED BY <2>2, <3>1
  <2>4. Pending' = Pending
    BY <2>1, <2>2, <2>3 DEF Pending
  <2>. QED BY <2>1, <2>4, OutboxUnchanged
<1>4. ASSUME NEW ok \in BOOLEAN, Apply(ok)
      PROVE  Outbox!Next
  <2>1. at = "apply" /\ UNCHANGED <<row, events>>
    BY <1>4 DEF Apply, tableVars
  <2>2. now \in events /\ now.peer \in Peers
    BY <2>1 DEF WorkOK, Working, ListenerTypeOK, Event
  <2>3. PICK result \in {seen.version, applied[now.peer], Half} :
          applied' = [applied EXCEPT ![now.peer] = result]
    BY <1>4 DEF Apply
  <2>4. result \in Versions \cup {Half}
    BY <2>2 DEF ListenerTypeOK, RowState
  <2>5. Outbox!Touch(now.peer)
    BY <2>1, <2>2, <2>3, <2>4 DEF Outbox!Touch
  <2>. QED BY <2>2, <2>5 DEF Outbox!Next
<1>5. ASSUME NEW ok \in BOOLEAN, Activate(ok)
      PROVE  Outbox!Next \/ UNCHANGED Outbox!outboxVars
  <2>1. at = "activate" /\ UNCHANGED applied
    BY <1>5 DEF Activate
  <2>2. now.peer \in Peers
    BY <2>1 DEF WorkOK, Working, ListenerTypeOK, Event
  <2>3. UNCHANGED tableVars \/ Store(now.peer, [row[now.peer] EXCEPT !.fresh = FALSE], nextId)
    BY <1>5 DEF Activate
  <2>4. UNCHANGED tableVars => UNCHANGED <<row, events, applied>>
    BY <2>1 DEF tableVars
  <2>. QED BY <1>1, <2>1, <2>2, <2>3, <2>4, StoreWrites
<1>6. ASSUME NEW ok \in BOOLEAN, Ack(ok)
      PROVE  Outbox!Next \/ UNCHANGED Outbox!outboxVars
  <2>. DEFINE peer == now.peer
  <2>1. at = "ack" /\ UNCHANGED <<row, applied>> /\ (events' = events \ {now} \/ events' = events)
    BY <1>6 DEF Ack
  <2>2. now \in events /\ peer \in Peers /\ now.id \in Nat
    BY <2>1 DEF WorkOK, Working, ListenerTypeOK, Event, EventIds
  <2>3. CASE events' = events
    BY <1>1, <2>1, <2>3
  <2>4. CASE events' = events \ {now} /\ \E e \in events : e # now /\ e.peer = peer
    <3>1. Pending' = Pending
      BY <2>4 DEF Pending
    <3>. QED BY <2>1, <3>1, OutboxUnchanged
  <2>5. CASE events' = events \ {now} /\ \A e \in events : e.peer = peer => e = now
    <3>1. Pending' = Pending \ {peer} /\ peer \in Pending
      BY <2>2, <2>5 DEF Pending
    <3>2. ~Newer
      BY <2>2, <2>5 DEF Newer
    <3>3. applied[peer] = row[peer].version /\ ~row[peer].fresh
      BY <2>1, <3>2 DEF ReplayOK
    <3>4. Outbox!InOrder(peer)
      BY <2>2, <3>3 DEF Outbox!InOrder
    <3>5. PICK q \in Peers : q = peer
      BY <2>2
    <3>6. Outbox!Settle(q)
      BY <2>1, <3>1, <3>4, <3>5 DEF Outbox!Settle, Outbox!InOrder, Pending
    <3>. QED BY <3>6 DEF Outbox!Next
  <2>. QED BY <2>1, <2>3, <2>4, <2>5
<1>7. ASSUME \/ Sleep \/ Recv \/ Resubscribe \/ RecvError \/ Retry \/ Walk
             \/ Disconnect \/ Heal \/ UNCHANGED listenerVars
             \/ \E ok \in BOOLEAN : \/ Connect(ok) \/ Subscribe(ok) \/ list_peer_changes(ok)
                                   \/ ReadRow(ok) \/ SyncPorts(ok)
             \/ \E p \in Peers, fresh, sound \in BOOLEAN : BeginWrite(p, fresh, sound)
             \/ \E t \in open : Rollback(t)
      PROVE  UNCHANGED <<row, events, applied>>
  BY <1>7 DEF Sleep, Recv, Resubscribe, RecvError, Retry, Walk, Disconnect, Heal, Connect,
              Subscribe, list_peer_changes, ReadRow, SyncPorts, BeginWrite, Rollback,
              listenerVars, tableVars
<1>. QED BY <1>1, <1>2, <1>3, <1>4, <1>5, <1>6, <1>7 DEF Next, ListenerStep, WriterStep

(***************************************************************************)
(* The replay keeps the rules of PeerOutbox: however notifications are     *)
(* lost, writers overtake the listener and calls fail, an interface is     *)
(* touched only under an event of its peer, and the last event of a peer   *)
(* is deleted only when its interface has the latest version of the row.   *)
(***************************************************************************)
THEOREM ReplayImplementsOutbox ==
    Spec => ReplayKeepsOutbox
<1>1. Init => Outbox!Init
  <2>. SUFFICES ASSUME Init PROVE Outbox!Init
    OBVIOUS
  <2>1. \A p \in Peers : row[p].version = 0 /\ ~row[p].fresh /\ applied[p] = 0
    BY DEF Init, Still
  <2>2. Target \in [Peers -> Versions \cup {Half}] /\ applied = Target
    BY <2>1, ListenerAssumption DEF Init, Target, Versions
  <2>3. Rest = Peers /\ Pending = {}
    BY <2>1 DEF Init, Rest, Pending
  <2>. QED BY <2>2, <2>3 DEF Outbox!Init, Target, Rest, Pending
<1>2. ListenerInv /\ ListenerInv' /\ [Next]_listenerVars => [Outbox!Next]_(Outbox!outboxVars)
  BY OutboxSteps
<1>. QED BY <1>1, <1>2, ListenerInvariant, PTL DEF Spec, ReplayKeepsOutbox, Outbox!Spec
=============================================================================
