--------------------------- MODULE ChangeListener ---------------------------
(***************************************************************************)
(* run_peer_change_listener (src/src/main.rs) and the replay of the events *)
(* that it starts, sync_pending_peer_changes (src/src/manager.rs): how the *)
(* listener connects, what wakes it, and in which order it walks over the  *)
(* events.  PeerManager has the work on one event in more detail, here it  *)
(* is reduced to reading the row, applying it, activating it and deleting  *)
(* the event.                                                              *)
(*                                                                         *)
(* Rows are written by transactions that take their event_id before they   *)
(* commit, so that an event can appear below others that are handled       *)
(* already.  A notification is sent at the commit and reaches the listener *)
(* only if its session is listening then.                                  *)
(*                                                                         *)
(* A row is abstracted to a version of its settings, whether it still has  *)
(* to be activated, and whether row_to_peer can read it.                   *)
(***************************************************************************)
EXTENDS Naturals

CONSTANTS
    Peers,      \* peers, each of its own machine
    Stuck,      \* peers that cannot be applied: their endpoint has no address
    Fragile,    \* peers whose row somebody may make unreadable
    MaxWrites,  \* bound: writes of rows by others
    Half,       \* the state of an interface that belongs to no version
    NoEvent     \* the listener handles no event

ASSUME ListenerAssumption ==
    /\ Stuck \subseteq Peers
    /\ Fragile \subseteq Peers
    /\ MaxWrites \in Nat
    /\ Half \notin 0 .. MaxWrites

Versions == 0 .. MaxWrites
EventIds == Nat \ {0}

RowState == [version : Versions, fresh : BOOLEAN, sound : BOOLEAN]
Event == [id : EventIds, peer : Peers, version : Versions, sound : BOOLEAN]
Transaction == [id : EventIds, peer : Peers, fresh : BOOLEAN, sound : BOOLEAN]

ASSUME NoEventAssumption == NoEvent \notin Event

VARIABLES
    row,      \* the table peers: fresh stands for provisioning or in error
    open,     \* transactions that have written their row and not committed
    events,   \* the table peer_change_events
    nextId,   \* the sequence of event_id
    writes,   \* writes by others so far
    applied,  \* the version that each interface has
    session,  \* the listener's connection
    notes,    \* notifications the session has not delivered yet
    at,       \* what the listener does next
    todo,     \* the events it has listed and not reached
    now,      \* the event it works on
    seen,     \* the row it has read for it
    faulty    \* whether calls may still fail and connections break

listenerVars ==
    <<row, open, events, nextId, writes, applied, session, notes, at, todo, now, seen, faulty>>
tableVars == <<row, events, nextId, notes>>
workVars == <<todo, now, seen>>

Sessions == {"none", "connected", "listening", "lost"}
Places ==
    {"connect", "subscribe", "list", "walk", "read", "apply", "activate", "ports", "ack",
     "wait", "sleep"}

(***************************************************************************)
(* Every variable keeps its type; notifications are not consumed twice.    *)
(***************************************************************************)
ListenerTypeOK ==
    /\ row \in [Peers -> RowState]
    /\ open \subseteq Transaction
    /\ events \subseteq Event
    /\ nextId \in EventIds
    /\ writes \in 0 .. MaxWrites
    /\ applied \in [Peers -> Versions \cup {Half}]
    /\ session \in Sessions
    /\ notes \in Nat
    /\ at \in Places
    /\ todo \subseteq Event
    /\ now \in Event \cup {NoEvent}
    /\ seen \in RowState
    /\ faulty \in BOOLEAN

Still == [version |-> 0, fresh |-> FALSE, sound |-> TRUE]

\* recover has just finished: main starts the listener.
Init ==
    /\ row = [p \in Peers |-> Still]
    /\ open = {}
    /\ events = {}
    /\ nextId = 1
    /\ writes = 0
    /\ applied = [p \in Peers |-> 0]
    /\ session = "none"
    /\ notes = 0
    /\ at = "connect"
    /\ todo = {}
    /\ now = NoEvent
    /\ seen = Still
    /\ faulty = TRUE

-----------------------------------------------------------------------------
(***************************************************************************)
(* The writers: requests and administrators.  The row lock lets one        *)
(* transaction at a time write a row.                                      *)
(***************************************************************************)
RowLocked(p) == \E t \in open : t.peer = p

BeginWrite(p, fresh, sound) ==
    /\ writes < MaxWrites
    /\ ~RowLocked(p)
    /\ sound \/ p \in Fragile
    /\ open' = open \cup {[id |-> nextId, peer |-> p, fresh |-> fresh, sound |-> sound]}
    /\ nextId' = nextId + 1
    /\ writes' = writes + 1
    /\ UNCHANGED <<row, events, applied, session, notes, at, workVars, faulty>>

\* The trigger's event and its notification become visible with the row.
Store(p, new, id) ==
    /\ row' = [row EXCEPT ![p] = new]
    /\ events' = events \cup {[id |-> id, peer |-> p, version |-> new.version, sound |-> new.sound]}
    /\ notes' = IF session = "listening" THEN notes + 1 ELSE notes

Commit(t) ==
    /\ t \in open
    /\ open' = open \ {t}
    /\ Store(t.peer, [version |-> row[t.peer].version + 1,
                      fresh |-> t.fresh, sound |-> t.sound], t.id)
    /\ UNCHANGED <<nextId, writes, applied, session, at, workVars, faulty>>

\* A rollback takes the event and the notification with it, not the id.
Rollback(t) ==
    /\ t \in open
    /\ open' = open \ {t}
    /\ UNCHANGED <<tableVars, writes, applied, session, at, workVars, faulty>>

(***************************************************************************)
(* An administrator who has repaired a row that cannot be read, which has  *)
(* left a new event, deletes the event that cannot be read.                *)
(***************************************************************************)
RemoveUnreadable(e) ==
    /\ e \in events
    /\ ~e.sound
    /\ \E other \in events : other.peer = e.peer /\ other.id > e.id /\ other.sound
    /\ events' = events \ {e}
    /\ UNCHANGED <<row, open, nextId, writes, applied, session, notes, at, workVars, faulty>>

(***************************************************************************)
(* The connection breaks; what it has not delivered is gone with it.       *)
(***************************************************************************)
Disconnect ==
    /\ faulty
    /\ session \in {"connected", "listening"}
    /\ session' = "lost"
    /\ notes' = 0
    /\ UNCHANGED <<row, open, events, nextId, writes, applied, at, workVars, faulty>>

-----------------------------------------------------------------------------
(***************************************************************************)
(* The outer loop: connect, subscribe, replay once, then wait.             *)
(***************************************************************************)
Connect(ok) ==
    /\ at = "connect"
    /\ ok \/ faulty
    /\ session' = IF ok THEN "connected" ELSE "none"
    /\ at' = IF ok THEN "subscribe" ELSE "sleep"
    /\ UNCHANGED <<tableVars, open, writes, applied, workVars, faulty>>

Subscribe(ok) ==
    /\ at = "subscribe"
    /\ ok => session = "connected"
    /\ ok \/ faulty \/ session = "lost"
    /\ session' = IF ok THEN "listening" ELSE "none"
    /\ at' = IF ok THEN "list" ELSE "sleep"
    /\ UNCHANGED <<tableVars, open, writes, applied, workVars, faulty>>

Sleep ==
    /\ at = "sleep"
    /\ at' = "connect"
    /\ UNCHANGED <<tableVars, open, writes, applied, session, workVars, faulty>>

(***************************************************************************)
(* The inner loop.  recv returns a notification that has arrived; when the *)
(* connection is lost it connects and subscribes again without a word, or  *)
(* returns the error that ends the loop.                                   *)
(***************************************************************************)
\* Faulty variant: what wakes the listener is not a notification.
Recv_Spurious ==
    /\ at = "wait"
    /\ notes' = notes - 1
    /\ at' = "list"
    /\ UNCHANGED <<row, open, events, nextId, writes, applied, session, workVars, faulty>>

Recv ==
    /\ at = "wait"
    /\ notes > 0
    /\ notes' = notes - 1
    /\ at' = "list"
    /\ UNCHANGED <<row, open, events, nextId, writes, applied, session, workVars, faulty>>

Resubscribe ==
    /\ at = "wait"
    /\ session = "lost"
    /\ session' = "listening"
    /\ UNCHANGED <<tableVars, open, writes, applied, at, workVars, faulty>>

RecvError ==
    /\ at = "wait"
    /\ session = "lost"
    /\ session' = "none"
    /\ at' = "sleep"
    /\ UNCHANGED <<tableVars, open, writes, applied, workVars, faulty>>

\* The interval of 30 seconds.
Retry ==
    /\ at = "wait"
    /\ at' = "list"
    /\ UNCHANGED <<tableVars, open, writes, applied, session, workVars, faulty>>

-----------------------------------------------------------------------------
(***************************************************************************)
(* sync_pending_peer_changes.  One event that row_to_peer refuses makes    *)
(* the whole list fail.                                                    *)
(***************************************************************************)
Readable == \A e \in events : e.sound

list_peer_changes(ok) ==
    /\ at = "list"
    /\ IF ok THEN Readable ELSE faulty \/ ~Readable
    /\ todo' = IF ok THEN events ELSE {}
    /\ at' = IF ok THEN "walk" ELSE "wait"
    /\ UNCHANGED <<tableVars, open, writes, applied, session, now, seen, faulty>>

\* ORDER BY event_id.
Lowest(set) == CHOOSE e \in set : \A other \in set : e.id <= other.id

Walk ==
    /\ at = "walk"
    /\ IF todo = {}
         THEN /\ at' = "wait"
              /\ UNCHANGED <<todo, now>>
         ELSE /\ at' = "read"
              /\ now' = Lowest(todo)
              /\ todo' = todo \ {now'}
    /\ UNCHANGED <<tableVars, open, writes, applied, session, seen, faulty>>

\* The loop goes on with the next event, whether this one succeeded or not.
Loop ==
    /\ at' = "walk"
    /\ now' = NoEvent
    /\ seen' = Still
    /\ UNCHANGED todo

\* get_peer_by_id: apply_peer_change looks at the row, not at the event.
ReadRow(ok) ==
    /\ at = "read"
    /\ IF ok THEN row[now.peer].sound ELSE faulty \/ ~row[now.peer].sound
    /\ IF ok
         THEN /\ at' = "apply"
              /\ seen' = row[now.peer]
              /\ UNCHANGED <<todo, now>>
         ELSE Loop
    /\ UNCHANGED <<tableVars, open, writes, applied, session, faulty>>

(***************************************************************************)
(* apply_peer, or remove_external_state for a row that asks for no         *)
(* interface.  Both also list all the peers to rebuild the configuration   *)
(* of BIRD, which a single unreadable row prevents.  A failure may leave   *)
(* the interface as it was, half way or done.                              *)
(***************************************************************************)
AllRowsSound == \A p \in Peers : row[p].sound

\* Faulty variant: the walk ends with the first change that fails.
Apply_StopAtError(ok) ==
    /\ at = "apply"
    /\ IF ok THEN AllRowsSound /\ now.peer \notin Stuck
       ELSE faulty \/ ~AllRowsSound \/ now.peer \in Stuck
    /\ \E result \in {seen.version} \cup (IF ok THEN {} ELSE {applied[now.peer], Half}) :
         applied' = [applied EXCEPT ![now.peer] = result]
    /\ IF ok
         THEN /\ at' = IF seen.fresh THEN "activate" ELSE "ports"
              /\ UNCHANGED workVars
         ELSE /\ at' = "wait"
              /\ todo' = {}
              /\ now' = NoEvent
              /\ seen' = Still
    /\ UNCHANGED <<tableVars, open, writes, session, faulty>>

Apply(ok) ==
    /\ at = "apply"
    /\ IF ok THEN AllRowsSound /\ now.peer \notin Stuck
       ELSE faulty \/ ~AllRowsSound \/ now.peer \in Stuck
    /\ \E result \in {seen.version} \cup (IF ok THEN {} ELSE {applied[now.peer], Half}) :
         applied' = [applied EXCEPT ![now.peer] = result]
    /\ IF ok
         THEN /\ at' = IF seen.fresh THEN "activate" ELSE "ports"
              /\ UNCHANGED workVars
         ELSE Loop
    /\ UNCHANGED <<tableVars, open, writes, session, faulty>>

\* set_status to Active, itself a write of the row with an event of its own.
Activate(ok) ==
    /\ at = "activate"
    /\ ok \/ faulty
    /\ ~RowLocked(now.peer)
    /\ \/ /\ Store(now.peer, [row[now.peer] EXCEPT !.fresh = FALSE], nextId)
          /\ nextId' = nextId + 1
       \/ ~ok /\ UNCHANGED tableVars
    /\ IF ok
         THEN at' = "ports" /\ UNCHANGED workVars
         ELSE Loop
    /\ UNCHANGED <<open, writes, applied, session, faulty>>

\* sync_nft_ports.
SyncPorts(ok) ==
    /\ at = "ports"
    /\ IF ok THEN AllRowsSound ELSE faulty \/ ~AllRowsSound
    /\ IF ok
         THEN at' = "ack" /\ UNCHANGED workVars
         ELSE Loop
    /\ UNCHANGED <<tableVars, open, writes, applied, session, faulty>>

\* Faulty variant: all events of the peer are deleted.
Ack_ByPeer(ok) ==
    /\ at = "ack"
    /\ ok \/ faulty
    /\ \/ events' = {e \in events : e.peer # now.peer}
       \/ ~ok /\ UNCHANGED events
    /\ Loop
    /\ UNCHANGED <<row, open, nextId, writes, applied, session, notes, faulty>>

\* delete_peer_change.
Ack(ok) ==
    /\ at = "ack"
    /\ ok \/ faulty
    /\ \/ events' = events \ {now}
       \/ ~ok /\ UNCHANGED events
    /\ Loop
    /\ UNCHANGED <<row, open, nextId, writes, applied, session, notes, faulty>>

-----------------------------------------------------------------------------
ListenerStep ==
    \/ Sleep \/ Recv \/ Resubscribe \/ RecvError \/ Retry \/ Walk
    \/ \E ok \in BOOLEAN :
        \/ Connect(ok) \/ Subscribe(ok) \/ list_peer_changes(ok)
        \/ ReadRow(ok) \/ Apply(ok) \/ Activate(ok) \/ SyncPorts(ok) \/ Ack(ok)

Heal ==
    /\ faulty
    /\ faulty' = FALSE
    /\ UNCHANGED <<tableVars, open, writes, applied, session, at, workVars>>

WriterStep ==
    \/ \E p \in Peers, fresh, sound \in BOOLEAN : BeginWrite(p, fresh, sound)
    \/ \E t \in open : Commit(t) \/ Rollback(t)
    \/ \E e \in events : RemoveUnreadable(e)

Next == ListenerStep \/ WriterStep \/ Disconnect \/ Heal

Spec == Init /\ [][Next]_listenerVars

(***************************************************************************)
(* The listener is a task that the runtime polls, and its interval fires   *)
(* every 30 seconds.  A transaction ends.  Failures and broken connections *)
(* come to an end; unreadable rows need not be repaired, and no writer has *)
(* to write.                                                               *)
(***************************************************************************)
LiveSpec ==
    /\ Spec
    /\ WF_listenerVars(ListenerStep)
    /\ WF_listenerVars(Heal)
    /\ WF_listenerVars(\E t \in open : Commit(t) \/ Rollback(t))

-----------------------------------------------------------------------------
(***************************************************************************)
(* Every change is applied in the end and its event deleted, although      *)
(* notifications are lost with the connection, events appear out of order, *)
(* other peers fail in every replay, and the listener writes events        *)
(* itself.  The exceptions: the peers that cannot be applied, and all of   *)
(* them as long as there is a row or an event that cannot be read.         *)
(***************************************************************************)
Delivered ==
    <>[](\/ ~Readable \/ ~AllRowsSound
         \/ \A p \in Peers \ Stuck :
              /\ applied[p] = row[p].version
              /\ ~row[p].fresh
              /\ \A e \in events : e.peer # p)

Outbox == INSTANCE PeerOutbox WITH
    Devices <- Versions \cup {Half},
    target  <- [p \in Peers |-> row[p].version],
    resting <- {p \in Peers : ~row[p].fresh},
    actual  <- applied,
    pending <- {e.peer : e \in events},
    open    <- TRUE

(***************************************************************************)
(* The replay keeps the rules of PeerOutbox: an interface is touched only  *)
(* under an event of its peer, and the last event of a peer is deleted     *)
(* only when the latest version of the row, not the one that was read, has *)
(* been applied.                                                           *)
(***************************************************************************)
ReplayKeepsOutbox == Outbox!Spec

=============================================================================
