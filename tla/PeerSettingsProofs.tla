------------------------- MODULE PeerSettingsProofs -------------------------
(***************************************************************************)
(* Proofs about PeerSettings, for all keys, endpoints, addresses, MTUs and *)
(* requests: the types, what a successful answer means, what compensation  *)
(* leaves, and that one replay repairs everything.                         *)
(***************************************************************************)
EXTENDS PeerSettings, PeerFlowProofs, TLAPS

-----------------------------------------------------------------------------
(***************************************************************************)
(* The inductive invariant.  What the answer of an operation says about    *)
(* the row, the interface and BIRD was established call by call, so the    *)
(* invariant says for each place what has been established there.          *)
(***************************************************************************)

\* The calls within a phase.
StepsOf(f) ==
    CASE f = "ensure"    -> {"link", "device"}
      [] f = "configure" -> {"resolve", "device", "address"}
      [] OTHER           -> {"first"}

\* The event of a replay is deleted in the step that ends the replay, and the
\* reconciler of the port set is not part of PeerSettings.
Places == work.phase \in PhasesOf(work.stage) \ {"ack"} /\ work.stage # "reconcile"

PlaceOK ==
    /\ SettingsTypeOK
    /\ Places
    /\ work.step \in StepsOf(work.phase)

\* Every error is counted, and none is a success.
ErrorOK ==
    /\ work.phase # "idle" => (work.failures = 0 <=> work.error = 0)
    /\ work.error \in {0, 400, 404, 409, 500}
    /\ work.stage \in {"create", "update", "delete"} \cup Replays => work.failures = 0
    /\ work.stage \in {"undo_create", "undo_update", "unmark", "undo_delete"}
         => work.failures # 0

\* What the operation remembers: the JSON, the settings that it applies, those
\* it has read, and those that were in force when it began.
MemoryOK ==
    /\ work.stage \in {"create", "undo_create", "update", "undo_update"}
         => work.ask \in Payload /\ Parses(work.ask)
    /\ work.stage \in {"delete", "unmark", "undo_delete"} => work.ask = None
    /\ work.stage = "create" /\ work.phase # "reserve"
         => work.want = build_peer(work.ask) /\ work.before = None
    /\ work.stage = "undo_create" => work.before = None
    /\ work.stage = "update" /\ work.phase # "read"
         => /\ work.old \in Settings
            /\ work.before = work.old
            /\ work.want = desired_peer(work.ask, work.old)
    /\ work.stage = "undo_update"
         => work.old \in Settings /\ work.before = work.old /\ work.want = work.old
    /\ work.stage \in {"delete", "unmark", "undo_delete"} /\ work.phase # "read"
         => /\ work.old \in Settings
            /\ work.calm => work.before = work.old
    /\ work.stage = "undo_delete" => work.want = work.old
    /\ work.stage \in {"reapply", "promote"}
         => work.want \in Settings /\ work.before = work.want
    /\ work.stage \in {"purge", "withdraw"} => work.before = None

\* The last phases of a function that applies settings.
LastPhases(s) == IF s = "undo_delete" THEN NftPhases ELSE NftPhases \cup {"activate"}

StatusAt(s, f) ==
    IF s \in {"undo_delete", "reapply"} \/ (s = "promote" /\ f \in NftPhases)
      THEN "active" ELSE "provisioning"

\* The row at each place.
RowOK ==
    /\ work.stage \in ApplyStages /\ work.phase \in ApplyPhases \cup LastPhases(work.stage)
         => row = [settings |-> work.want, status |-> StatusAt(work.stage, work.phase)]
    /\ work.stage = "update" /\ work.phase = "desire"
         => row # None /\ row.settings = work.old /\ row.status # "deleting"
    /\ work.stage = "undo_update" /\ work.phase = "desire" => row # None
    /\ work.stage = "undo_delete" /\ work.phase = "activate"
         => row # None /\ row.settings = work.old
    /\ work.stage = "unmark" => row # None /\ row.settings = work.old
    /\ work.stage = "delete" /\ work.phase # "read"
         => /\ row # None
            /\ row.settings = work.old
            /\ work.phase # "mark" => row.status = "deleting"
    /\ work.stage = "undo_create" /\ work.phase = "mark" => row # None
    /\ work.stage = "undo_create" /\ work.failures = 1
         => /\ work.phase \in RemovePhases \cup {"drop_row"}
                 => row # None /\ row.status = "deleting"
            /\ work.phase \in NftPhases => row = None
    /\ work.stage = "purge"
         => IF work.phase \in NftPhases THEN row = None
            ELSE row # None /\ row.status = "deleting"
    /\ work.stage = "withdraw" => row = None

\* What has been applied when a place of apply_peer is reached.
AppliedOK ==
    work.stage \in ApplyStages =>
      /\ work.phase = "ensure" /\ work.step = "device" => iface # None
      /\ work.phase = "configure"
           => iface # None /\ iface.named /\ iface.mtu = work.want.mtu
      /\ work.phase = "configure" /\ work.step = "address"
           => iface.pubkey = work.want.pubkey /\ iface.endpoint = work.want.endpoint
      /\ work.phase \in BirdPhases \cup LastPhases(work.stage) => Carries(iface, work.want)
      /\ work.phase \in LastPhases(work.stage) => bird = SessionOf(work.want)

\* What is gone when a place of remove_external_state is reached.
Gone == IF work.stage = "delete" THEN {"drop_row"} ELSE {"drop_row"} \cup NftPhases

RemovedOK ==
    work.stage \in RemoveStages /\ (work.stage = "undo_create" => work.failures = 1) =>
      /\ work.phase \in {"remove_if"} \cup Gone => bird = None
      /\ work.phase \in Gone => iface = None

\* The interface and BIRD have the settings s.
Holds(s) == Carries(iface, s) /\ bird = SessionOf(s)

\* While an operation has not touched anything, what was in order still is.
Untouched ==
    /\ work.phase \in {"reserve", "read"}
         => /\ work.before = InForce
            /\ work.calm => InOrder /\ (row # None => row.status # "deleting")
    /\ work.stage = "update" /\ work.phase = "desire" /\ work.calm => Holds(work.old)
    /\ work.stage = "delete" /\ work.phase \in {"mark"} \cup NftPhases /\ work.calm
         => Holds(work.old)
    /\ work.stage = "delete" /\ work.phase = "mark" /\ work.calm => row.status # "deleting"
    /\ work.stage = "unmark" /\ work.calm => Holds(work.old)
    /\ work.stage \in {"reapply", "promote"} /\ work.phase \in {"ensure", "configure"} /\ work.calm
         => Holds(work.want)

SettingsInv ==
    PlaceOK /\ ErrorOK /\ MemoryOK /\ RowOK /\ AppliedOK /\ RemovedOK /\ Untouched

-----------------------------------------------------------------------------
(***************************************************************************)
(* Lemmas about the steps.  Where an operation stands after Move.          *)
(***************************************************************************)
Place == [stage : Stages, phase : Phases]

LEMMA MoveOn ==
    ASSUME NEW t \in Place, t.phase \notin {"idle", "ack"},
           NEW now \in Work, Move(t, now)
    PROVE  /\ work' \in Work
           /\ work'.stage = t.stage
           /\ work'.phase = t.phase
           /\ work'.step = FirstStep(t.phase)
           /\ work'.want = Restored(t.stage, now)
           /\ work'.ask = now.ask
           /\ work'.old = now.old
           /\ work'.error = now.error
           /\ work'.failures = now.failures
           /\ work'.before = now.before
           /\ work'.calm = now.calm
           /\ answer' = answer
<1>1. work' = [now EXCEPT !.stage = t.stage, !.phase = t.phase,
                          !.step = FirstStep(t.phase), !.want = Restored(t.stage, now)]
  BY DEF Move
<1>2. FirstStep(t.phase) \in Steps
  BY DEF FirstStep, Steps
<1>3. Restored(t.stage, now) \in Settings \cup {None}
  BY DEF Restored, Work
<1>4. work' \in Work
  BY <1>1, <1>2, <1>3 DEF Work, Place
<1>. QED BY <1>1, <1>4 DEF Work, Move

LEMMA RestingOK ==
    ASSUME NEW n \in 0 .. 2
    PROVE  /\ [Resting EXCEPT !.failures = n] \in Work
           /\ Resting \in Work
<1>1. 0 \in 0 .. 2
  OBVIOUS
<1>2. "ready" \in Stages /\ "idle" \in Phases /\ "first" \in Steps
  BY DEF Stages, Phases, Steps
<1>3. Resting \in Work
  BY <1>1, <1>2, Zenon DEF Resting, Work
<1>. QED BY <1>3 DEF Work

LEMMA MoveEnd ==
    ASSUME NEW t \in Place, t.phase \in {"idle", "ack"},
           NEW now \in Work, Move(t, now)
    PROVE  /\ work' \in Work
           /\ work'.stage = "ready"
           /\ work'.phase = "idle"
           /\ work'.step = "first"
           /\ work'.error = 0
           /\ work'.failures = now.failures
           /\ answer' = AnswerAt(t.stage, now.error)
<1>1. work' = [Resting EXCEPT !.failures = now.failures] /\ answer' = AnswerAt(t.stage, now.error)
  BY DEF Move
<1>2. work' \in Work
  BY <1>1, RestingOK DEF Work
<1>. QED BY <1>1, <1>2 DEF Resting, Work

\* Nothing is claimed about an operation that has returned.
LEMMA IdleOK ==
    ASSUME row' \in RowType \cup {None}, iface' \in Interface \cup {None},
           bird' \in Session \cup {None}, answer' \in HttpStatus \cup {0},
           work' \in Work, work'.stage = "ready", work'.phase = "idle",
           work'.step = "first", work'.error = 0
    PROVE  SettingsInv'
<1>1. PlaceOK'
  BY DEF PlaceOK, SettingsTypeOK, Places, PhasesOf, StepsOf
<1>2. ErrorOK' /\ MemoryOK' /\ RowOK' /\ AppliedOK' /\ RemovedOK' /\ Untouched'
  BY DEF ErrorOK, MemoryOK, RowOK, AppliedOK, RemovedOK, Untouched, ApplyStages, RemoveStages,
         Replays
<1>. QED BY <1>1, <1>2 DEF SettingsInv

(***************************************************************************)
(* A call that fails, whatever it has changed, as long as it has not taken *)
(* away what compensation relies on.                                       *)
(***************************************************************************)
FailsSafely ==
    /\ row' \in RowType \cup {None}
    /\ iface' \in Interface \cup {None}
    /\ bird' \in Session \cup {None}
    /\ work.stage = "create" /\ work.phase # "reserve" => row' # None
    /\ work.stage = "update" /\ work.phase \in ApplyPhases => row' # None
    /\ work.stage = "delete" /\ work.phase \in NftPhases => UNCHANGED <<row, iface, bird>>
    /\ work.stage = "delete" /\ work.phase \in RemovePhases => UNCHANGED row

Erring(status) ==
    [work EXCEPT !.error = IF @ = 0 THEN status ELSE @,
                 !.failures = IF @ = 2 THEN 2 ELSE @ + 1]

LEMMA CountedOK ==
    ASSUME NEW w \in Work, NEW e \in HttpStatus \cup {0}, NEW n \in 0 .. 2
    PROVE  [w EXCEPT !.error = e, !.failures = n] \in Work
  BY DEF Work

LEMMA ErringOK ==
    ASSUME SettingsInv, NEW status \in {400, 404, 409, 500}
    PROVE  /\ Erring(status) \in Work
           /\ Erring(status).error = IF work.error = 0 THEN status ELSE work.error
           /\ Erring(status).error \in {400, 404, 409, 500}
           /\ Erring(status).failures = IF work.failures = 2 THEN 2 ELSE work.failures + 1
           /\ Erring(status).failures # 0
           /\ Erring(status).stage = work.stage
           /\ Erring(status).ask = work.ask
           /\ Erring(status).want = work.want
           /\ Erring(status).old = work.old
           /\ Erring(status).before = work.before
           /\ Erring(status).calm = work.calm
<1>1. work \in Work /\ work.error \in {0, 400, 404, 409, 500} /\ work.failures \in 0 .. 2
  BY DEF SettingsInv, PlaceOK, SettingsTypeOK, ErrorOK, Work
<1>2. (IF work.failures = 2 THEN 2 ELSE work.failures + 1) \in 1 .. 2
  BY <1>1
<1>. DEFINE n == IF work.failures = 2 THEN 2 ELSE work.failures + 1
            e == IF work.error = 0 THEN status ELSE work.error
<1>3. n \in 0 .. 2 /\ n # 0 /\ e \in {400, 404, 409, 500}
  BY <1>1, <1>2
<1>4. Erring(status) = [work EXCEPT !.error = e, !.failures = n]
  BY <1>1 DEF Erring, Work
<1>. HIDE DEF n, e
<1>5. Erring(status) \in Work
  <2>1. e \in HttpStatus \cup {0}
    BY <1>3 DEF HttpStatus
  <2>2. work \in Work /\ n \in 0 .. 2
    BY <1>1, <1>3
  <2>3. [work EXCEPT !.error = e, !.failures = n] \in Work
    BY <2>1, <2>2, CountedOK
  <2>. QED BY <1>4, <2>3
<1>6. Erring(status).error = e /\ Erring(status).failures = n
  BY <1>1, <1>4 DEF Work
<1>7. /\ Erring(status).stage = work.stage /\ Erring(status).ask = work.ask
      /\ Erring(status).want = work.want /\ Erring(status).old = work.old
      /\ Erring(status).before = work.before /\ Erring(status).calm = work.calm
  BY <1>1, <1>4 DEF Work
<1>. QED BY <1>3, <1>5, <1>6, <1>7 DEF n, e

LEMMA TurnPlaces ==
    ASSUME NEW s, NEW f, NEW t, ErrorTurn(s, f, t)
    PROVE  t \in Place
  BY DEF ErrorTurn, Return, At, Place, Stages, Phases

LEMMA FailKeepsInv ==
    ASSUME SettingsInv, ~Idle, FailsSafely,
           NEW status \in {400, 404, 409, 500}, FailWith(status)
    PROVE  SettingsInv'
<1>. DEFINE t == Program(work.stage, work.phase).err
            now == Erring(status)
<1>1. Move(t, now)
  BY DEF FailWith, Erring
<1>2. work.stage \in Stages /\ work.phase \in PhasesOf(work.stage) /\ work.phase # "idle"
  BY DEF SettingsInv, PlaceOK, SettingsTypeOK, Work, Places, Idle
<1>3. ErrorTurn(work.stage, work.phase, t)
  BY <1>2, ErrorFlow
<1>4. t \in Place
  BY <1>3, TurnPlaces
<1>5. /\ now \in Work /\ now.error \in {400, 404, 409, 500} /\ now.failures # 0
      /\ now.failures = IF work.failures = 2 THEN 2 ELSE work.failures + 1
      /\ now.stage = work.stage /\ now.ask = work.ask /\ now.want = work.want
      /\ now.old = work.old /\ now.before = work.before /\ now.calm = work.calm
  BY ErringOK
<1>. HIDE DEF t, now
<1>6. CASE t \in {Return("failed"), Return("ready")}
  <2>1. t.phase = "idle" /\ t.stage \in {"failed", "ready"}
    BY <1>6 DEF Return, At
  <2>2. answer' \in HttpStatus
    BY <1>1, <1>4, <1>5, <2>1, MoveEnd DEF AnswerAt, HttpStatus
  <2>. QED BY <1>1, <1>4, <1>5, <2>1, <2>2, MoveEnd, IdleOK DEF FailsSafely
<1>7. ASSUME t.phase \notin {"idle", "ack"}
      PROVE  /\ work' \in Work /\ answer' = answer
             /\ work'.stage = t.stage /\ work'.phase = t.phase
             /\ work'.step = FirstStep(t.phase)
             /\ work'.want = (IF t.stage \in {"undo_update", "undo_delete"} THEN work.old
                              ELSE work.want)
             /\ work'.ask = work.ask /\ work'.old = work.old /\ work'.before = work.before
             /\ work'.calm = work.calm /\ work'.error = now.error
             /\ work'.failures = now.failures
  BY <1>1, <1>4, <1>5, <1>7, MoveOn DEF Restored
<1>8. ASSUME t.phase \notin {"idle", "ack"},
             t.stage \in {"undo_create", "undo_update", "unmark", "undo_delete"},
             t.phase \in {"mark", "bird_list", "nft_list", "desire", "activate"},
             t.phase \in PhasesOf(t.stage)
      PROVE  PlaceOK' /\ ErrorOK'
  <2>1. SettingsTypeOK'
    BY <1>7, <1>8 DEF SettingsInv, PlaceOK, SettingsTypeOK, FailsSafely
  <2>2. Places' /\ (work.step \in StepsOf(work.phase))'
    BY <1>7, <1>8 DEF Places, StepsOf, FirstStep
  <2>3. ErrorOK'
    BY <1>5, <1>7, <1>8 DEF ErrorOK, Replays
  <2>. QED BY <2>1, <2>2, <2>3 DEF PlaceOK
<1>. USE DEF At, ApplyStages, RemoveStages, PhasesOf, NftPhases, BirdPhases, RemovePhases,
             ApplyPhases
<1>9. CASE t = At("undo_create", "mark") /\ work.stage = "create" /\ work.phase # "reserve"
  <2>1. PlaceOK' /\ ErrorOK'
    BY <1>8, <1>9
  <2>2. MemoryOK'
    BY <1>7, <1>9 DEF SettingsInv, MemoryOK
  <2>3. RowOK' /\ AppliedOK' /\ RemovedOK' /\ Untouched'
    BY <1>7, <1>9 DEF RowOK, AppliedOK, RemovedOK, Untouched, FailsSafely, Gone
  <2>. QED BY <2>1, <2>2, <2>3 DEF SettingsInv
<1>10. CASE t \in {At("undo_create", "bird_list"), At("undo_create", "nft_list")}
            /\ work.stage = "undo_create"
  <2>1. PlaceOK' /\ ErrorOK'
    BY <1>8, <1>10
  <2>2. MemoryOK'
    BY <1>7, <1>10 DEF SettingsInv, MemoryOK
  <2>3. work'.failures = 2
    <3>1. work.failures # 0 /\ work.failures \in 0 .. 2
      BY <1>10 DEF SettingsInv, ErrorOK, PlaceOK, SettingsTypeOK, Work
    <3>. QED BY <1>5, <1>7, <1>10, <3>1
  <2>4. RowOK' /\ AppliedOK' /\ RemovedOK' /\ Untouched'
    BY <1>7, <1>10, <2>3 DEF RowOK, AppliedOK, RemovedOK, Untouched, FailsSafely, Gone
  <2>. QED BY <2>1, <2>2, <2>4 DEF SettingsInv
<1>11. CASE t = At("undo_update", "desire") /\ work.stage = "update" /\ work.phase \in ApplyPhases
  <2>1. PlaceOK' /\ ErrorOK'
    BY <1>8, <1>11
  <2>2. MemoryOK'
    BY <1>7, <1>11 DEF SettingsInv, MemoryOK
  <2>3. RowOK' /\ AppliedOK' /\ RemovedOK' /\ Untouched'
    BY <1>7, <1>11 DEF RowOK, AppliedOK, RemovedOK, Untouched, FailsSafely, Gone, LastPhases
  <2>. QED BY <2>1, <2>2, <2>3 DEF SettingsInv
<1>12. CASE t = At("unmark", "activate") /\ work.stage = "delete" /\ work.phase \in NftPhases
  <2>1. PlaceOK' /\ ErrorOK'
    BY <1>8, <1>12
  <2>2. MemoryOK'
    BY <1>7, <1>12 DEF SettingsInv, MemoryOK
  <2>3. UNCHANGED <<row, iface, bird>>
    BY <1>12 DEF FailsSafely
  <2>4. row # None /\ row.settings = work.old /\ (work.calm => Holds(work.old))
    BY <1>12 DEF SettingsInv, RowOK, Untouched
  <2>5. RowOK' /\ AppliedOK' /\ RemovedOK'
    BY <1>7, <1>12, <2>3, <2>4 DEF RowOK, AppliedOK, RemovedOK
  <2>6. Untouched'
    BY <1>7, <1>12, <2>3, <2>4 DEF Untouched, Holds, Carries
  <2>. QED BY <2>1, <2>2, <2>5, <2>6 DEF SettingsInv
<1>13. CASE /\ t = At("undo_delete", "activate")
            /\ work.stage = "delete" /\ work.phase \in RemovePhases
  <2>1. PlaceOK' /\ ErrorOK'
    BY <1>8, <1>13
  <2>2. MemoryOK'
    BY <1>7, <1>13 DEF SettingsInv, MemoryOK
  <2>3. row # None /\ row.settings = work.old /\ row' = row
    BY <1>13 DEF SettingsInv, RowOK, FailsSafely
  <2>4. RowOK' /\ AppliedOK' /\ RemovedOK' /\ Untouched'
    BY <1>7, <1>13, <2>3 DEF RowOK, AppliedOK, RemovedOK, Untouched, LastPhases
  <2>. QED BY <2>1, <2>2, <2>4 DEF SettingsInv
<1>. QED BY <1>3, <1>6, <1>9, <1>10, <1>11, <1>12, <1>13 DEF ErrorTurn

-----------------------------------------------------------------------------
(***************************************************************************)
(* The settings made of a request that parses are settings, and they are   *)
(* what the API describes.                                                 *)
(***************************************************************************)
LEMMA PartsOK ==
    ASSUME NEW ask \in Payload, Parses(ask)
    PROVE  /\ ask.pubkey \in PubKeys
           /\ parse_endpoint(ask.endpoint) \in Endpoints \cup {None}
           /\ LocalOf(ask) \in Addresses
           /\ RemoteOf(ask) \in Addresses
           /\ ask.mtu \in Mtus \cup {Absent, Null}
<1>1. parse_endpoint(ask.endpoint) \in Endpoints \cup {None}
  BY DEF parse_endpoint, Endpoints
<1>2. LocalOf(ask) \in Addresses /\ RemoteOf(ask) \in Addresses
  BY SettingsAssumption DEF Parses, ValidLinkLocal, LocalOf, RemoteOf
<1>. QED BY <1>1, <1>2 DEF Payload

LEMMA BuildOK ==
    ASSUME NEW ask \in Payload, Parses(ask)
    PROVE  /\ build_peer(ask) \in Settings
           /\ Follows(build_peer(ask), ask, None)
<1>1. build_peer(ask) \in Settings
  BY PartsOK DEF build_peer, Settings
<1>2. Follows(build_peer(ask), ask, None)
  BY PartsOK, SettingsAssumption
     DEF build_peer, Follows, parse_endpoint, LocalOf, RemoteOf, Parses, ValidEndpoint
<1>. QED BY <1>1, <1>2

LEMMA DesiredOK ==
    ASSUME NEW ask \in Payload, Parses(ask), NEW old \in Settings
    PROVE  /\ desired_peer(ask, old) \in Settings
           /\ Follows(desired_peer(ask, old), ask, old)
<1>1. old # None
  BY NoneAssumption
<1>2. desired_peer(ask, old) \in Settings
  <2>1. old.endpoint \in Endpoints \cup {None} /\ old.mtu \in Mtus \cup {DefaultMtu}
    BY DEF Settings
  <2>. QED BY PartsOK, <2>1 DEF desired_peer, Settings
<1>3. Follows(desired_peer(ask, old), ask, old)
  BY <1>1, PartsOK, SettingsAssumption
     DEF desired_peer, Follows, parse_endpoint, LocalOf, RemoteOf, Parses, ValidEndpoint
<1>. QED BY <1>2, <1>3

(***************************************************************************)
(* The start of an operation.                                              *)
(***************************************************************************)
LEMMA InForceOK ==
    ASSUME row \in RowType \cup {None}
    PROVE  InForce \in Settings \cup {None}
  BY DEF InForce, RowType

LEMMA StartFields ==
    ASSUME SettingsInv, NEW stage \in Stages, NEW phase \in Phases,
           NEW ask \in Payload \cup {None}, Start(stage, phase, ask)
    PROVE  /\ work' \in Work
           /\ work'.stage = stage /\ work'.phase = phase /\ work'.step = "first"
           /\ work'.ask = ask /\ work'.error = 0 /\ work'.failures = 0
           /\ work'.before = InForce /\ work'.had = AddressesOf(iface)
           /\ work'.calm => InOrder /\ (row # None => row.status # "deleting")
           /\ answer' = 0
           /\ UNCHANGED <<row, iface, bird>>
<1>. DEFINE calm == InOrder /\ (row # None => row.status # "deleting")
<1>1. calm \in BOOLEAN
  BY DEF InOrder
<1>2. /\ InForce \in Settings \cup {None}
      /\ AddressesOf(iface) \in SUBSET Addresses
  BY InForceOK DEF SettingsInv, PlaceOK, SettingsTypeOK, AddressesOf, Interface
<1>3. /\ work' = [Resting EXCEPT !.stage = stage, !.phase = phase, !.ask = ask,
                                 !.before = InForce, !.had = AddressesOf(iface),
                                 !.calm = calm]
      /\ answer' = 0
      /\ UNCHANGED <<row, iface, bird>>
  BY DEF Start
<1>. HIDE DEF calm
<1>4. 0 \in 0 .. 2 /\ Resting \in Work
  BY RestingOK
<1>5. work' \in Work
  BY <1>1, <1>2, <1>3, <1>4 DEF Work
<1>6. /\ work'.stage = stage /\ work'.phase = phase /\ work'.step = "first"
      /\ work'.ask = ask /\ work'.error = 0 /\ work'.failures = 0
      /\ work'.before = InForce /\ work'.had = AddressesOf(iface)
  BY <1>3 DEF Resting
<1>7. work'.calm = calm
  BY <1>3, <1>4 DEF Work
<1>. QED BY <1>3, <1>5, <1>6, <1>7 DEF calm

LEMMA StartKeepsInv ==
    ASSUME SettingsInv,
           \/ \E ask \in Requests : StartCreate(ask) \/ StartUpdate(ask)
           \/ StartDelete
           \/ Replay
    PROVE  SettingsInv'
<1>1. PICK stage \in {"create", "update", "delete", "change"}, phase \in {"reserve", "read"},
           ask \in Payload \cup {None} :
        /\ Start(stage, phase, ask)
        /\ phase \in PhasesOf(stage)
        /\ stage = "create" <=> phase = "reserve"
        /\ stage \in {"create", "update"} => ask \in Payload /\ Parses(ask)
        /\ stage = "delete" => ask = None
  <2>1. ASSUME NEW ask \in Requests, StartCreate(ask)
        PROVE  /\ ask \in Payload /\ Parses(ask)
               /\ Start("create", "reserve", ask) /\ "reserve" \in PhasesOf("create")
    BY <2>1, SettingsAssumption DEF StartCreate, PhasesOf
  <2>2. ASSUME NEW ask \in Requests, StartUpdate(ask)
        PROVE  /\ ask \in Payload /\ Parses(ask)
               /\ Start("update", "read", ask) /\ "read" \in PhasesOf("update")
    BY <2>2, SettingsAssumption DEF StartUpdate, PhasesOf
  <2>3. ASSUME StartDelete
        PROVE  Start("delete", "read", None) /\ "read" \in PhasesOf("delete")
    BY <2>3 DEF StartDelete, PhasesOf
  <2>4. ASSUME Replay
        PROVE  Start("change", "read", None) /\ "read" \in PhasesOf("change")
    BY <2>4 DEF Replay, PhasesOf
  <2>. QED BY <2>1, <2>2, <2>3, <2>4
<1>2. stage \in Stages /\ phase \in Phases
  BY DEF Stages, Phases
<1>3. /\ work' \in Work
      /\ work'.stage = stage /\ work'.phase = phase /\ work'.step = "first"
      /\ work'.ask = ask /\ work'.error = 0 /\ work'.failures = 0
      /\ work'.before = InForce
      /\ work'.calm => InOrder /\ (row # None => row.status # "deleting")
      /\ answer' = 0
      /\ UNCHANGED <<row, iface, bird>>
  BY <1>1, <1>2, StartFields
<1>4. PlaceOK'
  BY <1>1, <1>3 DEF SettingsInv, PlaceOK, SettingsTypeOK, Places, StepsOf
<1>5. ErrorOK' /\ MemoryOK'
  BY <1>1, <1>3 DEF ErrorOK, MemoryOK, Replays
<1>6. RowOK' /\ AppliedOK' /\ RemovedOK'
  BY <1>1, <1>3 DEF RowOK, AppliedOK, RemovedOK, ApplyStages, RemoveStages, ApplyPhases,
                    NftPhases, BirdPhases, LastPhases, Gone
<1>7. InForce' = InForce /\ InOrder' = InOrder
  BY <1>3 DEF InForce, InOrder, Carries
<1>8. Untouched'
  BY <1>1, <1>3, <1>7 DEF Untouched, NftPhases
<1>. QED BY <1>4, <1>5, <1>6, <1>8 DEF SettingsInv

LEMMA Advance ==
    ASSUME NEW s \in Stages, NEW f \in Phases \ {"idle", "ack"}, NEW now \in Work,
           Move(At(s, f), now)
    PROVE  /\ work' \in Work /\ answer' = answer
           /\ work'.stage = s /\ work'.phase = f /\ work'.step = FirstStep(f)
           /\ work'.want = (IF s \in {"undo_update", "undo_delete"} THEN now.old ELSE now.want)
           /\ work'.ask = now.ask /\ work'.old = now.old
           /\ work'.error = now.error /\ work'.failures = now.failures
           /\ work'.before = now.before /\ work'.calm = now.calm
<1>1. At(s, f) \in Place /\ At(s, f).stage = s /\ At(s, f).phase = f
  BY DEF At, Place
<1>. QED BY <1>1, MoveOn DEF Restored

\* A step that leads to another place of the same or the next function.
LEMMA AdvancedPlace ==
    ASSUME SettingsInv,
           row' \in RowType \cup {None}, iface' \in Interface \cup {None},
           bird' \in Session \cup {None},
           work' \in Work, answer' = answer, work'.phase \in PhasesOf(work'.stage) \ {"ack"},
           work'.stage # "reconcile", work'.step = FirstStep(work'.phase)
    PROVE  PlaceOK'
<1>1. SettingsTypeOK'
  BY DEF SettingsInv, PlaceOK, SettingsTypeOK
<1>2. (work.step \in StepsOf(work.phase))'
  BY DEF StepsOf, FirstStep
<1>. QED BY <1>1, <1>2 DEF PlaceOK, Places

(***************************************************************************)
(* The statements on the row that succeed.                                 *)
(***************************************************************************)
LEMMA ReserveKeepsInv ==
    ASSUME SettingsInv, ReservePeer(TRUE)
    PROVE  SettingsInv'
<1>. DEFINE peer == build_peer(work.ask)
            now == [work EXCEPT !.want = peer]
<1>1. /\ work.phase = "reserve" /\ row = None
      /\ row' = [settings |-> peer, status |-> "provisioning"]
      /\ Move(Program(work.stage, work.phase).ok, now)
      /\ UNCHANGED <<iface, bird>>
  BY DEF ReservePeer, In, Succeed
<1>2. work \in Work /\ work.stage = "create"
  BY <1>1, StagesOfPhase DEF SettingsInv, PlaceOK, SettingsTypeOK, Places, Work
<1>3. work.ask \in Payload /\ Parses(work.ask)
  BY <1>2 DEF SettingsInv, MemoryOK
<1>4. peer \in Settings
  BY <1>3, BuildOK
<1>5. work.before = None /\ work.failures = 0
  BY <1>1, <1>2 DEF SettingsInv, Untouched, InForce, ErrorOK
<1>6. Move(At("create", "ensure"), now)
  BY <1>1, <1>2, ReadFlow DEF Go
<1>. HIDE DEF peer
<1>7. /\ now \in Work /\ now.want = peer /\ now.ask = work.ask /\ now.error = work.error
      /\ now.failures = work.failures /\ now.before = work.before
  BY <1>2, <1>4 DEF Work
<1>. HIDE DEF now
<1>8. /\ work' \in Work /\ answer' = answer
      /\ work'.stage = "create" /\ work'.phase = "ensure" /\ work'.step = FirstStep("ensure")
      /\ work'.want = peer /\ work'.ask = work.ask
      /\ work'.error = work.error /\ work'.failures = work.failures
      /\ work'.before = None
  BY <1>5, <1>6, <1>7, Advance DEF Stages, Phases
<1>9. PlaceOK'
  <2>1. row' \in RowType \cup {None}
    BY <1>1, <1>4 DEF RowType
  <2>2. iface' \in Interface \cup {None} /\ bird' \in Session \cup {None}
    BY <1>1 DEF SettingsInv, PlaceOK, SettingsTypeOK
  <2>3. "ensure" \in PhasesOf("create") \ {"ack"}
    BY DEF PhasesOf, ApplyPhases
  <2>. QED BY <1>8, <2>1, <2>2, <2>3, AdvancedPlace
<1>10. ErrorOK' /\ MemoryOK'
  BY <1>1, <1>2, <1>3, <1>5, <1>8 DEF SettingsInv, ErrorOK, MemoryOK, Replays, peer
<1>11. RowOK' /\ AppliedOK' /\ RemovedOK' /\ Untouched'
  BY <1>1, <1>8 DEF RowOK, AppliedOK, RemovedOK, Untouched, StatusAt, ApplyStages, RemoveStages,
                    NftPhases, BirdPhases, LastPhases, FirstStep
<1>. QED BY <1>9, <1>10, <1>11 DEF SettingsInv

LEMMA ReadKeepsInv ==
    ASSUME SettingsInv, ReadPeer
    PROVE  SettingsInv'
<1>. DEFINE want == IF work.stage = "update" THEN desired_peer(work.ask, row.settings)
                    ELSE row.settings
            now == [work EXCEPT !.old = row.settings, !.want = want]
            f == IF work.stage = "update" THEN "desire" ELSE "mark"
<1>1. /\ work.phase = "read" /\ work.stage \in {"update", "delete"} /\ Found
      /\ Move(Program(work.stage, work.phase).ok, now)
      /\ UNCHANGED <<row, iface, bird>>
  BY DEF ReadPeer, In, Succeed
<1>2. work \in Work /\ row \in RowType /\ row.settings \in Settings
  BY <1>1 DEF SettingsInv, PlaceOK, SettingsTypeOK, Found, RowType
<1>3. work.stage = "update" => work.ask \in Payload /\ Parses(work.ask)
  BY DEF SettingsInv, MemoryOK
<1>4. want \in Settings
  BY <1>2, <1>3, DesiredOK
<1>5. /\ work.before = InForce /\ work.failures = 0
      /\ work.calm => InOrder /\ row.status # "deleting"
  BY <1>1 DEF SettingsInv, Untouched, ErrorOK, Found
<1>6. Move(At(work.stage, f), now)
  BY <1>1, ReadFlow DEF Go
<1>. HIDE DEF want
<1>7. /\ now \in Work /\ now.want = want /\ now.old = row.settings /\ now.ask = work.ask
      /\ now.error = work.error /\ now.failures = work.failures /\ now.before = work.before
      /\ now.calm = work.calm
  BY <1>2, <1>4 DEF Work
<1>. HIDE DEF now
<1>8. /\ work' \in Work /\ answer' = answer
      /\ work'.stage = work.stage /\ work'.phase = f /\ work'.step = FirstStep(f)
      /\ work'.want = want /\ work'.ask = work.ask /\ work'.old = row.settings
      /\ work'.error = work.error /\ work'.failures = work.failures
      /\ work'.before = work.before /\ work'.calm = work.calm
  BY <1>1, <1>6, <1>7, Advance DEF Stages, Phases
<1>9. PlaceOK'
  <2>1. row' \in RowType \cup {None} /\ iface' \in Interface \cup {None}
        /\ bird' \in Session \cup {None}
    BY <1>1 DEF SettingsInv, PlaceOK, SettingsTypeOK
  <2>2. f \in PhasesOf(work.stage) \ {"ack"}
    BY <1>1 DEF PhasesOf
  <2>. QED BY <1>1, <1>8, <2>1, <2>2, AdvancedPlace
<1>10. InForce = IF row.status = "deleting" THEN None ELSE row.settings
  BY <1>1 DEF InForce, Found
<1>11. ErrorOK'
  BY <1>1, <1>8 DEF SettingsInv, ErrorOK, Replays
<1>12. MemoryOK'
  BY <1>1, <1>2, <1>3, <1>5, <1>8, <1>10 DEF SettingsInv, MemoryOK, Found, want
<1>13. RowOK' /\ AppliedOK' /\ RemovedOK'
  BY <1>1, <1>8 DEF RowOK, AppliedOK, RemovedOK, ApplyStages, RemoveStages, ApplyPhases,
                    NftPhases, BirdPhases, LastPhases, Gone, Found
<1>14. work.calm => Carries(iface, row.settings) /\ bird = SessionOf(row.settings)
  BY <1>5, <1>10 DEF InOrder
<1>15. Untouched'
  BY <1>1, <1>5, <1>8, <1>14 DEF Untouched, Holds, Carries
<1>. QED BY <1>9, <1>11, <1>12, <1>13, <1>15 DEF SettingsInv

LEMMA ReadChangeKeepsInv ==
    ASSUME SettingsInv, ReadChange
    PROVE  SettingsInv'
<1>1. work.phase = "read" /\ work.stage = "change" /\ UNCHANGED <<row, iface, bird>>
  BY DEF ReadChange, In
<1>2. work \in Work /\ row \in RowType \cup {None}
  BY DEF SettingsInv, PlaceOK, SettingsTypeOK
<1>3. /\ work.before = InForce /\ work.failures = 0
      /\ work.calm => InOrder /\ (row # None => row.status # "deleting")
  BY <1>1 DEF SettingsInv, Untouched, ErrorOK, Replays
<1>4. PICK s \in {"withdraw", "purge", "reapply", "promote"},
           f \in {"bird_list", "ensure"}, want \in Settings \cup {None} :
        /\ Move(At(s, f), [work EXCEPT !.want = want])
        /\ s \in {"withdraw", "purge"} <=> f = "bird_list"
        /\ s = "withdraw" <=> row = None
        /\ row # None => want = row.settings /\ want \in Settings
        /\ s = "purge" => row.status = "deleting"
        /\ s = "reapply" => row.status = "active"
        /\ s = "promote" => row.status = "provisioning"
  <2>1. CASE row = None
    <3>1. Move(At("withdraw", "bird_list"), work)
      BY <2>1 DEF ReadChange
    <3>2. work = [work EXCEPT !.want = work.want] /\ work.want \in Settings \cup {None}
      BY <1>2 DEF Work
    <3>3. Move(At("withdraw", "bird_list"), [work EXCEPT !.want = work.want])
      BY <3>1, <3>2
    <3>. QED BY <2>1, <3>2, <3>3
  <2>2. CASE row # None
    <3>1. row.settings \in Settings /\ row.status \in {"provisioning", "active", "deleting"}
      BY <1>2, <2>2 DEF RowType
    <3>2. CASE row.status = "deleting"
      <4>1. Move(At("purge", "bird_list"), [work EXCEPT !.want = row.settings])
        BY <2>2, <3>2 DEF ReadChange
      <4>. QED BY <2>2, <3>1, <3>2, <4>1
    <3>3. CASE row.status = "active"
      <4>1. Move(At("reapply", "ensure"), [work EXCEPT !.want = row.settings])
        BY <2>2, <3>3 DEF ReadChange
      <4>. QED BY <2>2, <3>1, <3>3, <4>1
    <3>4. CASE row.status = "provisioning"
      <4>1. Move(At("promote", "ensure"), [work EXCEPT !.want = row.settings])
        BY <2>2, <3>4 DEF ReadChange
      <4>. QED BY <2>2, <3>1, <3>4, <4>1
    <3>. QED BY <3>1, <3>2, <3>3, <3>4
  <2>. QED BY <2>1, <2>2
<1>. DEFINE now == [work EXCEPT !.want = want]
<1>5. /\ now \in Work /\ now.want = want /\ now.ask = work.ask
      /\ now.error = work.error /\ now.failures = work.failures /\ now.before = work.before
      /\ now.calm = work.calm
  BY <1>2, <1>4 DEF Work
<1>6. Move(At(s, f), now)
  BY <1>4
<1>. HIDE DEF now
<1>7. /\ work' \in Work /\ answer' = answer
      /\ work'.stage = s /\ work'.phase = f /\ work'.step = FirstStep(f)
      /\ work'.want = want
      /\ work'.error = work.error /\ work'.failures = work.failures
      /\ work'.before = work.before /\ work'.calm = work.calm
  BY <1>5, <1>6, Advance DEF Stages, Phases
<1>8. PlaceOK'
  <2>1. row' \in RowType \cup {None} /\ iface' \in Interface \cup {None}
        /\ bird' \in Session \cup {None}
    BY <1>1 DEF SettingsInv, PlaceOK, SettingsTypeOK
  <2>2. f \in PhasesOf(s) \ {"ack"}
    BY <1>4 DEF PhasesOf, ApplyPhases, RemovePhases, BirdPhases
  <2>. QED BY <1>7, <2>1, <2>2, AdvancedPlace
<1>9. ErrorOK'
  BY <1>1, <1>7 DEF SettingsInv, ErrorOK, Replays
<1>10. InForce = IF s \in {"withdraw", "purge"} THEN None ELSE want
  BY <1>4 DEF InForce
<1>11. MemoryOK'
  BY <1>3, <1>4, <1>7, <1>10 DEF MemoryOK
<1>12. row # None => row = [settings |-> row.settings, status |-> row.status]
  BY <1>2 DEF RowType
<1>13. RowOK' /\ RemovedOK'
  BY <1>1, <1>4, <1>7, <1>12 DEF RowOK, RemovedOK, ApplyStages, RemoveStages, ApplyPhases,
                    RemovePhases, NftPhases, BirdPhases, LastPhases, Gone, StatusAt
<1>14. AppliedOK'
  BY <1>4, <1>7 DEF AppliedOK, ApplyStages, NftPhases, BirdPhases, LastPhases, FirstStep
<1>15. s \in {"reapply", "promote"} /\ work.calm => Carries(iface, want) /\ bird = SessionOf(want)
  BY <1>3, <1>10 DEF InOrder
<1>16. Untouched'
  BY <1>1, <1>7, <1>15 DEF Untouched, Holds, Carries
<1>. QED BY <1>8, <1>9, <1>11, <1>13, <1>14, <1>16 DEF SettingsInv

\* A step that ends the operation, with success or after compensation.
Ends == {Return("created"), Return("updated"), Return("deleted"), Return("failed"),
         Return("ready"), At("change", "ack")}

LEMMA EndKeepsInv ==
    ASSUME SettingsInv,
           row' \in RowType \cup {None}, iface' \in Interface \cup {None},
           bird' \in Session \cup {None},
           NEW t \in Ends, Move(t, work)
    PROVE  SettingsInv'
<1>1. t \in Place /\ t.phase \in {"idle", "ack"}
  BY DEF Ends, Return, At, Place, Stages, Phases
<1>2. work \in Work /\ work.error \in {0, 400, 404, 409, 500}
  BY DEF SettingsInv, PlaceOK, SettingsTypeOK, ErrorOK
<1>3. answer' \in HttpStatus \cup {0}
  BY <1>1, <1>2, MoveEnd DEF AnswerAt, HttpStatus
<1>. QED BY <1>1, <1>2, <1>3, MoveEnd, IdleOK

\* A step of the same function that keeps what the operation remembers.
Onward(s, f) ==
    /\ work' \in Work /\ answer' = answer
    /\ work'.stage = s /\ work'.phase = f /\ work'.step = FirstStep(f)
    /\ work'.want = (IF s \in {"undo_update", "undo_delete"} THEN work.old ELSE work.want)
    /\ work'.ask = work.ask /\ work'.old = work.old
    /\ work'.error = work.error /\ work'.failures = work.failures
    /\ work'.before = work.before /\ work'.calm = work.calm

LEMMA OnwardOK ==
    ASSUME SettingsInv, NEW s \in Stages, NEW f \in Phases \ {"idle", "ack"},
           Move(At(s, f), work)
    PROVE  Onward(s, f)
  BY Advance DEF Onward, SettingsInv, PlaceOK, SettingsTypeOK

LEMMA OnwardKeeps ==
    ASSUME SettingsInv, ~Idle, NEW s \in Stages, NEW f \in Phases \ {"idle", "ack"},
           Onward(s, f), work.stage = s, f \in PhasesOf(s), s # "reconcile",
           work.phase \notin {"reserve", "read"}, f \notin {"reserve", "read"},
           row' \in RowType \cup {None}, iface' \in Interface \cup {None},
           bird' \in Session \cup {None}
    PROVE  PlaceOK' /\ ErrorOK' /\ MemoryOK'
<1>1. PlaceOK'
  BY AdvancedPlace DEF Onward
<1>2. ErrorOK'
  BY DEF SettingsInv, ErrorOK, Onward, Idle
<1>3. MemoryOK'
  BY DEF SettingsInv, MemoryOK, Onward
<1>. QED BY <1>1, <1>2, <1>3

LEMMA DesireKeepsInv ==
    ASSUME SettingsInv, StoreDesired(TRUE)
    PROVE  SettingsInv'
<1>1. /\ work.phase = "desire"
      /\ row' = [settings |-> work.want, status |-> "provisioning"]
      /\ Move(Program(work.stage, work.phase).ok, work)
      /\ UNCHANGED <<iface, bird>>
  BY DEF StoreDesired, In, Outcome, Succeed
<1>2. work \in Work /\ work.stage \in {"update", "undo_update"}
  BY <1>1, StagesOfPhase DEF SettingsInv, PlaceOK, SettingsTypeOK, Places, Work
<1>3. work.want \in Settings
  BY <1>1, <1>2, DesiredOK DEF SettingsInv, MemoryOK
<1>4. Move(At(work.stage, "ensure"), work)
  BY <1>1, <1>2, DesireFlow DEF Go
<1>5. Onward(work.stage, "ensure")
  BY <1>2, <1>4, OnwardOK DEF Stages, Phases
<1>6. row' \in RowType
  BY <1>1, <1>3 DEF RowType
<1>7. work'.want = work.want
  BY <1>2, <1>5 DEF Onward, SettingsInv, MemoryOK
<1>8. PlaceOK' /\ ErrorOK' /\ MemoryOK'
  <2>1. "ensure" \in PhasesOf(work.stage)
    BY <1>2 DEF PhasesOf, ApplyPhases
  <2>2. iface' \in Interface \cup {None} /\ bird' \in Session \cup {None}
    BY <1>1 DEF SettingsInv, PlaceOK, SettingsTypeOK
  <2>. QED BY <1>1, <1>2, <1>5, <1>6, <2>1, <2>2, OnwardKeeps DEF Stages, Phases, Idle
<1>9. RowOK' /\ AppliedOK' /\ RemovedOK' /\ Untouched'
  BY <1>1, <1>2, <1>5, <1>7 DEF Onward, RowOK, AppliedOK, RemovedOK, Untouched, StatusAt,
      ApplyStages, RemoveStages, NftPhases, BirdPhases, LastPhases, FirstStep
<1>. QED BY <1>8, <1>9 DEF SettingsInv

\* The row is there whenever its status is set.
LEMMA StatusRow ==
    ASSUME SettingsInv, work.phase \in {"mark", "activate"}
    PROVE  row \in RowType
<1>1. work \in Work /\ row \in RowType \cup {None}
      /\ work.stage \in {"create", "update", "undo_update", "unmark", "undo_delete", "promote",
                         "undo_create", "delete"}
  BY StagesOfPhase DEF SettingsInv, PlaceOK, SettingsTypeOK, Places, Work
<1>2. CASE work.stage \in {"unmark", "undo_delete", "undo_create", "delete"}
  BY <1>1, <1>2, StagesOfPhase DEF SettingsInv, PlaceOK, Places, RowOK, Work
<1>3. CASE work.stage \in {"create", "update", "undo_update", "promote"}
  <2>1. work.phase = "activate"
    BY <1>1, <1>3, StagesOfPhase DEF SettingsInv, PlaceOK, Places, Work
  <2>2. row = [settings |-> work.want, status |-> "provisioning"]
    BY <1>3, <2>1 DEF SettingsInv, RowOK, ApplyStages, LastPhases, StatusAt, NftPhases
  <2>3. work.want \in Settings
    BY <1>3, <2>1, BuildOK, DesiredOK DEF SettingsInv, MemoryOK
  <2>. QED BY <2>2, <2>3 DEF RowType
<1>. QED BY <1>1, <1>2, <1>3

LEMMA StatusKeepsInv ==
    ASSUME SettingsInv, SetStatus(TRUE)
    PROVE  SettingsInv'
<1>. DEFINE status == IF work.phase = "mark" THEN "deleting" ELSE "active"
<1>1. /\ work.phase \in {"mark", "activate"}
      /\ row' = [row EXCEPT !.status = status]
      /\ Move(Program(work.stage, work.phase).ok, work)
      /\ UNCHANGED <<iface, bird>>
  BY DEF SetStatus, In, Outcome, Succeed
<1>2. work \in Work /\ iface' \in Interface \cup {None} /\ bird' \in Session \cup {None}
  BY <1>1 DEF SettingsInv, PlaceOK, SettingsTypeOK
<1>3. /\ work.phase = "mark" => work.stage \in {"undo_create", "delete"}
      /\ work.phase = "activate" => work.stage \in {"create", "update", "undo_update", "unmark",
                                                    "undo_delete", "promote"}
  BY StagesOfPhase DEF SettingsInv, PlaceOK, SettingsTypeOK, Places, Work
<1>4. row \in RowType
  BY <1>1, StatusRow
<1>5. /\ row' \in RowType /\ row' # None
      /\ row' = [settings |-> row.settings, status |-> status]
  BY <1>1, <1>4, NoneAssumption DEF RowType
<1>6. CASE work.phase = "activate" /\ work.stage \in {"create", "update", "undo_update", "unmark"}
  <2>1. Program(work.stage, work.phase).ok \in Ends
    BY <1>6, ActivateFlow DEF Go, Ends
  <2>. QED BY <1>1, <1>2, <1>5, <2>1, EndKeepsInv
<1>7. CASE work.phase = "mark"
  <2>. DEFINE s == work.stage
              f == IF s = "delete" THEN "nft_list" ELSE "bird_list"
  <2>1. Onward(s, f)
    BY <1>1, <1>3, <1>7, MarkFlow, OnwardOK DEF Go, Stages, Phases
  <2>2. PlaceOK' /\ ErrorOK' /\ MemoryOK'
    <3>1. f \in PhasesOf(s)
      BY <1>3, <1>7 DEF PhasesOf, NftPhases, RemovePhases, BirdPhases
    <3>. QED BY <1>2, <1>3, <1>5, <1>7, <2>1, <3>1, OnwardKeeps DEF Stages, Phases, Idle
  <2>3. row'.status = "deleting" /\ row'.settings = row.settings
    BY <1>5, <1>7
  <2>4. RowOK' /\ AppliedOK' /\ RemovedOK'
    BY <1>3, <1>5, <1>7, <2>1, <2>3 DEF SettingsInv, Onward, RowOK, AppliedOK, RemovedOK,
       ApplyStages,
       RemoveStages, NftPhases, BirdPhases, RemovePhases, Gone
  <2>5. work.stage = "delete" /\ work.calm => Holds(work.old)
    BY <1>7 DEF SettingsInv, Untouched
  <2>6. Untouched'
    BY <1>1, <1>3, <1>7, <2>1, <2>5 DEF Onward, Untouched, Holds, Carries, NftPhases
  <2>. QED BY <2>2, <2>4, <2>6 DEF SettingsInv
<1>8. CASE work.phase = "activate" /\ work.stage = "undo_delete"
  <2>1. Onward("undo_delete", "ensure")
    BY <1>1, <1>8, ActivateFlow, OnwardOK DEF Go, Stages, Phases
  <2>2. PlaceOK' /\ ErrorOK' /\ MemoryOK'
    <3>1. "ensure" \in PhasesOf("undo_delete")
      BY DEF PhasesOf, ApplyPhases
    <3>. QED BY <1>2, <1>5, <1>8, <2>1, <3>1, OnwardKeeps DEF Stages, Phases, Idle
  <2>3. row' = [settings |-> work.old, status |-> "active"]
    BY <1>5, <1>8 DEF SettingsInv, RowOK
  <2>4. RowOK' /\ AppliedOK' /\ RemovedOK' /\ Untouched'
    BY <1>8, <2>1, <2>3 DEF Onward, RowOK, AppliedOK, RemovedOK, Untouched, StatusAt, ApplyStages,
       RemoveStages, NftPhases, BirdPhases, LastPhases, FirstStep
  <2>. QED BY <2>2, <2>4 DEF SettingsInv
<1>9. CASE work.phase = "activate" /\ work.stage = "promote"
  <2>1. Onward("promote", "nft_list")
    BY <1>1, <1>9, ActivateFlow, OnwardOK DEF Go, Stages, Phases
  <2>2. PlaceOK' /\ ErrorOK' /\ MemoryOK'
    <3>1. "nft_list" \in PhasesOf("promote")
      BY DEF PhasesOf, NftPhases
    <3>. QED BY <1>2, <1>5, <1>9, <2>1, <3>1, OnwardKeeps DEF Stages, Phases, Idle
  <2>3. /\ row.settings = work.want
        /\ Carries(iface, work.want) /\ bird = SessionOf(work.want)
    BY <1>9 DEF SettingsInv, RowOK, AppliedOK, ApplyStages, LastPhases
  <2>4. row' = [settings |-> work.want, status |-> "active"]
    BY <1>5, <1>9, <2>3
  <2>5. RowOK' /\ RemovedOK' /\ Untouched'
    BY <1>9, <2>1, <2>4 DEF Onward, RowOK, RemovedOK, Untouched, StatusAt, ApplyStages,
       RemoveStages, NftPhases, LastPhases
  <2>6. AppliedOK'
    BY <1>1, <1>9, <2>1, <2>3 DEF Onward, AppliedOK, Carries
  <2>. QED BY <2>2, <2>5, <2>6 DEF SettingsInv
<1>. QED BY <1>1, <1>3, <1>6, <1>7, <1>8, <1>9

LEMMA DropKeepsInv ==
    ASSUME SettingsInv, DropRow(TRUE)
    PROVE  SettingsInv'
<1>1. /\ work.phase = "drop_row" /\ row' = None
      /\ Move(Program(work.stage, work.phase).ok, work)
      /\ UNCHANGED <<iface, bird>>
  BY DEF DropRow, In, Outcome, Succeed
<1>2. work \in Work /\ iface' \in Interface \cup {None} /\ bird' \in Session \cup {None}
  BY <1>1 DEF SettingsInv, PlaceOK, SettingsTypeOK
<1>3. work.stage \in {"undo_create", "delete", "purge"}
  BY <1>1, StagesOfPhase DEF SettingsInv, PlaceOK, SettingsTypeOK, Places, Work
<1>4. CASE work.stage = "delete"
  <2>1. Program(work.stage, work.phase).ok \in Ends
    BY <1>1, <1>4, DropFlow DEF Go, Ends
  <2>. QED BY <1>1, <1>2, <2>1, EndKeepsInv
<1>5. CASE work.stage \in {"undo_create", "purge"}
  <2>1. Onward(work.stage, "nft_list")
    BY <1>1, <1>5, DropFlow, OnwardOK DEF Go, Stages, Phases
  <2>2. PlaceOK' /\ ErrorOK' /\ MemoryOK'
    <3>1. "nft_list" \in PhasesOf(work.stage)
      BY <1>5 DEF PhasesOf, NftPhases
    <3>. QED BY <1>1, <1>2, <1>5, <2>1, <3>1, OnwardKeeps DEF Stages, Phases, Idle
  <2>3. work.stage = "purge" \/ work.failures = 1 => iface = None /\ bird = None
    BY <1>1, <1>5 DEF SettingsInv, RemovedOK, RemoveStages, Gone
  <2>4. RowOK' /\ AppliedOK' /\ Untouched'
    BY <1>1, <1>5, <2>1 DEF Onward, RowOK, AppliedOK, Untouched, ApplyStages, NftPhases,
       RemovePhases, BirdPhases
  <2>5. RemovedOK'
    BY <1>1, <1>5, <2>1, <2>3 DEF Onward, RemovedOK
  <2>. QED BY <2>2, <2>4, <2>5 DEF SettingsInv
<1>. QED BY <1>3, <1>4, <1>5

(***************************************************************************)
(* The calls of apply_peer and remove_external_state that succeed.         *)
(***************************************************************************)
LEMMA Applying ==
    ASSUME SettingsInv, work.stage \in ApplyStages, work.phase \in ApplyPhases
    PROVE  /\ work.want \in Settings
           /\ row = [settings |-> work.want, status |-> StatusAt(work.stage, work.phase)]
<1>1. work.want \in Settings
  BY BuildOK, DesiredOK DEF SettingsInv, MemoryOK, ApplyStages, ApplyPhases, BirdPhases
<1>. QED BY <1>1 DEF SettingsInv, RowOK

LEMMA InnerStage ==
    ASSUME SettingsInv, work.phase \in {"ensure", "configure"}
    PROVE  /\ work \in Work /\ work.stage \in ApplyStages
           /\ row \in RowType \cup {None} /\ iface \in Interface \cup {None}
           /\ bird \in Session \cup {None}
  BY StagesOfPhase DEF SettingsInv, PlaceOK, SettingsTypeOK, Places, Work

LEMMA StepToKeeps ==
    ASSUME SettingsInv, work.phase \in {"ensure", "configure"},
           NEW step \in StepsOf(work.phase), StepTo(step),
           iface' \in Interface \cup {None}, UNCHANGED <<row, bird>>
    PROVE  /\ PlaceOK' /\ ErrorOK' /\ MemoryOK' /\ RowOK' /\ RemovedOK'
           /\ work'.stage = work.stage /\ work'.phase = work.phase /\ work'.step = step
           /\ work'.want = work.want /\ work'.calm = work.calm
<1>1. work' = [work EXCEPT !.step = step] /\ answer' = answer
  BY DEF StepTo
<1>2. work \in Work /\ work.stage \in ApplyStages
  BY InnerStage
<1>3. /\ work'.stage = work.stage /\ work'.phase = work.phase /\ work'.step = step
      /\ work'.want = work.want /\ work'.calm = work.calm /\ work'.ask = work.ask
      /\ work'.old = work.old /\ work'.before = work.before /\ work'.error = work.error
      /\ work'.failures = work.failures
  BY <1>1, <1>2 DEF Work
<1>4. work' \in Work
  BY <1>1, <1>2 DEF Work, StepsOf, Steps
<1>5. PlaceOK'
  BY <1>1, <1>3, <1>4 DEF SettingsInv, PlaceOK, SettingsTypeOK, Places
<1>6. ErrorOK'
  BY <1>3 DEF SettingsInv, ErrorOK
<1>7. MemoryOK'
  BY <1>3 DEF SettingsInv, MemoryOK
<1>8. RowOK' /\ RemovedOK'
  BY <1>2, <1>3 DEF SettingsInv, RowOK, RemovedOK, ApplyStages, RemoveStages
<1>. QED BY <1>3, <1>5, <1>6, <1>7, <1>8

LEMMA LinkKeepsInv ==
    ASSUME SettingsInv, AddLink(TRUE)
    PROVE  SettingsInv'
<1>1. /\ work.phase = "ensure" /\ work.step = "link"
      /\ iface' = (IF iface = None THEN NewLink ELSE iface)
      /\ StepTo("device") /\ UNCHANGED <<row, bird>>
  BY DEF AddLink, In
<1>2. iface' \in Interface
  <2>1. NewLink \in Interface
    <3>1. FALSE \in BOOLEAN
      OBVIOUS
    <3>. QED BY <3>1, Zenon DEF NewLink, Interface
  <2>. QED BY <1>1, <2>1, InnerStage
<1>3. "device" \in StepsOf(work.phase)
  BY <1>1 DEF StepsOf
<1>4. /\ PlaceOK' /\ ErrorOK' /\ MemoryOK' /\ RowOK' /\ RemovedOK'
      /\ work'.stage = work.stage /\ work'.phase = "ensure" /\ work'.step = "device"
      /\ work'.want = work.want /\ work'.calm = work.calm
  BY <1>1, <1>2, <1>3, StepToKeeps
<1>5. work.stage \in ApplyStages
  BY <1>1, InnerStage
<1>6. AppliedOK'
  BY <1>2, <1>4, NoneAssumption DEF AppliedOK, BirdPhases, NftPhases, LastPhases
<1>7. ASSUME work.stage \in {"reapply", "promote"}, work.calm
      PROVE  Holds(work.want) /\ iface' = iface
  <2>1. Holds(work.want) /\ work.want # None
    BY <1>1, <1>5, <1>7, Applying, NoneAssumption DEF SettingsInv, Untouched, ApplyPhases
  <2>. QED BY <1>1, <2>1 DEF Holds, Carries
<1>8. Untouched'
  BY <1>1, <1>4, <1>5, <1>7 DEF Untouched, Holds, Carries, ApplyStages, NftPhases
<1>. QED BY <1>4, <1>6, <1>8 DEF SettingsInv

LEMMA SetLinkKeepsInv ==
    ASSUME SettingsInv, SetLink(TRUE)
    PROVE  SettingsInv'
<1>1. /\ work.phase = "ensure" /\ work.step = "device"
      /\ iface' = [iface EXCEPT !.mtu = work.want.mtu, !.named = TRUE]
      /\ Move(Program(work.stage, work.phase).ok, work)
      /\ UNCHANGED <<row, bird>>
  BY DEF SetLink, In, Outcome, Succeed
<1>2. work.stage \in ApplyStages /\ work.want \in Settings
      /\ row = [settings |-> work.want, status |-> StatusAt(work.stage, "ensure")]
  BY <1>1, InnerStage, Applying DEF ApplyPhases
<1>3. iface \in Interface
  BY <1>1, <1>2, InnerStage DEF SettingsInv, AppliedOK
<1>4. iface' \in Interface
  BY <1>1, <1>2, <1>3 DEF Interface, Settings
<1>5. /\ iface'.named /\ iface'.mtu = work.want.mtu /\ iface'.pubkey = iface.pubkey
      /\ iface'.endpoint = iface.endpoint /\ iface'.addresses = iface.addresses
      /\ iface' # None
  BY <1>1, <1>3, <1>4, NoneAssumption DEF Interface
<1>6. Onward(work.stage, "configure")
  BY <1>1, <1>2, ApplyFlow, OnwardOK DEF Go, Stages, Phases, ApplyStages
<1>7. work'.want = work.want
  BY <1>6 DEF Onward, SettingsInv, MemoryOK
<1>8. PlaceOK' /\ ErrorOK' /\ MemoryOK'
  <2>1. "configure" \in PhasesOf(work.stage)
    BY <1>2 DEF PhasesOf, ApplyPhases, ApplyStages
  <2>2. row' \in RowType \cup {None} /\ bird' \in Session \cup {None}
    BY <1>1 DEF SettingsInv, PlaceOK, SettingsTypeOK
  <2>. QED BY <1>1, <1>2, <1>4, <1>6, <2>1, <2>2, OnwardKeeps DEF Stages, Phases, Idle, ApplyStages
<1>9. RowOK' /\ RemovedOK'
  BY <1>1, <1>2, <1>6, <1>7 DEF Onward, RowOK, RemovedOK, StatusAt, ApplyStages, RemoveStages,
                                NftPhases
<1>10. AppliedOK'
  BY <1>5, <1>6, <1>7 DEF Onward, AppliedOK, BirdPhases, NftPhases, LastPhases, FirstStep
<1>11. work.stage \in {"reapply", "promote"} /\ work.calm => Holds(work.want)
  BY <1>1 DEF SettingsInv, Untouched
<1>12. work.want # None
  BY <1>2, NoneAssumption
<1>13. Untouched'
  BY <1>1, <1>2, <1>5, <1>6, <1>7, <1>11, <1>12
     DEF Onward, Untouched, Holds, Carries, ApplyStages, NftPhases
<1>. QED BY <1>8, <1>9, <1>10, <1>13 DEF SettingsInv

LEMMA ResolveKeepsInv ==
    ASSUME SettingsInv, ResolveEndpoint
    PROVE  SettingsInv'
<1>1. /\ work.phase = "configure" /\ work.step = "resolve"
      /\ StepTo("device") /\ UNCHANGED <<row, iface, bird>>
  BY DEF ResolveEndpoint, Resolves, In
<1>2. "device" \in StepsOf(work.phase)
  BY <1>1 DEF StepsOf
<1>3. /\ PlaceOK' /\ ErrorOK' /\ MemoryOK' /\ RowOK' /\ RemovedOK'
      /\ work'.stage = work.stage /\ work'.phase = "configure" /\ work'.step = "device"
      /\ work'.want = work.want /\ work'.calm = work.calm
  BY <1>1, <1>2, StepToKeeps, InnerStage
<1>4. work.stage \in ApplyStages
  BY <1>1, InnerStage
<1>5. AppliedOK'
  BY <1>1, <1>3 DEF SettingsInv, AppliedOK, BirdPhases, NftPhases, LastPhases
<1>6. Untouched'
  BY <1>1, <1>3, <1>4 DEF SettingsInv, Untouched, Holds, Carries, ApplyStages, NftPhases
<1>. QED BY <1>3, <1>5, <1>6 DEF SettingsInv

LEMMA PeerKeepsInv ==
    ASSUME SettingsInv, ConfigurePeer(TRUE)
    PROVE  SettingsInv'
<1>1. /\ work.phase = "configure" /\ work.step = "device"
      /\ iface' = [iface EXCEPT !.pubkey = work.want.pubkey, !.endpoint = work.want.endpoint]
      /\ StepTo("address") /\ UNCHANGED <<row, bird>>
  BY DEF ConfigurePeer, In
<1>2. work.stage \in ApplyStages /\ work.want \in Settings
  BY <1>1, InnerStage, Applying DEF ApplyPhases
<1>3. iface \in Interface /\ iface.named /\ iface.mtu = work.want.mtu
  BY <1>1, <1>2, InnerStage DEF SettingsInv, AppliedOK
<1>4. iface' \in Interface
  BY <1>1, <1>2, <1>3 DEF Interface, Settings
<1>5. /\ iface'.named = iface.named /\ iface'.mtu = iface.mtu /\ iface'.addresses = iface.addresses
      /\ iface'.pubkey = work.want.pubkey /\ iface'.endpoint = work.want.endpoint
      /\ iface' # None
  BY <1>1, <1>3, <1>4, NoneAssumption DEF Interface
<1>6. "address" \in StepsOf(work.phase)
  BY <1>1 DEF StepsOf
<1>7. /\ PlaceOK' /\ ErrorOK' /\ MemoryOK' /\ RowOK' /\ RemovedOK'
      /\ work'.stage = work.stage /\ work'.phase = "configure" /\ work'.step = "address"
      /\ work'.want = work.want /\ work'.calm = work.calm
  BY <1>1, <1>4, <1>6, StepToKeeps
<1>8. AppliedOK'
  BY <1>3, <1>5, <1>7 DEF AppliedOK, BirdPhases, NftPhases, LastPhases
<1>9. work.stage \in {"reapply", "promote"} /\ work.calm => Holds(work.want)
  BY <1>1 DEF SettingsInv, Untouched
<1>10. work.want # None
  BY <1>2, NoneAssumption
<1>11. Untouched'
  BY <1>1, <1>2, <1>3, <1>5, <1>7, <1>9, <1>10 DEF Untouched, Holds, Carries, ApplyStages, NftPhases
<1>. QED BY <1>7, <1>8, <1>11 DEF SettingsInv

LEMMA AddressKeepsInv ==
    ASSUME SettingsInv, ConfigureAddress(TRUE)
    PROVE  SettingsInv'
<1>1. /\ work.phase = "configure" /\ work.step = "address"
      /\ iface' = [iface EXCEPT !.addresses = @ \cup {work.want.local}]
      /\ Move(Program(work.stage, work.phase).ok, work)
      /\ UNCHANGED <<row, bird>>
  BY DEF ConfigureAddress, In, Outcome, Succeed
<1>2. work.stage \in ApplyStages /\ work.want \in Settings
      /\ row = [settings |-> work.want, status |-> StatusAt(work.stage, "configure")]
  BY <1>1, InnerStage, Applying DEF ApplyPhases
<1>3. /\ iface \in Interface /\ iface.named /\ iface.mtu = work.want.mtu
      /\ iface.pubkey = work.want.pubkey /\ iface.endpoint = work.want.endpoint
  BY <1>1, <1>2, InnerStage DEF SettingsInv, AppliedOK
<1>4. iface' \in Interface
  <2>1. iface.addresses \cup {work.want.local} \in SUBSET Addresses
    BY <1>2, <1>3 DEF Interface, Settings
  <2>. QED BY <1>1, <1>3, <2>1 DEF Interface
<1>5. /\ iface'.named = iface.named /\ iface'.mtu = iface.mtu
      /\ iface'.pubkey = iface.pubkey /\ iface'.endpoint = iface.endpoint
      /\ work.want.local \in iface'.addresses
      /\ iface' # None
  BY <1>1, <1>3, <1>4, NoneAssumption DEF Interface
<1>6. Carries(iface', work.want)
  BY <1>2, <1>3, <1>5, NoneAssumption DEF Carries
<1>7. Onward(work.stage, "bird_list")
  BY <1>1, <1>2, ApplyFlow, OnwardOK DEF Go, Stages, Phases, ApplyStages
<1>8. work'.want = work.want
  BY <1>7 DEF Onward, SettingsInv, MemoryOK
<1>9. PlaceOK' /\ ErrorOK' /\ MemoryOK'
  <2>1. "bird_list" \in PhasesOf(work.stage)
    BY <1>2 DEF PhasesOf, ApplyPhases, ApplyStages, BirdPhases
  <2>2. row' \in RowType \cup {None} /\ bird' \in Session \cup {None}
    BY <1>1 DEF SettingsInv, PlaceOK, SettingsTypeOK
  <2>. QED BY <1>1, <1>2, <1>4, <1>7, <2>1, <2>2, OnwardKeeps DEF Stages, Phases, Idle, ApplyStages
<1>10. RowOK' /\ RemovedOK' /\ Untouched'
  BY <1>1, <1>2, <1>7, <1>8 DEF Onward, RowOK, RemovedOK, Untouched, StatusAt, ApplyStages,
     RemoveStages,
                                NftPhases
<1>11. AppliedOK'
  BY <1>6, <1>7, <1>8 DEF Onward, AppliedOK, NftPhases, LastPhases, Carries
<1>. QED BY <1>9, <1>10, <1>11 DEF SettingsInv

LEMMA RemoveKeepsInv ==
    ASSUME SettingsInv, RemoveInterface(TRUE)
    PROVE  SettingsInv'
<1>. DEFINE s == work.stage
            f == IF s = "withdraw" THEN "nft_list" ELSE "drop_row"
<1>1. /\ work.phase = "remove_if" /\ iface' = None
      /\ Move(Program(s, work.phase).ok, work)
      /\ UNCHANGED <<row, bird>>
  BY DEF RemoveInterface, In, Outcome, Succeed
<1>2. work \in Work /\ row' \in RowType \cup {None} /\ bird' \in Session \cup {None}
  BY <1>1 DEF SettingsInv, PlaceOK, SettingsTypeOK
<1>3. s \in RemoveStages
  BY <1>1, StagesOfPhase DEF SettingsInv, PlaceOK, SettingsTypeOK, Places, Work
<1>4. Onward(s, f)
  BY <1>1, <1>3, RemoveFlow, OnwardOK DEF Go, RemoveDone, Stages, Phases, RemoveStages
<1>5. PlaceOK' /\ ErrorOK' /\ MemoryOK'
  <2>1. f \in PhasesOf(s)
    BY <1>3 DEF PhasesOf, NftPhases, RemoveStages
  <2>. QED BY <1>1, <1>2, <1>3, <1>4, <2>1, OnwardKeeps DEF Stages, Phases, Idle, RemoveStages
<1>6. RowOK' /\ AppliedOK' /\ Untouched'
  BY <1>1, <1>3, <1>4 DEF SettingsInv, Onward, RowOK, AppliedOK, Untouched, ApplyStages,
     RemoveStages,
                          RemovePhases, NftPhases
<1>7. s # "undo_create" \/ work.failures = 1 => bird = None
  BY <1>1, <1>3 DEF SettingsInv, RemovedOK
<1>8. RemovedOK'
  BY <1>1, <1>4, <1>7 DEF Onward, RemovedOK
<1>. QED BY <1>5, <1>6, <1>8 DEF SettingsInv

\* A function that applies settings goes on to BIRD or to the port set.
LEMMA ApplyOnward ==
    ASSUME SettingsInv, work.stage \in ApplyStages,
           work.phase \in BirdPhases \cup NftPhases,
           NEW f \in {"bird_sync", "nft_list", "nft_sync", "activate"},
           f \in PhasesOf(work.stage), Onward(work.stage, f),
           f = "bird_sync" <=> work.phase = "bird_list",
           f = "nft_sync" <=> work.phase = "nft_list",
           f = "activate" => work.stage # "undo_delete",
           work.stage = "promote" /\ work.phase \in BirdPhases => f \notin NftPhases,
           work.stage = "promote" /\ work.phase \in NftPhases => f # "activate",
           UNCHANGED <<row, iface>>, bird' \in Session \cup {None},
           work.phase \in NftPhases => bird' = bird,
           work.phase = "bird_sync" => bird' = SessionOf(work.want)
    PROVE  SettingsInv'
<1>1. work'.want = work.want
  BY DEF Onward, SettingsInv, MemoryOK
<1>2. PlaceOK' /\ ErrorOK' /\ MemoryOK'
  <2>1. row' \in RowType \cup {None} /\ iface' \in Interface \cup {None}
    BY DEF SettingsInv, PlaceOK, SettingsTypeOK
  <2>. QED BY <2>1, OnwardKeeps DEF Stages, Phases, Idle, ApplyStages, BirdPhases, NftPhases
<1>3. row = [settings |-> work.want, status |-> StatusAt(work.stage, work.phase)]
  BY DEF SettingsInv, RowOK, ApplyPhases, LastPhases
<1>4. RowOK' /\ RemovedOK' /\ Untouched'
  BY <1>1, <1>3 DEF Onward, RowOK, RemovedOK, Untouched, StatusAt, ApplyStages, RemoveStages,
     NftPhases,
                    BirdPhases
<1>5. Carries(iface, work.want) /\ (work.phase \in NftPhases => bird = SessionOf(work.want))
  BY DEF SettingsInv, AppliedOK, LastPhases
<1>6. AppliedOK'
  BY <1>1, <1>5 DEF Onward, AppliedOK, Carries, NftPhases, BirdPhases, LastPhases
<1>. QED BY <1>2, <1>4, <1>6 DEF SettingsInv

LEMMA PassiveKeepsInv ==
    ASSUME SettingsInv, Passive
    PROVE  SettingsInv'
<1>. DEFINE s == work.stage
<1>1. /\ work.phase \in {"bird_list"} \cup NftPhases
      /\ Move(Program(s, work.phase).ok, work)
      /\ UNCHANGED <<row, iface, bird>>
  BY DEF Passive, Succeed
<1>2. work \in Work /\ row' \in RowType \cup {None} /\ iface' \in Interface \cup {None}
      /\ bird' \in Session \cup {None}
  BY <1>1 DEF SettingsInv, PlaceOK, SettingsTypeOK
<1>3. /\ work.phase = "bird_list" => s \in ApplyStages \cup RemoveStages
      /\ work.phase \in NftPhases => s \in NftStages \ {"reconcile"}
  BY StagesOfPhase DEF SettingsInv, PlaceOK, SettingsTypeOK, Places, Work, BirdPhases
<1>4. CASE work.phase = "bird_list"
  <2>1. Onward(s, "bird_sync")
    BY <1>1, <1>3, <1>4, ApplyFlow, RemoveFlow, OnwardOK
       DEF Go, Stages, Phases, ApplyStages, RemoveStages
  <2>2. "bird_sync" \in PhasesOf(s)
    BY <1>3, <1>4 DEF PhasesOf, ApplyPhases, RemovePhases, BirdPhases, ApplyStages, RemoveStages
  <2>3. CASE s \in ApplyStages
    BY <1>1, <1>2, <1>4, <2>1, <2>2, <2>3, ApplyOnward DEF BirdPhases, NftPhases
  <2>4. CASE s \in RemoveStages
    <3>1. PlaceOK' /\ ErrorOK' /\ MemoryOK'
      BY <1>1, <1>2, <1>4, <2>1, <2>2, <2>4, OnwardKeeps DEF Stages, Phases, Idle, RemoveStages
    <3>2. RowOK' /\ AppliedOK' /\ Untouched' /\ RemovedOK'
      BY <1>1, <1>4, <2>1, <2>4
         DEF SettingsInv, Onward, RowOK, AppliedOK, Untouched, RemovedOK, ApplyStages,
             RemoveStages, RemovePhases, BirdPhases, NftPhases, Gone
    <3>. QED BY <3>1, <3>2 DEF SettingsInv
  <2>. QED BY <1>3, <1>4, <2>3, <2>4
<1>5. CASE work.phase = "nft_list"
  <2>1. Onward(s, "nft_sync") /\ s \in NftStages \ {"reconcile"}
    BY <1>1, <1>3, <1>5, NftFlow, OnwardOK DEF Go, Stages, Phases, NftStages, NftPhases
  <2>2. "nft_sync" \in PhasesOf(s)
    BY <2>1 DEF PhasesOf, NftPhases, NftStages
  <2>3. CASE s \in ApplyStages
    BY <1>1, <1>2, <1>5, <2>1, <2>2, <2>3, ApplyOnward DEF BirdPhases, NftPhases
  <2>4. CASE s \in RemoveStages
    <3>1. PlaceOK' /\ ErrorOK' /\ MemoryOK'
      BY <1>1, <1>2, <1>5, <2>1, <2>2, <2>4, OnwardKeeps DEF Stages, Phases, Idle, RemoveStages
    <3>2. RowOK' /\ AppliedOK' /\ RemovedOK'
      BY <1>1, <1>5, <2>1, <2>4
         DEF SettingsInv, Onward, RowOK, AppliedOK, RemovedOK, ApplyStages,
             RemoveStages, RemovePhases, BirdPhases, NftPhases, Gone
    <3>3. Untouched'
      BY <1>1, <1>5, <2>1, <2>4
         DEF SettingsInv, Onward, Untouched, Holds, Carries, RemoveStages, NftPhases
    <3>. QED BY <3>1, <3>2, <3>3 DEF SettingsInv
  <2>. QED BY <2>1, <2>3, <2>4 DEF NftStages, ApplyStages, RemoveStages
<1>6. CASE work.phase = "nft_sync"
  <2>1. s \in NftStages \ {"reconcile"} /\ Move(NftDone(s), work)
    BY <1>1, <1>3, <1>6, NftFlow DEF Go, NftPhases
  <2>2. CASE s = "create"
    <3>1. Onward(s, "activate") /\ "activate" \in PhasesOf(s)
      BY <2>1, <2>2, OnwardOK DEF NftDone, Stages, Phases, PhasesOf
    <3>. QED BY <1>1, <1>2, <1>6, <2>2, <3>1, ApplyOnward DEF BirdPhases, NftPhases, ApplyStages
  <2>3. CASE s = "delete"
    <3>1. Onward(s, "bird_list") /\ "bird_list" \in PhasesOf(s)
      BY <2>1, <2>3, OnwardOK DEF NftDone, Stages, Phases, PhasesOf, RemovePhases, BirdPhases
    <3>2. PlaceOK' /\ ErrorOK' /\ MemoryOK'
      BY <1>1, <1>2, <1>6, <2>3, <3>1, OnwardKeeps DEF Stages, Phases, Idle
    <3>3. RowOK' /\ AppliedOK' /\ Untouched' /\ RemovedOK'
      BY <1>1, <1>6, <2>3, <3>1
         DEF SettingsInv, Onward, RowOK, AppliedOK, Untouched, RemovedOK, ApplyStages,
             RemoveStages, RemovePhases, BirdPhases, NftPhases, Gone
    <3>. QED BY <3>2, <3>3 DEF SettingsInv
  <2>4. CASE s \notin {"create", "delete"}
    <3>1. NftDone(s) \in Ends
      BY <2>1, <2>4 DEF NftDone, Ends, NftStages
    <3>. QED BY <1>2, <2>1, <3>1, EndKeepsInv
  <2>. QED BY <2>2, <2>3, <2>4
<1>. QED BY <1>1, <1>4, <1>5, <1>6 DEF NftPhases

LEMMA SyncKeepsInv ==
    ASSUME SettingsInv, SyncBird(TRUE)
    PROVE  SettingsInv'
<1>. DEFINE s == work.stage
<1>1. /\ work.phase = "bird_sync" /\ bird' = SessionOf(InForce)
      /\ Move(Program(s, work.phase).ok, work)
      /\ UNCHANGED <<row, iface>>
  BY DEF SyncBird, In, Outcome, Succeed
<1>2. /\ work \in Work /\ row \in RowType \cup {None}
      /\ row' \in RowType \cup {None} /\ iface' \in Interface \cup {None}
  BY <1>1 DEF SettingsInv, PlaceOK, SettingsTypeOK
<1>3. s \in ApplyStages \cup RemoveStages
  BY <1>1, StagesOfPhase DEF SettingsInv, PlaceOK, SettingsTypeOK, Places, Work, BirdPhases
<1>4. bird' \in Session \cup {None}
  <2>1. InForce \in Settings \cup {None}
    BY <1>2, InForceOK
  <2>. QED BY <1>1, <2>1 DEF SessionOf, Session, Settings
<1>5. CASE s \in ApplyStages
  <2>. DEFINE f == IF s \in {"create", "undo_delete", "reapply"} THEN "nft_list" ELSE "activate"
  <2>1. Onward(s, f)
    BY <1>1, <1>5, ApplyFlow, OnwardOK DEF Go, ApplyDone, Stages, Phases, ApplyStages
  <2>2. f \in PhasesOf(s)
    BY <1>5 DEF PhasesOf, NftPhases, ApplyStages
  <2>3. InForce = work.want
    <3>1. /\ work.want \in Settings
          /\ row = [settings |-> work.want, status |-> StatusAt(s, "bird_sync")]
      BY <1>1, <1>5, Applying DEF ApplyPhases, BirdPhases
    <3>2. row \in RowType
      BY <3>1 DEF RowType, StatusAt
    <3>. QED BY <3>1, <3>2, NoneAssumption DEF InForce, StatusAt
  <2>. QED BY <1>1, <1>4, <1>5, <2>1, <2>2, <2>3, ApplyOnward DEF BirdPhases, NftPhases
<1>6. CASE s \in RemoveStages
  <2>1. Onward(s, "remove_if")
    BY <1>1, <1>6, RemoveFlow, OnwardOK DEF Go, Stages, Phases, RemoveStages
  <2>2. PlaceOK' /\ ErrorOK' /\ MemoryOK'
    <3>1. "remove_if" \in PhasesOf(s)
      BY <1>6 DEF PhasesOf, RemovePhases, RemoveStages
    <3>. QED BY <1>1, <1>2, <1>4, <1>6, <2>1, <3>1, OnwardKeeps
                DEF Stages, Phases, Idle, RemoveStages
  <2>3. RowOK' /\ AppliedOK' /\ Untouched'
    BY <1>1, <1>6, <2>1
       DEF SettingsInv, Onward, RowOK, AppliedOK, Untouched, ApplyStages,
           RemoveStages, RemovePhases, BirdPhases, NftPhases
  <2>4. s # "undo_create" \/ work.failures = 1 => InForce = None
    BY <1>1, <1>6 DEF SettingsInv, RowOK, RemoveStages, RemovePhases, BirdPhases, NftPhases, InForce
  <2>5. RemovedOK'
    BY <1>1, <2>1, <2>4 DEF Onward, RemovedOK, SessionOf, Gone, NftPhases
  <2>. QED BY <2>2, <2>3, <2>5 DEF SettingsInv
<1>. QED BY <1>3, <1>5, <1>6

(***************************************************************************)
(* The calls that fail.                                                    *)
(***************************************************************************)
LEMMA HarmlessFailure ==
    ASSUME SettingsInv, ~Idle, UNCHANGED <<row, iface, bird>>
    PROVE  FailsSafely
<1>1. row \in RowType \cup {None} /\ iface \in Interface \cup {None} /\ bird \in Session \cup {None}
      /\ work \in Work
  BY DEF SettingsInv, PlaceOK, SettingsTypeOK
<1>2. ASSUME \/ work.stage = "create" /\ work.phase # "reserve"
             \/ work.stage = "update" /\ work.phase \in ApplyPhases
      PROVE  row # None
  <2>1. work.phase \in ApplyPhases \cup LastPhases(work.stage) /\ work.stage \in ApplyStages
    BY <1>2 DEF SettingsInv, PlaceOK, Places, PhasesOf, LastPhases, ApplyStages
  <2>2. row = [settings |-> work.want, status |-> "provisioning"]
    BY <1>2, <2>1 DEF SettingsInv, RowOK, StatusAt
  <2>3. work.want \in Settings
    BY <1>2, BuildOK, DesiredOK DEF SettingsInv, MemoryOK, ApplyPhases, BirdPhases
  <2>4. row \in RowType
    BY <2>2, <2>3 DEF RowType
  <2>. QED BY <2>4, NoneAssumption
<1>. QED BY <1>1, <1>2 DEF FailsSafely

LEMMA FailedCall ==
    ASSUME SettingsInv, NEW ok \in BOOLEAN, ~ok, RowStep(ok) \/ DeviceStep(ok) \/ SyncBird(ok)
    PROVE  ~Idle /\ FailsSafely /\ FailWith(500)
<1>1. /\ row \in RowType \cup {None} /\ iface \in Interface \cup {None}
      /\ bird \in Session \cup {None}
      /\ work \in Work
  BY DEF SettingsInv, PlaceOK, SettingsTypeOK
<1>2. UNCHANGED <<row, iface, bird>> /\ ~Idle => FailsSafely
  BY HarmlessFailure
<1>3. CASE ReservePeer(ok)
  <2>1. /\ work.phase = "reserve" /\ FailWith(500) /\ UNCHANGED <<iface, bird>>
        /\ row' = [settings |-> build_peer(work.ask), status |-> "provisioning"]
    BY <1>3 DEF ReservePeer, In
  <2>2. work.stage = "create"
    BY <1>1, <2>1, StagesOfPhase DEF SettingsInv, PlaceOK, Places, Work
  <2>3. row' \in RowType
    BY <2>1, <2>2, BuildOK DEF SettingsInv, MemoryOK, RowType
  <2>. QED BY <1>1, <2>1, <2>2, <2>3 DEF FailsSafely, Idle
<1>4. CASE StoreDesired(ok)
  <2>1. /\ work.phase = "desire" /\ FailWith(500) /\ UNCHANGED <<iface, bird>>
        /\ row' = [settings |-> work.want, status |-> "provisioning"]
    BY <1>4 DEF StoreDesired, In, Outcome
  <2>2. work.stage \in {"update", "undo_update"}
    BY <1>1, <2>1, StagesOfPhase DEF SettingsInv, PlaceOK, Places, Work
  <2>3. row' \in RowType
    BY <2>1, <2>2, DesiredOK DEF SettingsInv, MemoryOK, RowType
  <2>. QED BY <1>1, <2>1, <2>2, <2>3 DEF FailsSafely, Idle, ApplyPhases, BirdPhases
<1>5. CASE SetStatus(ok)
  <2>1. /\ work.phase \in {"mark", "activate"} /\ FailWith(500) /\ UNCHANGED <<iface, bird>>
        /\ row' = [row EXCEPT !.status = IF work.phase = "mark" THEN "deleting" ELSE "active"]
    BY <1>5 DEF SetStatus, In, Outcome
  <2>2. row' \in RowType /\ row' # None
    BY <2>1, StatusRow, NoneAssumption DEF RowType
  <2>. QED BY <1>1, <2>1, <2>2 DEF FailsSafely, Idle, NftPhases, RemovePhases, BirdPhases
<1>6. CASE DropRow(ok)
  <2>1. work.phase = "drop_row" /\ FailWith(500) /\ UNCHANGED <<iface, bird>> /\ row' = None
    BY <1>6 DEF DropRow, In, Outcome
  <2>2. work.stage \in {"undo_create", "delete", "purge"}
    BY <1>1, <2>1, StagesOfPhase DEF SettingsInv, PlaceOK, Places, Work
  <2>. QED BY <1>1, <2>1, <2>2 DEF FailsSafely, Idle, NftPhases, RemovePhases, BirdPhases
<1>7. CASE \/ AddLink(ok) \/ SetLink(ok) \/ ConfigurePeer(ok) \/ ConfigureAddress(ok)
  <2>1. /\ work.phase \in {"ensure", "configure"} /\ FailWith(500) /\ UNCHANGED <<row, bird>>
    BY <1>7 DEF AddLink, SetLink, ConfigurePeer, ConfigureAddress, In, Outcome
  <2>2. work.stage \in ApplyStages /\ work.want \in Settings
    BY <2>1, InnerStage, Applying DEF ApplyPhases
  <2>3. row # None
    <3>1. row = [settings |-> work.want, status |-> StatusAt(work.stage, work.phase)]
      BY <2>1, <2>2, Applying DEF ApplyPhases
    <3>2. row \in RowType
      BY <2>2, <3>1 DEF RowType, StatusAt
    <3>. QED BY <3>2, NoneAssumption
  <2>4. iface' \in Interface \cup {None}
    <3>1. CASE AddLink(ok)
      <4>1. NewLink \in Interface
        <5>1. FALSE \in BOOLEAN
          OBVIOUS
        <5>. QED BY <5>1, Zenon DEF NewLink, Interface
      <4>. QED BY <1>1, <3>1, <4>1 DEF AddLink
    <3>2. CASE SetLink(ok)
      <4>1. iface \in Interface
        BY <1>1, <2>2, <3>2 DEF SetLink, In, SettingsInv, AppliedOK
      <4>. QED BY <2>2, <3>2, <4>1 DEF SetLink, Interface, Settings
    <3>3. CASE ConfigurePeer(ok)
      <4>1. iface \in Interface
        BY <1>1, <2>2, <3>3 DEF ConfigurePeer, In, SettingsInv, AppliedOK
      <4>. QED BY <2>2, <3>3, <4>1 DEF ConfigurePeer, Interface, Settings
    <3>4. CASE ConfigureAddress(ok)
      <4>1. iface \in Interface /\ work.want.local \in Addresses
        BY <1>1, <2>2, <3>4 DEF ConfigureAddress, In, SettingsInv, AppliedOK, Settings
      <4>2. iface.addresses \cup {work.want.local} \in SUBSET Addresses
        BY <4>1 DEF Interface
      <4>. QED BY <3>4, <4>1, <4>2 DEF ConfigureAddress, Interface
    <3>. QED BY <1>7, <3>1, <3>2, <3>3, <3>4
  <2>. QED BY <1>1, <2>1, <2>2, <2>3, <2>4
           DEF FailsSafely, Idle, ApplyStages, NftPhases, RemovePhases, BirdPhases
<1>8. CASE RemoveInterface(ok)
  <2>1. work.phase = "remove_if" /\ FailWith(500) /\ UNCHANGED <<row, bird>> /\ iface' = None
    BY <1>8 DEF RemoveInterface, In, Outcome
  <2>2. work.stage \in RemoveStages
    BY <1>1, <2>1, StagesOfPhase DEF SettingsInv, PlaceOK, Places, Work
  <2>. QED BY <1>1, <2>1, <2>2 DEF FailsSafely, Idle, NftPhases, RemovePhases, BirdPhases,
                                   RemoveStages, ApplyPhases
<1>9. CASE SyncBird(ok)
  <2>1. /\ work.phase = "bird_sync" /\ FailWith(500) /\ UNCHANGED <<row, iface>>
        /\ bird' \in {SessionOf(InForce), None}
    BY <1>9 DEF SyncBird, In, Outcome
  <2>2. bird' \in Session \cup {None}
    BY <1>1, <2>1, InForceOK DEF SessionOf, Session, Settings
  <2>3. ASSUME work.stage \in ApplyStages
        PROVE  row # None
    <3>1. /\ work.want \in Settings
          /\ row = [settings |-> work.want, status |-> StatusAt(work.stage, work.phase)]
      BY <2>1, <2>3, Applying DEF ApplyPhases, BirdPhases
    <3>2. row \in RowType
      BY <3>1 DEF RowType, StatusAt
    <3>. QED BY <3>2, NoneAssumption
  <2>. QED BY <1>1, <2>1, <2>2, <2>3 DEF FailsSafely, Idle, NftPhases, ApplyStages
<1>. QED BY <1>3, <1>4, <1>5, <1>6, <1>7, <1>8, <1>9 DEF RowStep, DeviceStep

LEMMA StepKeepsInv ==
    ASSUME SettingsInv, [Next]_settingsVars
    PROVE  SettingsInv'
<1>0. /\ row \in RowType \cup {None} /\ iface \in Interface \cup {None}
      /\ bird \in Session \cup {None}
      /\ work \in Work /\ answer \in HttpStatus \cup {0}
  BY DEF SettingsInv, PlaceOK, SettingsTypeOK
<1>1. ASSUME UNCHANGED <<row, iface, bird, work>>, answer' \in HttpStatus \cup {0}
      PROVE  SettingsInv'
  <2>1. PlaceOK'
    BY <1>1 DEF SettingsInv, PlaceOK, SettingsTypeOK, Places
  <2>2. ErrorOK' /\ MemoryOK' /\ RowOK'
    BY <1>1 DEF SettingsInv, ErrorOK, MemoryOK, RowOK
  <2>3. AppliedOK' /\ RemovedOK'
    BY <1>1 DEF SettingsInv, AppliedOK, RemovedOK, Carries, Gone
  <2>4. InForce' = InForce /\ InOrder' = InOrder
    BY <1>1 DEF InForce, InOrder, Carries
  <2>5. Untouched'
    BY <1>1, <2>4 DEF SettingsInv, Untouched, Holds, Carries
  <2>. QED BY <2>1, <2>2, <2>3, <2>5 DEF SettingsInv
<1>2. CASE UNCHANGED settingsVars
  BY <1>0, <1>1, <1>2 DEF settingsVars
<1>3. ASSUME NEW ask \in Requests \cup {None}, NEW status \in HttpStatus, Refuse(ask, status)
      PROVE  SettingsInv'
  BY <1>1, <1>3 DEF Refuse
<1>4. CASE \/ \E ask \in Requests : StartCreate(ask) \/ StartUpdate(ask)
           \/ StartDelete
           \/ Replay
  BY <1>4, StartKeepsInv
<1>5. ASSUME NEW status \in HttpStatus, Fail(status)
      PROVE  SettingsInv'
  <2>1. ~Idle /\ status \in {400, 500} /\ FailWith(status) /\ UNCHANGED <<row, iface, bird>>
    BY <1>5 DEF Fail
  <2>. QED BY <2>1, HarmlessFailure, FailKeepsInv
<1>6. CASE ReserveTaken
  BY <1>6, HarmlessFailure, FailKeepsInv DEF ReserveTaken, In, Idle
<1>7. CASE ReadMissing
  BY <1>7, HarmlessFailure, FailKeepsInv DEF ReadMissing, In, Idle
<1>8. ASSUME NEW ok \in BOOLEAN, RowStep(ok) \/ DeviceStep(ok) \/ SyncBird(ok)
      PROVE  SettingsInv'
  <2>1. CASE ~ok
    BY <1>8, <2>1, FailedCall, FailKeepsInv
  <2>2. CASE ok = TRUE
    <3>1. RowStep(TRUE) \/ DeviceStep(TRUE) \/ SyncBird(TRUE)
      BY <1>8, <2>2
    <3>. QED BY <3>1, ReserveKeepsInv, DesireKeepsInv, StatusKeepsInv, DropKeepsInv, LinkKeepsInv,
                SetLinkKeepsInv, PeerKeepsInv, AddressKeepsInv, RemoveKeepsInv, SyncKeepsInv
             DEF RowStep, DeviceStep
  <2>. QED BY <2>1, <2>2
<1>9. CASE Cancel
  <2>1. work' = Resting /\ UNCHANGED <<row, iface, bird, answer>>
    BY <1>9 DEF Cancel
  <2>2. work' \in Work
    BY <2>1, RestingOK
  <2>. QED BY <1>0, <2>1, <2>2, IdleOK DEF Resting
<1>. QED BY <1>2, <1>3, <1>4, <1>5, <1>6, <1>7, <1>8, <1>9, ReadKeepsInv, ReadChangeKeepsInv,
            ResolveKeepsInv, PassiveKeepsInv DEF Next

LEMMA InitKeepsInv == Init => SettingsInv
<1>. SUFFICES ASSUME Init PROVE SettingsInv
  OBVIOUS
<1>1. Resting \in Work
  BY RestingOK
<1>2. PlaceOK
  BY <1>1 DEF Init, Resting, PlaceOK, SettingsTypeOK, Places, PhasesOf, StepsOf
<1>3. ErrorOK /\ MemoryOK /\ RowOK /\ AppliedOK /\ RemovedOK /\ Untouched
  BY DEF Init, Resting, ErrorOK, MemoryOK, RowOK, AppliedOK, RemovedOK, Untouched, ApplyStages,
         RemoveStages, Replays
<1>. QED BY <1>2, <1>3 DEF SettingsInv

LEMMA SettingsInvariant == Spec => []SettingsInv
  BY InitKeepsInv, StepKeepsInv, PTL DEF Spec

(***************************************************************************)
(* Every variable keeps its type: along every path through the functions,  *)
(* compensation included, what is written to the row, the interface and    *)
(* BIRD are settings that parse_endpoint and parse_link_local have let     *)
(* through, never a value that was not read or not given.                  *)
(***************************************************************************)
THEOREM SettingsTypes == Spec => []SettingsTypeOK
<1>1. SettingsInv => SettingsTypeOK
  BY DEF SettingsInv, PlaceOK
<1>. QED BY <1>1, SettingsInvariant, PTL

-----------------------------------------------------------------------------
(***************************************************************************)
(* The answers.  An operation answers when a call fails and the function   *)
(* has nothing to compensate, or with the last call of the function.       *)
(***************************************************************************)

\* The last call of each function that ends without a further error.
LastCall ==
    \/ /\ work.phase = "activate"
       /\ work.stage \in {"create", "update", "undo_update", "unmark"}
       /\ SetStatus(TRUE)
    \/ work.phase = "drop_row" /\ work.stage = "delete" /\ DropRow(TRUE)
    \/ /\ work.phase = "nft_sync"
       /\ work.stage \in {"undo_create", "undo_delete", "reapply", "promote", "purge", "withdraw"}
       /\ Passive

\* A failing call that has had no effect, or one that has had its effect.
Failing(status) ==
    \/ /\ UNCHANGED <<row, iface, bird>>
       /\ status = 400 => Resolves \/ work.phase = "reserve"
       /\ status \in {404, 409} => work.phase \in {"read", "reserve"}
    \/ /\ status = 500
       /\ \E ok \in BOOLEAN : ~ok /\ (RowStep(ok) \/ DeviceStep(ok) \/ SyncBird(ok))

LEMMA Silent ==
    ASSUME NEW s, NEW f, f \notin {"idle", "ack"}, NEW now, Move(At(s, f), now)
    PROVE  answer' = answer
  BY DEF Move, At

LEMMA AnswerCases ==
    ASSUME SettingsInv, [Next]_settingsVars, Answers
    PROVE  \/ \E status \in {400, 404, 409, 500} : FailWith(status) /\ Failing(status)
           \/ LastCall
<1>0. ~Idle /\ answer' # answer /\ work \in Work
  BY DEF Answers, SettingsInv, PlaceOK, SettingsTypeOK
<1>1. ASSUME NEW ask \in Requests \cup {None}, NEW status \in HttpStatus, Refuse(ask, status)
      PROVE  FALSE
  BY <1>0, <1>1 DEF Refuse
<1>2. ASSUME \/ \E ask \in Requests : StartCreate(ask) \/ StartUpdate(ask)
             \/ StartDelete
             \/ Replay
      PROVE  FALSE
  BY <1>0, <1>2 DEF StartCreate, StartUpdate, StartDelete, Replay, Start
<1>3. ASSUME NEW status \in HttpStatus, Fail(status)
      PROVE  status \in {400, 500} /\ FailWith(status) /\ Failing(status)
  BY <1>3 DEF Fail, Failing
<1>4. ASSUME ReserveTaken
      PROVE  FailWith(409) /\ Failing(409)
  BY <1>4 DEF ReserveTaken, In, Failing
<1>5. ASSUME ReadMissing
      PROVE  FailWith(404) /\ Failing(404)
  BY <1>5 DEF ReadMissing, In, Failing
<1>6. ASSUME Cancel \/ ResolveEndpoint \/ AddLink(TRUE) \/ ConfigurePeer(TRUE)
             \/ UNCHANGED settingsVars
      PROVE  FALSE
  BY <1>0, <1>6 DEF Cancel, ResolveEndpoint, AddLink, ConfigurePeer, StepTo, settingsVars
<1>. DEFINE s == work.stage
            f == work.phase
<1>7. s \in Stages /\ f \in PhasesOf(s) /\ s # "reconcile"
  BY DEF SettingsInv, PlaceOK, SettingsTypeOK, Places, Work
<1>8. ASSUME ReservePeer(TRUE)
      PROVE  FALSE
  <2>1. f = "reserve" /\ s = "create"
    BY <1>7, <1>8, StagesOfPhase DEF ReservePeer, In
  <2>2. \E now : Move(At("create", "ensure"), now)
    BY <1>8, <2>1, ReadFlow DEF ReservePeer, Succeed, Go
  <2>. QED BY <1>0, <2>2, Silent
<1>9. ASSUME ReadPeer
      PROVE  FALSE
  <2>1. f = "read" /\ s \in {"update", "delete"}
    BY <1>9 DEF ReadPeer, In
  <2>2. \E now : Move(At("update", "desire"), now) \/ Move(At("delete", "mark"), now)
    BY <1>9, <2>1, ReadFlow DEF ReadPeer, Succeed, Go
  <2>. QED BY <1>0, <2>2, Silent
<1>10. ASSUME ReadChange
       PROVE  FALSE
  <2>1. \E now : \/ Move(At("withdraw", "bird_list"), now) \/ Move(At("purge", "bird_list"), now)
                 \/ Move(At("reapply", "ensure"), now) \/ Move(At("promote", "ensure"), now)
    BY <1>10 DEF ReadChange
  <2>. QED BY <1>0, <2>1, Silent
<1>11. ASSUME StoreDesired(TRUE)
       PROVE  FALSE
  <2>1. f = "desire" /\ s \in {"update", "undo_update"} /\ Move(Program(s, f).ok, work)
    BY <1>7, <1>11, StagesOfPhase DEF StoreDesired, In, Outcome, Succeed
  <2>2. Move(At(s, "ensure"), work)
    BY <2>1, DesireFlow DEF Go
  <2>. QED BY <1>0, <2>2, Silent
<1>12. ASSUME SetStatus(TRUE)
       PROVE  f = "activate" /\ s \in {"create", "update", "undo_update", "unmark"}
  <2>1. Move(Program(s, f).ok, work) /\ f \in {"mark", "activate"}
    BY <1>12 DEF SetStatus, In, Outcome, Succeed
  <2>2. CASE f = "mark"
    <3>1. Move(At("undo_create", "bird_list"), work) \/ Move(At("delete", "nft_list"), work)
      BY <1>7, <2>1, <2>2, StagesOfPhase, MarkFlow DEF Go
    <3>. QED BY <1>0, <3>1, Silent
  <2>3. CASE f = "activate" /\ s \in {"undo_delete", "promote"}
    <3>1. Move(At("undo_delete", "ensure"), work) \/ Move(At("promote", "nft_list"), work)
      BY <2>1, <2>3, ActivateFlow DEF Go
    <3>. QED BY <1>0, <3>1, Silent
  <2>. QED BY <1>7, <2>1, <2>2, <2>3, StagesOfPhase
<1>13. ASSUME DropRow(TRUE)
       PROVE  f = "drop_row" /\ s = "delete"
  <2>1. Move(Program(s, f).ok, work) /\ f = "drop_row"
    BY <1>13 DEF DropRow, In, Outcome, Succeed
  <2>2. CASE s \in {"undo_create", "purge"}
    <3>1. Move(At(s, "nft_list"), work)
      BY <2>1, <2>2, DropFlow DEF Go
    <3>. QED BY <1>0, <3>1, Silent
  <2>. QED BY <1>7, <2>1, <2>2, StagesOfPhase
<1>14. ASSUME SetLink(TRUE) \/ ConfigureAddress(TRUE)
       PROVE  FALSE
  <2>1. Move(Program(s, f).ok, work) /\ f \in {"ensure", "configure"}
    BY <1>14 DEF SetLink, ConfigureAddress, In, Outcome, Succeed
  <2>2. Move(At(s, "configure"), work) \/ Move(At(s, "bird_list"), work)
    BY <1>7, <2>1, StagesOfPhase, ApplyFlow DEF Go
  <2>. QED BY <1>0, <2>2, Silent
<1>15. ASSUME RemoveInterface(TRUE)
       PROVE  FALSE
  <2>1. Move(Program(s, f).ok, work) /\ f = "remove_if"
    BY <1>15 DEF RemoveInterface, In, Outcome, Succeed
  <2>2. Move(At(s, "nft_list"), work) \/ Move(At(s, "drop_row"), work)
    BY <1>7, <2>1, StagesOfPhase, RemoveFlow DEF Go, RemoveDone
  <2>. QED BY <1>0, <2>2, Silent
<1>16. ASSUME SyncBird(TRUE)
       PROVE  FALSE
  <2>1. Move(Program(s, f).ok, work) /\ f = "bird_sync"
    BY <1>16 DEF SyncBird, In, Outcome, Succeed
  <2>2. \/ Move(At(s, "nft_list"), work) \/ Move(At(s, "activate"), work)
        \/ Move(At(s, "remove_if"), work)
    BY <1>7, <2>1, StagesOfPhase, ApplyFlow, RemoveFlow DEF Go, ApplyDone, BirdPhases
  <2>. QED BY <1>0, <2>2, Silent
<1>17. ASSUME Passive
       PROVE  f = "nft_sync" /\ s \in NftStages \ {"create", "delete", "reconcile"}
  <2>1. Move(Program(s, f).ok, work) /\ f \in {"bird_list"} \cup NftPhases
    BY <1>17 DEF Passive, Succeed
  <2>2. CASE f = "bird_list"
    <3>1. Move(At(s, "bird_sync"), work)
      BY <1>7, <2>1, <2>2, StagesOfPhase, ApplyFlow, RemoveFlow DEF Go, BirdPhases
    <3>. QED BY <1>0, <3>1, Silent
  <2>3. CASE f = "nft_list"
    <3>1. Move(At(s, "nft_sync"), work)
      BY <1>7, <2>1, <2>3, StagesOfPhase, NftFlow DEF Go, NftPhases
    <3>. QED BY <1>0, <3>1, Silent
  <2>4. CASE f = "nft_sync" /\ s \in {"create", "delete"}
    <3>1. Move(At(s, "activate"), work) \/ Move(At(s, "bird_list"), work)
      BY <2>1, <2>4, NftFlow DEF Go, NftDone, NftStages
    <3>. QED BY <1>0, <3>1, Silent
  <2>5. f \in NftPhases => s \in NftStages
    BY <1>7, StagesOfPhase
  <2>. QED BY <1>7, <2>1, <2>2, <2>3, <2>4, <2>5 DEF NftPhases
<1>18. ASSUME NEW ok \in BOOLEAN, RowStep(ok) \/ DeviceStep(ok) \/ SyncBird(ok)
       PROVE  \/ FailWith(500) /\ Failing(500)
              \/ SetStatus(TRUE) \/ DropRow(TRUE)
  <2>1. CASE ~ok
    <3>1. FailWith(500)
      BY <1>18, <2>1, FailedCall
    <3>2. \E b \in BOOLEAN : ~b /\ (RowStep(b) \/ DeviceStep(b) \/ SyncBird(b))
      BY <1>18, <2>1
    <3>. QED BY <3>1, <3>2 DEF Failing
  <2>2. CASE ok = TRUE
    <3>1. RowStep(TRUE) \/ DeviceStep(TRUE) \/ SyncBird(TRUE)
      BY <1>18, <2>2
    <3>. QED BY <1>6, <1>8, <1>11, <1>14, <1>15, <1>16, <3>1 DEF RowStep, DeviceStep
  <2>. QED BY <2>1, <2>2
<1>19. \/ \E status \in HttpStatus : Fail(status)
       \/ ReserveTaken \/ ReadMissing \/ Passive
       \/ \E ok \in BOOLEAN : RowStep(ok) \/ DeviceStep(ok) \/ SyncBird(ok)
  BY <1>1, <1>2, <1>6, <1>9, <1>10 DEF Next
<1>20. \/ \E status \in {400, 404, 409, 500} : FailWith(status) /\ Failing(status)
       \/ SetStatus(TRUE) \/ DropRow(TRUE) \/ Passive
  <2>1. ASSUME NEW status \in HttpStatus, Fail(status)
        PROVE  \E c \in {400, 404, 409, 500} : FailWith(c) /\ Failing(c)
    BY <1>3, <2>1
  <2>2. ASSUME ReserveTaken \/ ReadMissing
        PROVE  \E c \in {400, 404, 409, 500} : FailWith(c) /\ Failing(c)
    BY <1>4, <1>5, <2>2
  <2>3. ASSUME NEW ok \in BOOLEAN, RowStep(ok) \/ DeviceStep(ok) \/ SyncBird(ok)
        PROVE  \/ \E c \in {400, 404, 409, 500} : FailWith(c) /\ Failing(c)
               \/ SetStatus(TRUE) \/ DropRow(TRUE)
    <3>1. (FailWith(500) /\ Failing(500)) \/ SetStatus(TRUE) \/ DropRow(TRUE)
      BY <1>18, <2>3, Zenon
    <3>. QED BY <3>1
  <2>. QED BY <1>19, <2>1, <2>2, <2>3
<1>. QED BY <1>12, <1>13, <1>17, <1>20 DEF LastCall, NftStages

(***************************************************************************)
(* The answer to a failing call.                                           *)
(***************************************************************************)
LEMMA FailAnswer ==
    ASSUME SettingsInv, Answers, NEW status \in {400, 404, 409, 500}, FailWith(status)
    PROVE  /\ Program(work.stage, work.phase).err \in {Return("failed"), Return("ready")}
           /\ answer' = IF work.error = 0 THEN status ELSE work.error
           /\ answer' \in {400, 404, 409, 500}
           /\ work'.failures = IF work.failures = 2 THEN 2 ELSE work.failures + 1
<1>. DEFINE t == Program(work.stage, work.phase).err
            now == Erring(status)
<1>1. Move(t, now)
  BY DEF FailWith, Erring
<1>2. ErrorTurn(work.stage, work.phase, t)
  BY ErrorFlow DEF SettingsInv, PlaceOK, SettingsTypeOK, Work, Places, Idle, Answers
<1>3. t \in Place
  BY <1>2, TurnPlaces
<1>4. /\ now \in Work /\ now.error = (IF work.error = 0 THEN status ELSE work.error)
      /\ now.failures = (IF work.failures = 2 THEN 2 ELSE work.failures + 1)
      /\ now.error \in {400, 404, 409, 500}
  BY ErringOK
<1>. HIDE DEF t, now
<1>5. t \in {Return("failed"), Return("ready")}
  BY <1>1, <1>2, Silent DEF ErrorTurn, Answers
<1>6. t.phase = "idle" /\ t.stage \in {"failed", "ready"}
  BY <1>5 DEF Return, At
<1>. QED BY <1>1, <1>3, <1>4, <1>5, <1>6, MoveEnd DEF AnswerAt, t

(***************************************************************************)
(* What is in force after the last call of a function.                     *)
(***************************************************************************)
LEMMA InOrderAfter ==
    ASSUME row' \in RowType, row'.status # "deleting",
           Carries(iface', row'.settings), bird' = SessionOf(row'.settings)
    PROVE  InForce' = row'.settings /\ InOrder'
<1>1. InForce' = row'.settings
  BY NoneAssumption DEF InForce
<1>. QED BY <1>1 DEF InOrder, Carries

LEMMA NothingLeft ==
    ASSUME row' = None, iface' = None, bird' = None
    PROVE  InForce' = None /\ InOrder'
  BY DEF InForce, InOrder, Carries, SessionOf

LEMMA Activated ==
    ASSUME SettingsInv, SetStatus(TRUE), work.phase = "activate"
    PROVE  /\ work.stage \in {"create", "update", "undo_update"}
                => /\ row' = [settings |-> work.want, status |-> "active"]
                   /\ InForce' = work.want
                   /\ InOrder'
           /\ work.stage = "unmark" /\ work.calm => InForce' = work.before /\ InOrder'
<1>1. row' = [row EXCEPT !.status = "active"] /\ UNCHANGED <<iface, bird>>
  BY DEF SetStatus
<1>2. row \in RowType
  BY StatusRow
<1>3. row' \in RowType /\ row'.settings = row.settings /\ row'.status = "active"
      /\ row' = [settings |-> row.settings, status |-> "active"]
  BY <1>1, <1>2 DEF RowType
<1>4. ASSUME Holds(row.settings)
      PROVE  InForce' = row.settings /\ InOrder'
  BY <1>1, <1>3, <1>4, InOrderAfter DEF Holds, Carries
<1>5. ASSUME work.stage \in {"create", "update", "undo_update"}
      PROVE  row.settings = work.want /\ Holds(row.settings)
  <2>1. row.settings = work.want
    BY <1>5 DEF SettingsInv, RowOK, ApplyStages, LastPhases
  <2>2. Carries(iface, work.want) /\ bird = SessionOf(work.want)
    BY <1>5 DEF SettingsInv, AppliedOK, ApplyStages, LastPhases
  <2>. QED BY <2>1, <2>2 DEF Holds
<1>6. ASSUME work.stage = "unmark", work.calm
      PROVE  row.settings = work.before /\ Holds(row.settings)
  BY <1>6 DEF SettingsInv, RowOK, MemoryOK, Untouched
<1>. QED BY <1>3, <1>4, <1>5, <1>6

LEMMA Dropped ==
    ASSUME SettingsInv, DropRow(TRUE), work.stage = "delete"
    PROVE  row' = None /\ InForce' = None /\ InOrder'
<1>1. row' = None /\ UNCHANGED <<iface, bird>> /\ work.phase = "drop_row"
  BY DEF DropRow, In
<1>2. iface = None /\ bird = None
  BY <1>1 DEF SettingsInv, RemovedOK, RemoveStages, Gone
<1>. QED BY <1>1, <1>2, NothingLeft

LEMMA PortsSynced ==
    ASSUME SettingsInv, Passive, work.phase = "nft_sync"
    PROVE  /\ work.stage \in {"undo_delete", "reapply", "promote"}
                => row'.status = "active" /\ InForce' = work.want /\ InOrder'
           /\ work.stage \in {"purge", "withdraw"}
                => row' = None /\ InForce' = None /\ InOrder'
           /\ work.stage = "undo_create" /\ work.failures = 1
                => row' = None /\ InForce' = None /\ InOrder'
<1>1. UNCHANGED <<row, iface, bird>>
  BY DEF Passive
<1>2. ASSUME work.stage \in {"undo_delete", "reapply", "promote"}
      PROVE  row'.status = "active" /\ InForce' = work.want /\ InOrder'
  <2>1. row = [settings |-> work.want, status |-> "active"]
    BY <1>2 DEF SettingsInv, RowOK, ApplyStages, LastPhases, NftPhases, StatusAt
  <2>2. Carries(iface, work.want) /\ bird = SessionOf(work.want)
    BY <1>2 DEF SettingsInv, AppliedOK, ApplyStages, LastPhases, NftPhases
  <2>3. work.want \in Settings
    BY <1>2 DEF SettingsInv, MemoryOK
  <2>4. row' \in RowType /\ row'.settings = work.want /\ row'.status = "active"
    BY <1>1, <2>1, <2>3 DEF RowType
  <2>. QED BY <1>1, <2>2, <2>4, InOrderAfter DEF Carries
<1>3. ASSUME \/ work.stage \in {"purge", "withdraw"}
             \/ work.stage = "undo_create" /\ work.failures = 1
      PROVE  row' = None /\ InForce' = None /\ InOrder'
  <2>1. row = None
    BY <1>3 DEF SettingsInv, RowOK, NftPhases
  <2>2. iface = None /\ bird = None
    BY <1>3 DEF SettingsInv, RemovedOK, RemoveStages, Gone, NftPhases
  <2>. QED BY <1>1, <2>1, <2>2, NothingLeft
<1>. QED BY <1>2, <1>3

\* The counter of failures and the answer of a function that ends.
LEMMA EndAnswer ==
    ASSUME SettingsInv, NEW t \in Ends, Move(t, work)
    PROVE  work'.failures = work.failures /\ answer' = AnswerAt(t.stage, work.error)
<1>1. t \in Place /\ t.phase \in {"idle", "ack"}
  BY DEF Ends, Return, At, Place, Stages, Phases
<1>. QED BY <1>1, MoveEnd DEF SettingsInv, PlaceOK, SettingsTypeOK

LEMMA LastCallOK ==
    ASSUME SettingsInv, LastCall
    PROVE  work'.failures = work.failures
<1>1. Move(Program(work.stage, work.phase).ok, work)
  BY DEF LastCall, SetStatus, DropRow, Passive, Outcome, Succeed
<1>2. CASE work.phase = "activate" /\ work.stage \in {"create", "update", "undo_update", "unmark"}
  <2>1. Program(work.stage, work.phase).ok \in Ends
    BY <1>2, ActivateFlow DEF Go, Ends
  <2>. QED BY <1>1, <1>2, <2>1, EndAnswer
<1>3. CASE work.phase = "drop_row" /\ work.stage = "delete"
  <2>1. Program(work.stage, work.phase).ok \in Ends
    BY <1>3, DropFlow DEF Go, Ends
  <2>. QED BY <1>1, <1>3, <2>1, EndAnswer
<1>4. CASE work.phase = "nft_sync" /\ work.stage \in NftStages \ {"create", "delete"}
  <2>1. Program(work.stage, work.phase).ok \in Ends
    BY <1>4, NftFlow DEF Go, Ends, NftDone, NftStages
  <2>. QED BY <1>1, <2>1, EndAnswer
<1>. QED BY <1>2, <1>3, <1>4 DEF LastCall, NftStages

(***************************************************************************)
(* A create, update or delete that is answered with success has done what  *)
(* was asked: every field of the JSON, whether given, left out or null, is *)
(* in the row, on the interface and in BIRD, whatever earlier operations   *)
(* had left behind.                                                        *)
(***************************************************************************)
THEOREM SuccessApplies == Spec => AppliedAsAsked
<1>1. ASSUME SettingsInv, [Next]_settingsVars, Answers, answer' \in {200, 201}
      PROVE  CASE work.stage \in {"create", "update"} ->
                    /\ row'.status = "active"
                    /\ Follows(row'.settings, work.ask, work.before)
                    /\ InOrder'
               [] work.stage = "delete" -> row' = None /\ InOrder'
               [] OTHER -> TRUE
  <2>. USE <1>1
  <2>1. LastCall
    <3>1. ASSUME NEW status \in {400, 404, 409, 500}, FailWith(status)
          PROVE  FALSE
      BY <3>1, FailAnswer
    <3>. QED BY <3>1, AnswerCases
  <2>2. ASSUME work.phase = "activate", SetStatus(TRUE), work.stage \in {"create", "update"}
        PROVE  /\ row'.status = "active"
               /\ Follows(row'.settings, work.ask, work.before)
               /\ InOrder'
    <3>1. row' = [settings |-> work.want, status |-> "active"] /\ InOrder'
      BY <2>2, Activated
    <3>2. Follows(work.want, work.ask, work.before)
      BY <2>2, BuildOK, DesiredOK DEF SettingsInv, MemoryOK
    <3>. QED BY <3>1, <3>2
  <2>3. ASSUME DropRow(TRUE), work.stage = "delete"
        PROVE  row' = None /\ InOrder'
    BY <2>3, Dropped
  <2>4. CASE work.stage \in {"create", "update"}
    <3>1. work.phase = "activate" /\ SetStatus(TRUE)
      BY <2>1, <2>4 DEF LastCall
    <3>. QED BY <2>2, <2>4, <3>1
  <2>5. CASE work.stage = "delete"
    <3>1. DropRow(TRUE)
      BY <2>1, <2>5 DEF LastCall
    <3>. QED BY <2>3, <2>5, <3>1
  <2>6. CASE work.stage \notin {"create", "update", "delete"}
    BY <2>6
  <2>. QED BY <2>4, <2>5, <2>6
<1>. QED BY <1>1, SettingsInvariant, PTL DEF Spec, AppliedAsAsked

(***************************************************************************)
(* One replay of an event that succeeds puts the interface and BIRD in     *)
(* order and does not change what is in force: the listener repairs        *)
(* whatever failed calls, failed compensations and dropped requests have   *)
(* left.                                                                   *)
(***************************************************************************)
THEOREM ReplayRepairs == Spec => Repaired
<1>1. ASSUME SettingsInv, [Next]_settingsVars, Answers, work.stage \in Replays, answer' = 200
      PROVE  /\ InForce' = work.before
             /\ InOrder'
             /\ row' # None => row'.status = "active"
  <2>. USE <1>1
  <2>1. ASSUME NEW status \in {400, 404, 409, 500}, FailWith(status)
        PROVE  FALSE
    BY <2>1, FailAnswer
  <2>2. work.phase = "nft_sync" /\ Passive
        /\ work.stage \in {"reapply", "promote", "purge", "withdraw"}
    <3>1. LastCall
      BY <2>1, AnswerCases
    <3>. QED BY <3>1 DEF Replays, LastCall
  <2>3. work.stage \in {"reapply", "promote"} => work.before = work.want
    BY DEF SettingsInv, MemoryOK
  <2>4. work.stage \in {"purge", "withdraw"} => work.before = None
    BY DEF SettingsInv, MemoryOK
  <2>. QED BY <2>2, <2>3, <2>4, PortsSynced
<1>. QED BY <1>1, SettingsInvariant, PTL DEF Spec, Repaired

(***************************************************************************)
(* The ends of an operation in which exactly one call has failed.          *)
(***************************************************************************)
LEMMA Compensated ==
    ASSUME SettingsInv, LastCall, work.calm, work.failures = 1
    PROVE  InForce' = work.before /\ InOrder'
<1>1. work.stage \notin {"create", "update", "delete", "reapply", "promote", "purge", "withdraw"}
  BY DEF SettingsInv, ErrorOK, Replays
<1>2. CASE work.stage = "undo_update"
  <2>1. work.want = work.before
    BY <1>2 DEF SettingsInv, MemoryOK
  <2>. QED BY <1>2, <2>1, Activated DEF LastCall
<1>3. CASE work.stage = "unmark"
  BY <1>3, Activated DEF LastCall
<1>4. CASE work.stage = "undo_create"
  <2>1. work.before = None
    BY <1>4 DEF SettingsInv, MemoryOK
  <2>. QED BY <1>4, <2>1, PortsSynced DEF LastCall
<1>5. CASE work.stage = "undo_delete"
  <2>1. work.want = work.before
    BY <1>5 DEF SettingsInv, MemoryOK, LastCall
  <2>. QED BY <1>5, <2>1, PortsSynced DEF LastCall
<1>. QED BY <1>1, <1>2, <1>3, <1>4, <1>5 DEF LastCall

LEMMA FirstFailure ==
    ASSUME SettingsInv, Answers, NEW status \in {400, 404, 409, 500}, FailWith(status),
           work'.failures = 1
    PROVE  /\ work.failures = 0 /\ answer' = status
           /\ work.stage \in {"create", "update", "delete"} \cup Replays
           /\ work.stage \in {"create", "update", "delete"}
                => \/ work.phase \in {"reserve", "read"}
                   \/ work.stage = "update" /\ work.phase \in {"desire", "activate"}
                   \/ work.stage = "delete" /\ work.phase \in {"mark", "drop_row"}
<1>1. work \in Work /\ work.failures \in 0 .. 2 /\ work.phase # "idle"
      /\ work.stage \in Stages /\ work.phase \in PhasesOf(work.stage) /\ work.stage # "reconcile"
  BY DEF SettingsInv, PlaceOK, SettingsTypeOK, Places, Work, Answers, Idle
<1>2. work.failures = 0
  BY <1>1, FailAnswer
<1>3. work.error = 0
  BY <1>1, <1>2 DEF SettingsInv, ErrorOK
<1>4. answer' = status
  BY <1>3, FailAnswer
<1>5. work.stage \in {"create", "update", "delete"} \cup Replays
  BY <1>1, <1>2 DEF SettingsInv, ErrorOK, Replays, Stages, PhasesOf
<1>. QED BY <1>1, <1>2, <1>4, <1>5, FailAnswer, DirectFlow

\* Before the first write, what was in force still is.
LEMMA StillInForce ==
    ASSUME SettingsInv, work.calm, UNCHANGED <<row, iface, bird>>,
           \/ work.phase \in {"reserve", "read"}
           \/ work.stage = "update" /\ work.phase = "desire"
           \/ work.stage = "delete" /\ work.phase = "mark"
           \/ work.stage \in {"reapply", "promote"} /\ work.phase = "configure"
    PROVE  InForce' = work.before /\ InOrder'
<1>1. InForce' = InForce /\ InOrder' = InOrder
  BY DEF InForce, InOrder, Carries
<1>2. CASE work.phase \in {"reserve", "read"}
  BY <1>1, <1>2 DEF SettingsInv, Untouched
<1>3. CASE \/ work.stage = "update" /\ work.phase = "desire"
           \/ work.stage = "delete" /\ work.phase = "mark"
  <2>1. /\ row # None /\ row.settings = work.old /\ row.status # "deleting"
        /\ work.before = work.old /\ Holds(work.old)
    BY <1>3 DEF SettingsInv, RowOK, MemoryOK, Untouched
  <2>2. InForce = work.old
    BY <2>1 DEF InForce
  <2>. QED BY <1>1, <2>1, <2>2 DEF InOrder, Holds
<1>4. CASE work.stage \in {"reapply", "promote"} /\ work.phase = "configure"
  <2>1. /\ work.want \in Settings
        /\ row = [settings |-> work.want, status |-> StatusAt(work.stage, work.phase)]
    BY <1>4, Applying DEF ApplyStages, ApplyPhases
  <2>2. row # None
    <3>1. row \in RowType
      BY <2>1 DEF RowType, StatusAt
    <3>. QED BY <3>1, NoneAssumption
  <2>3. InForce = work.want
    BY <2>1, <2>2 DEF InForce, StatusAt
  <2>4. work.before = work.want /\ Holds(work.want)
    BY <1>4 DEF SettingsInv, MemoryOK, Untouched
  <2>. QED BY <1>1, <2>3, <2>4 DEF InOrder, Holds
<1>. QED BY <1>2, <1>3, <1>4

\* The new settings are in force, or nothing is when none were asked for.
NewInForce ==
    /\ IF work.ask = None THEN InForce' = None
       ELSE InForce' # None /\ Follows(InForce', work.ask, work.before)
    /\ InOrder' \/ row'.status \in {"provisioning", "deleting"}

LEMMA NewSettings ==
    ASSUME NEW s \in Settings, row' \in RowType, row'.settings = s,
           work.ask \in Payload, Follows(s, work.ask, work.before),
           row'.status # "deleting"
    PROVE  /\ work.ask # None
           /\ InForce' # None /\ Follows(InForce', work.ask, work.before)
<1>1. InForce' = s
  BY NoneAssumption DEF InForce
<1>2. work.ask # None /\ s # None
  BY NoneAssumption
<1>. QED BY <1>1, <1>2

LEMMA OneFailure ==
    ASSUME SettingsInv, Answers, NEW status \in {400, 404, 409, 500}, FailWith(status),
           Failing(status), work'.failures = 1, work.calm, work.stage \notin Replays
    PROVE  (InForce' = work.before /\ InOrder') \/ NewInForce
<1>0. row \in RowType \cup {None}
  BY DEF SettingsInv, PlaceOK, SettingsTypeOK
<1>1. /\ work.stage \in {"create", "update", "delete"}
      /\ \/ work.phase \in {"reserve", "read"}
         \/ work.stage = "update" /\ work.phase \in {"desire", "activate"}
         \/ work.stage = "delete" /\ work.phase \in {"mark", "drop_row"}
  BY FirstFailure
<1>2. CASE UNCHANGED <<row, iface, bird>>
  <2>1. CASE \/ work.phase \in {"reserve", "read"}
             \/ work.stage = "update" /\ work.phase = "desire"
             \/ work.stage = "delete" /\ work.phase = "mark"
    BY <1>2, <2>1, StillInForce
  <2>2. CASE work.stage = "update" /\ work.phase = "activate"
    <3>1. row = [settings |-> work.want, status |-> "provisioning"]
      BY <2>2 DEF SettingsInv, RowOK, ApplyStages, LastPhases, StatusAt, NftPhases
    <3>2. /\ work.ask \in Payload /\ work.want \in Settings
          /\ Follows(work.want, work.ask, work.before)
      BY <2>2, DesiredOK DEF SettingsInv, MemoryOK
    <3>3. row' \in RowType /\ row'.settings = work.want /\ row'.status = "provisioning"
      BY <1>2, <3>1, <3>2 DEF RowType
    <3>. QED BY <3>2, <3>3, NewSettings DEF NewInForce
  <2>3. CASE work.stage = "delete" /\ work.phase = "drop_row"
    <3>1. row # None /\ row.status = "deleting" /\ work.ask = None
      BY <2>3 DEF SettingsInv, RowOK, MemoryOK
    <3>. QED BY <1>2, <3>1 DEF NewInForce, InForce
  <2>. QED BY <1>1, <2>1, <2>2, <2>3
<1>3. ASSUME NEW ok \in BOOLEAN, ~ok, RowStep(ok) \/ DeviceStep(ok) \/ SyncBird(ok)
      PROVE  NewInForce
  <2>1. CASE ReservePeer(ok)
    <3>1. /\ work.phase = "reserve" /\ row = None
          /\ row' = [settings |-> build_peer(work.ask), status |-> "provisioning"]
      BY <2>1 DEF ReservePeer, In
    <3>2. work.stage = "create"
      BY <3>1, StagesOfPhase DEF SettingsInv, PlaceOK, SettingsTypeOK, Places, Work
    <3>3. work.ask \in Payload /\ Parses(work.ask)
      BY <3>2 DEF SettingsInv, MemoryOK
    <3>4. work.before = None
      BY <3>1 DEF SettingsInv, Untouched, InForce
    <3>5. build_peer(work.ask) \in Settings /\ Follows(build_peer(work.ask), work.ask, work.before)
      BY <3>3, <3>4, BuildOK
    <3>6. row' \in RowType /\ row'.settings = build_peer(work.ask) /\ row'.status = "provisioning"
      BY <3>1, <3>5 DEF RowType
    <3>. QED BY <3>3, <3>5, <3>6, NewSettings DEF NewInForce
  <2>2. CASE StoreDesired(ok)
    <3>1. /\ work.phase = "desire" /\ work.stage = "update"
          /\ row' = [settings |-> work.want, status |-> "provisioning"]
      BY <1>1, <2>2 DEF StoreDesired, In
    <3>2. /\ work.ask \in Payload /\ work.want \in Settings
          /\ Follows(work.want, work.ask, work.before)
      BY <3>1, DesiredOK DEF SettingsInv, MemoryOK
    <3>3. row' \in RowType /\ row'.settings = work.want /\ row'.status = "provisioning"
      BY <3>1, <3>2 DEF RowType
    <3>. QED BY <3>2, <3>3, NewSettings DEF NewInForce
  <2>3. CASE SetStatus(ok) /\ work.stage = "update"
    <3>1. /\ work.phase = "activate" /\ UNCHANGED <<iface, bird>>
          /\ row' = [row EXCEPT !.status = "active"]
      BY <1>1, <2>3 DEF SetStatus, In
    <3>2. /\ work.ask \in Payload /\ work.want \in Settings
          /\ Follows(work.want, work.ask, work.before)
      BY <2>3, <3>1, DesiredOK DEF SettingsInv, MemoryOK
    <3>3. row = [settings |-> work.want, status |-> "provisioning"]
      BY <2>3, <3>1 DEF SettingsInv, RowOK, ApplyStages, LastPhases, StatusAt, NftPhases
    <3>4. row' \in RowType /\ row'.settings = work.want /\ row'.status = "active"
      BY <3>1, <3>2, <3>3 DEF RowType
    <3>5. Carries(iface, work.want) /\ bird = SessionOf(work.want)
      BY <2>3, <3>1 DEF SettingsInv, AppliedOK, ApplyStages, LastPhases
    <3>6. InOrder'
      BY <3>1, <3>4, <3>5, InOrderAfter DEF Carries
    <3>. QED BY <3>2, <3>4, <3>6, NewSettings DEF NewInForce
  <2>4. CASE SetStatus(ok) /\ work.stage = "delete"
    <3>1. work.phase = "mark" /\ row' = [row EXCEPT !.status = "deleting"]
      BY <1>1, <2>4 DEF SetStatus, In
    <3>2. row \in RowType
      BY <3>1, StatusRow
    <3>3. row' \in RowType /\ row'.status = "deleting"
      BY <3>1, <3>2 DEF RowType
    <3>4. work.ask = None
      BY <2>4 DEF SettingsInv, MemoryOK
    <3>. QED BY <3>3, <3>4 DEF NewInForce, InForce
  <2>5. CASE DropRow(ok)
    <3>1. work.phase = "drop_row" /\ row' = None /\ UNCHANGED <<iface, bird>>
      BY <2>5 DEF DropRow, In
    <3>2. work.stage = "delete"
      BY <1>1, <3>1
    <3>3. iface = None /\ bird = None /\ work.ask = None
      BY <3>1, <3>2 DEF SettingsInv, RemovedOK, RemoveStages, Gone, MemoryOK
    <3>4. InForce' = None /\ InOrder'
      BY <3>1, <3>3, NothingLeft
    <3>. QED BY <3>3, <3>4 DEF NewInForce
  <2>6. ~(DeviceStep(ok) \/ SyncBird(ok))
    BY <1>1 DEF DeviceStep, AddLink, SetLink, ConfigurePeer, ConfigureAddress, RemoveInterface,
                SyncBird, In
  <2>7. SetStatus(ok) => work.stage \in {"update", "delete"}
    BY <1>1 DEF SetStatus, In
  <2>. QED BY <1>3, <2>1, <2>2, <2>3, <2>4, <2>5, <2>6, <2>7 DEF RowStep
<1>. QED BY <1>2, <1>3 DEF Failing

(***************************************************************************)
(* The addresses of the interface.  An operation that began with           *)
(* everything in order adds the address that was asked for, or, when it    *)
(* compensates, one that the interface had.                                *)
(***************************************************************************)
AddressesOK ==
    ~Idle /\ work.calm =>
      /\ work.before # None => work.before.local \in work.had
      /\ AddressesOf(iface) \subseteq work.had \cup Asked

\* What an operation remembers until it returns.
Remembers ==
    /\ work'.ask = work.ask /\ work'.before = work.before
    /\ work'.calm = work.calm /\ work'.had = work.had

LEMMA MoveRemembers ==
    ASSUME NEW t, NEW now \in Work, Move(t, now),
           now.ask = work.ask, now.before = work.before, now.calm = work.calm,
           now.had = work.had
    PROVE  work'.phase = "idle" \/ Remembers
<1>1. CASE t.phase \in {"idle", "ack"}
  BY <1>1 DEF Move, Resting
<1>2. CASE t.phase \notin {"idle", "ack"}
  BY <1>2 DEF Move, Work, Remembers
<1>. QED BY <1>1, <1>2

LEMMA FailRemembers ==
    ASSUME SettingsInv, NEW status \in {400, 404, 409, 500}, FailWith(status)
    PROVE  work'.phase = "idle" \/ Remembers
<1>1. Move(Program(work.stage, work.phase).err, Erring(status))
  BY DEF FailWith, Erring
<1>2. Erring(status).had = work.had
  BY DEF Erring, SettingsInv, PlaceOK, SettingsTypeOK, Work
<1>. QED BY <1>1, <1>2, ErringOK, MoveRemembers

LEMMA StepRemembers ==
    ASSUME SettingsInv, [Next]_settingsVars, ~Idle
    PROVE  work'.phase = "idle" \/ Remembers
<1>0. work \in Work
  BY DEF SettingsInv, PlaceOK, SettingsTypeOK
<1>1. ASSUME Succeed(work)
      PROVE  work'.phase = "idle" \/ Remembers
  BY <1>0, <1>1, MoveRemembers DEF Succeed
<1>2. ASSUME NEW ok \in BOOLEAN, Outcome(ok)
      PROVE  work'.phase = "idle" \/ Remembers
  BY <1>1, <1>2, FailRemembers DEF Outcome
<1>3. ASSUME NEW step, StepTo(step)
      PROVE  Remembers
  BY <1>0, <1>3 DEF StepTo, Work, Remembers
<1>4. ~(\E ask \in Requests \cup {None}, status \in HttpStatus : Refuse(ask, status))
      /\ ~(\E ask \in Requests : StartCreate(ask) \/ StartUpdate(ask))
      /\ ~StartDelete /\ ~Replay
  BY DEF Refuse, StartCreate, StartUpdate, StartDelete, Replay, Start
<1>5. ASSUME NEW status \in HttpStatus, Fail(status)
      PROVE  work'.phase = "idle" \/ Remembers
  BY <1>5, FailRemembers DEF Fail
<1>6. CASE ReserveTaken \/ ReadMissing
  BY <1>6, FailRemembers DEF ReserveTaken, ReadMissing
<1>7. CASE ReadPeer
  <2>1. PICK want : Succeed([work EXCEPT !.old = row.settings, !.want = want])
                    /\ want \in Settings /\ row.settings \in Settings
    <3>1. row \in RowType /\ row.settings \in Settings
      BY <1>7 DEF ReadPeer, Found, SettingsInv, PlaceOK, SettingsTypeOK, RowType
    <3>2. work.stage = "update" => desired_peer(work.ask, row.settings) \in Settings
      BY <3>1, DesiredOK DEF SettingsInv, MemoryOK
    <3>. QED BY <1>7, <3>1, <3>2 DEF ReadPeer
  <2>2. [work EXCEPT !.old = row.settings, !.want = want] \in Work
    BY <1>0, <2>1 DEF Work
  <2>. QED BY <1>0, <2>1, <2>2, MoveRemembers DEF Succeed, Work
<1>8. CASE ReadChange
  <2>1. CASE row = None
    BY <1>0, <1>8, <2>1, MoveRemembers DEF ReadChange
  <2>2. CASE row # None
    <3>1. row.settings \in Settings
      BY <2>2 DEF SettingsInv, PlaceOK, SettingsTypeOK, RowType
    <3>2. [work EXCEPT !.want = row.settings] \in Work
      BY <1>0, <3>1 DEF Work
    <3>3. \E t : Move(t, [work EXCEPT !.want = row.settings])
      BY <1>8, <2>2 DEF ReadChange
    <3>. QED BY <1>0, <3>2, <3>3, MoveRemembers DEF Work
  <2>. QED BY <2>1, <2>2
<1>9. ASSUME NEW ok \in BOOLEAN, ReservePeer(ok)
      PROVE  work'.phase = "idle" \/ Remembers
  <2>1. CASE ok
    <3>1. Succeed([work EXCEPT !.want = build_peer(work.ask)])
      BY <1>9, <2>1 DEF ReservePeer
    <3>2. work.stage = "create"
      BY <1>0, <1>9, StagesOfPhase DEF ReservePeer, In, SettingsInv, PlaceOK, Places, Work
    <3>3. build_peer(work.ask) \in Settings
      BY <3>2, BuildOK DEF SettingsInv, MemoryOK
    <3>4. [work EXCEPT !.want = build_peer(work.ask)] \in Work
      BY <1>0, <3>3 DEF Work
    <3>. QED BY <1>0, <3>1, <3>4, MoveRemembers DEF Succeed, Work
  <2>2. CASE ~ok
    BY <1>9, <2>2, FailRemembers DEF ReservePeer
  <2>. QED BY <2>1, <2>2
<1>10. ASSUME NEW ok \in BOOLEAN,
              StoreDesired(ok) \/ SetStatus(ok) \/ DropRow(ok) \/ SetLink(ok)
              \/ ConfigureAddress(ok) \/ RemoveInterface(ok) \/ SyncBird(ok)
       PROVE  work'.phase = "idle" \/ Remembers
  BY <1>2, <1>10 DEF StoreDesired, SetStatus, DropRow, SetLink, ConfigureAddress,
                     RemoveInterface, SyncBird
<1>11. ASSUME NEW ok \in BOOLEAN, AddLink(ok) \/ ConfigurePeer(ok)
       PROVE  work'.phase = "idle" \/ Remembers
  BY <1>3, <1>11, FailRemembers DEF AddLink, ConfigurePeer
<1>12. CASE ResolveEndpoint \/ Passive
  BY <1>1, <1>3, <1>12 DEF ResolveEndpoint, Passive
<1>13. CASE Cancel \/ UNCHANGED settingsVars
  BY <1>13 DEF Cancel, Resting, settingsVars, Remembers
<1>. QED BY <1>4, <1>5, <1>6, <1>7, <1>8, <1>9, <1>10, <1>11, <1>12, <1>13
         DEF Next, RowStep, DeviceStep

LEMMA WantedAddress ==
    ASSUME SettingsInv, AddressesOK, work.phase = "configure", work.calm
    PROVE  work.want.local \in work.had \cup Asked
<1>0. work.stage \in ApplyStages /\ ~Idle
  BY InnerStage DEF Idle
<1>1. CASE work.stage \in {"create", "update"}
  <2>1. /\ work.ask \in Payload
        /\ work.want = build_peer(work.ask) \/ work.want = desired_peer(work.ask, work.old)
    BY <1>1 DEF SettingsInv, MemoryOK
  <2>2. work.ask # None /\ work.want.local = LocalOf(work.ask)
    BY <2>1, NoneAssumption DEF build_peer, desired_peer
  <2>. QED BY <2>2 DEF Asked
<1>2. CASE work.stage \in {"undo_update", "undo_delete", "reapply", "promote"}
  <2>1. work.before = work.want /\ work.want \in Settings
    BY <1>2 DEF SettingsInv, MemoryOK
  <2>2. work.before # None
    BY <2>1, NoneAssumption
  <2>. QED BY <1>0, <2>1, <2>2 DEF AddressesOK
<1>. QED BY <1>0, <1>1, <1>2 DEF ApplyStages

LEMMA AddressesGrow ==
    ASSUME SettingsInv, AddressesOK, [Next]_settingsVars, ~Idle, work.calm
    PROVE  AddressesOf(iface') \subseteq work.had \cup Asked
<1>0. AddressesOf(iface) \subseteq work.had \cup Asked
  BY DEF AddressesOK
<1>1. CASE iface' = iface
  BY <1>0, <1>1
<1>2. ASSUME NEW ok \in BOOLEAN, AddLink(ok)
      PROVE  AddressesOf(iface') \subseteq work.had \cup Asked
  BY <1>0, <1>2 DEF AddLink, NewLink, AddressesOf
<1>3. ASSUME NEW ok \in BOOLEAN, SetLink(ok) \/ ConfigurePeer(ok) \/ ConfigureAddress(ok)
      PROVE  AddressesOf(iface') \subseteq work.had \cup Asked
  <2>1. iface \in Interface
    BY <1>3, InnerStage
       DEF SetLink, ConfigurePeer, ConfigureAddress, In, SettingsInv, AppliedOK
  <2>2. iface # None
    BY <2>1, NoneAssumption
  <2>3. CASE SetLink(ok) \/ ConfigurePeer(ok)
    <3>1. iface'.addresses = iface.addresses
      BY <2>1, <2>3 DEF SetLink, ConfigurePeer, Interface
    <3>. QED BY <1>0, <2>2, <3>1 DEF AddressesOf
  <2>4. CASE ConfigureAddress(ok)
    <3>1. /\ work.phase = "configure"
          /\ iface'.addresses = iface.addresses \cup {work.want.local}
      BY <2>1, <2>4 DEF ConfigureAddress, In, Interface
    <3>. QED BY <1>0, <2>2, <3>1, WantedAddress DEF AddressesOf
  <2>. QED BY <1>3, <2>3, <2>4
<1>4. ASSUME NEW ok \in BOOLEAN, RemoveInterface(ok)
      PROVE  AddressesOf(iface') \subseteq work.had \cup Asked
  BY <1>4 DEF RemoveInterface, AddressesOf
<1>5. \/ iface' = iface
      \/ \E ok \in BOOLEAN : DeviceStep(ok)
  BY DEF Next, settingsVars, Refuse, StartCreate, StartUpdate, StartDelete, Replay, Start, Fail,
         ReserveTaken, ReadPeer, ReadMissing, ReadChange, ResolveEndpoint, Passive, RowStep,
         ReservePeer, StoreDesired, SetStatus, DropRow, SyncBird, Cancel
<1>. QED BY <1>1, <1>2, <1>3, <1>4, <1>5 DEF DeviceStep

LEMMA AddressesStep ==
    ASSUME SettingsInv, AddressesOK, [Next]_settingsVars
    PROVE  AddressesOK'
<1>0. AddressesOf(iface)' = AddressesOf(iface')
  BY DEF AddressesOf
<1>1. CASE ~Idle
  <2>1. CASE work'.phase = "idle"
    BY <2>1 DEF AddressesOK, Idle
  <2>2. CASE Remembers
    <3>1. Asked' = Asked
      BY <2>2 DEF Remembers, Asked, LocalOf
    <3>. QED BY <1>0, <1>1, <2>2, <3>1, AddressesGrow DEF AddressesOK, Remembers
  <2>. QED BY <1>1, <2>1, <2>2, StepRemembers
<1>2. CASE Idle /\ work' = work
  BY <1>2 DEF AddressesOK, Idle
<1>3. ASSUME NEW stage \in Stages, NEW phase \in Phases, NEW ask \in Payload \cup {None},
             Start(stage, phase, ask)
      PROVE  AddressesOK'
  <2>1. /\ work'.before = InForce /\ work'.had = AddressesOf(iface)
        /\ work'.calm => InOrder
        /\ UNCHANGED <<row, iface, bird>>
    BY <1>3, StartFields
  <2>2. InOrder /\ InForce # None => InForce.local \in AddressesOf(iface)
    BY DEF InOrder, Carries, AddressesOf
  <2>. QED BY <1>0, <2>1, <2>2 DEF AddressesOK
<1>4. CASE Idle /\ work' # work
  <2>1. /\ {"create", "update", "delete", "change"} \subseteq Stages
        /\ {"reserve", "read"} \subseteq Phases
        /\ Requests \subseteq Payload
    BY SettingsAssumption DEF Stages, Phases
  <2>2. \/ \E ask \in Requests : StartCreate(ask) \/ StartUpdate(ask)
        \/ StartDelete \/ Replay
    BY <1>4 DEF Next, settingsVars, Refuse, Fail, ReserveTaken, ReadPeer, ReadMissing, ReadChange,
                ResolveEndpoint, Resolves, Passive, RowStep, DeviceStep, ReservePeer,
                StoreDesired, SetStatus, DropRow, AddLink, SetLink, ConfigurePeer,
                ConfigureAddress, RemoveInterface, SyncBird, Cancel, In, Idle, NftPhases
  <2>. QED BY <1>3, <2>1, <2>2 DEF StartCreate, StartUpdate, StartDelete, Replay
<1>. QED BY <1>1, <1>2, <1>4

LEMMA AddressesInvariant == Spec => [](SettingsInv /\ AddressesOK)
<1>1. Init => AddressesOK
  BY DEF Init, Resting, AddressesOK, Idle
<1>. QED BY <1>1, InitKeepsInv, StepKeepsInv, AddressesStep, PTL DEF Spec

(***************************************************************************)
(* A single failing call, at whatever place of a request that began with   *)
(* everything in order, leaves all of the old settings in force, or all of *)
(* the new ones: compensate_failed_create, compensate_failed_update and    *)
(* the error paths of delete_peer.  Only the address that was asked for    *)
(* may stay on the interface, beside those it had.                         *)
(***************************************************************************)
THEOREM CompensationIsComplete == Spec => AllOrNothing
<1>1. ASSUME SettingsInv, [Next]_settingsVars, Answers, work.stage \notin Replays, work.calm,
             work'.failures = 1
      PROVE  (InForce' = work.before /\ InOrder') \/ NewInForce
  <2>1. ASSUME NEW status \in {400, 404, 409, 500}, FailWith(status), Failing(status)
        PROVE  (InForce' = work.before /\ InOrder') \/ NewInForce
    BY <1>1, <2>1, OneFailure
  <2>2. ASSUME LastCall
        PROVE  InForce' = work.before /\ InOrder'
    BY <1>1, <2>2, LastCallOK, Compensated
  <2>. QED BY <1>1, <2>1, <2>2, AnswerCases
<1>2. SettingsInv /\ AddressesOK /\ [Next]_settingsVars
        => (Answers /\ work.stage \notin Replays /\ work.calm /\ work'.failures = 1
              => /\ \/ InForce' = work.before /\ InOrder'
                    \/ /\ IF work.ask = None THEN InForce' = None
                          ELSE InForce' # None /\ Follows(InForce', work.ask, work.before)
                       /\ InOrder' \/ row'.status \in {"provisioning", "deleting"}
                 /\ AddressesOf(iface') \subseteq work.had \cup Asked)
  BY <1>1, AddressesGrow DEF NewInForce, Answers
<1>. QED BY <1>2, AddressesInvariant, PTL DEF Spec, AllOrNothing

(***************************************************************************)
(* A request that is answered as the client's mistake has changed nothing, *)
(* also when the mistake, a name that does not resolve, shows only after   *)
(* the row was written.                                                    *)
(***************************************************************************)
THEOREM RefusalChangesNothing == Spec => RefusedChangesNothing
<1>1. ASSUME SettingsInv, [Next]_settingsVars, Answers, work.calm, work'.failures = 1,
             answer' \in {400, 404, 409}
      PROVE  InForce' = work.before /\ InOrder'
  <2>1. ASSUME NEW status \in {400, 404, 409, 500}, FailWith(status), Failing(status)
        PROVE  InForce' = work.before /\ InOrder'
    <3>1. /\ answer' = status
          /\ work.stage \in {"create", "update", "delete"} \cup Replays
          /\ work.stage \in {"create", "update", "delete"}
               => \/ work.phase \in {"reserve", "read"}
                  \/ work.stage = "update" /\ work.phase \in {"desire", "activate"}
                  \/ work.stage = "delete" /\ work.phase \in {"mark", "drop_row"}
      BY <1>1, <2>1, FirstFailure
    <3>2. UNCHANGED <<row, iface, bird>> /\ (Resolves \/ work.phase \in {"read", "reserve"})
      BY <1>1, <2>1, <3>1 DEF Failing
    <3>3. CASE work.phase \in {"read", "reserve"}
      BY <1>1, <3>2, <3>3, StillInForce
    <3>4. CASE Resolves
      <4>1. work.phase = "configure"
        BY <3>4 DEF Resolves, In
      <4>2. work.stage \in ApplyStages
        BY <1>1, <4>1, InnerStage
      <4>3. work.stage \in {"reapply", "promote"}
        BY <3>1, <4>1, <4>2 DEF Replays, ApplyStages
      <4>. QED BY <1>1, <3>2, <4>1, <4>3, StillInForce
    <3>. QED BY <3>2, <3>3, <3>4
  <2>2. ASSUME LastCall
        PROVE  InForce' = work.before /\ InOrder'
    BY <1>1, <2>2, LastCallOK, Compensated
  <2>. QED BY <1>1, <2>1, <2>2, AnswerCases
<1>. QED BY <1>1, SettingsInvariant, PTL DEF Spec, RefusedChangesNothing
=============================================================================
