---------------------------- MODULE PeerSettings ----------------------------
(***************************************************************************)
(* The settings of one machine, field by field, from the JSON of a request *)
(* (src/src/handle.rs) through the row (src/src/manager.rs) to the         *)
(* attributes of the WireGuard interface (src/src/netlink.rs) and the      *)
(* session of BIRD, and the HTTP status that is answered (src/src/error.rs).*)
(*                                                                         *)
(* The mutation lock lets one operation at a time work on a machine, so    *)
(* operations follow one another here; which call follows which is said in *)
(* PeerFlow.  The calls that PeerFlow takes as one, "ensure" and           *)
(* "configure", are taken apart.  An operation is a request or the replay  *)
(* of an event by the listener.  The ASN is another network's: the         *)
(* creation test for the service's own one stores nothing, see PeerManager.*)
(***************************************************************************)
EXTENDS PeerFlow, Naturals

CONSTANTS
    PubKeys,      \* WireGuard public keys of the peer
    Hosts,        \* endpoints as clients spell them, all of them valid
    Normalize,    \* Normalize[h] is HOST:PORT with the host in lower case
    BadHost,      \* the text of an endpoint that is not of this form
    Mtus,         \* MTUs a client may ask for
    DefaultMtu,   \* 1420
    AutoLocal, AutoRemote,    \* asn_link_local of the two networks
    LocalTexts, RemoteTexts,  \* link-local addresses that clients choose
    BadAddress,   \* the text of an address that is not an IPv6 link-local one
    Absent, Null, \* a field of the JSON that is absent, or null
    None,         \* no row, interface, session, endpoint, key or settings
    Addresses,    \* all link-local addresses: of clients, and the automatic ones
    Requests      \* the payloads that clients send

Endpoints == {Normalize[h] : h \in Hosts}

Settings ==
    [pubkey : PubKeys, endpoint : Endpoints \cup {None},
     local : Addresses, remote : Addresses, mtu : Mtus \cup {DefaultMtu}]

\* The fields of the JSON that say what is wanted.
Payload ==
    [pubkey : PubKeys,
     endpoint : Hosts \cup {BadHost, Absent, Null},
     manual_lla : BOOLEAN,
     local : LocalTexts \cup {BadAddress, Absent},
     remote : RemoteTexts \cup {BadAddress, Absent},
     mtu : Mtus \cup {Absent, Null}]

ASSUME SettingsAssumption ==
    /\ DOMAIN Normalize = Hosts
    /\ {Absent, Null, BadHost} \cap Hosts = {}
    /\ Addresses = LocalTexts \cup RemoteTexts \cup {AutoLocal, AutoRemote}
    /\ {Absent, BadAddress} \cap Addresses = {}
    /\ {Absent, Null} \cap Mtus = {}
    /\ Absent # Null
    /\ None \notin Endpoints \cup PubKeys
    /\ Requests \subseteq Payload

VARIABLES
    row,     \* the row: its settings and its status
    iface,   \* the interface wgp<id>
    bird,    \* the addresses of the session in the configuration of BIRD
    work,    \* the operation that holds the mutation lock
    answer   \* the HTTP status of the last operation, 0 while there is none

settingsVars == <<row, iface, bird, work, answer>>

RowType == [settings : Settings, status : {"provisioning", "active", "deleting"}]

(***************************************************************************)
(* named stands for the alias and the up state, which are set together.    *)
(* The kernel keeps a set of addresses, and one WireGuard peer.            *)
(***************************************************************************)
Interface ==
    [named : BOOLEAN, mtu : Mtus \cup {DefaultMtu}, addresses : SUBSET Addresses,
     pubkey : PubKeys \cup {None}, endpoint : Endpoints \cup {None}]

Session == [local : Addresses, remote : Addresses]

\* None is none of the records.
ASSUME NoneAssumption ==
    None \notin Settings \cup Payload \cup RowType \cup Interface \cup Session

HttpStatus == {200, 201, 400, 403, 404, 409, 500, 503}

(***************************************************************************)
(* step is the call within the phase; ask the JSON; want what is applied;  *)
(* old what was read from the row; failures how many calls have failed, up *)
(* to two; error the status that the first of them is answered with.       *)
(* before, calm and had remember, for the properties, the settings in      *)
(* force when the operation began, whether everything was in order then,   *)
(* and the addresses of the interface; failures is kept until the next     *)
(* operation begins.                                                       *)
(***************************************************************************)
Steps == {"first", "link", "resolve", "device", "address"}

Work ==
    [stage : Stages, phase : Phases, step : Steps,
     ask : Payload \cup {None}, want : Settings \cup {None}, old : Settings \cup {None},
     error : HttpStatus \cup {0}, failures : 0 .. 2,
     before : Settings \cup {None}, calm : BOOLEAN, had : SUBSET Addresses]

Resting ==
    [stage |-> "ready", phase |-> "idle", step |-> "first",
     ask |-> None, want |-> None, old |-> None,
     error |-> 0, failures |-> 0, before |-> None, calm |-> TRUE, had |-> {}]

(***************************************************************************)
(* Every variable keeps its type; endpoints in the row and in the kernel   *)
(* are normalized ones.                                                    *)
(***************************************************************************)
SettingsTypeOK ==
    /\ row \in RowType \cup {None}
    /\ iface \in Interface \cup {None}
    /\ bird \in Session \cup {None}
    /\ work \in Work
    /\ answer \in HttpStatus \cup {0}

-----------------------------------------------------------------------------
(***************************************************************************)
(* What the row asks for, and whether the interface and BIRD have it.  An  *)
(* interface carries an address if it is one of those it has: it may have  *)
(* others from settings that were in force before.                         *)
(***************************************************************************)
InForce == IF row = None THEN None
           ELSE IF row.status = "deleting" THEN None ELSE row.settings

SessionOf(s) == IF s = None THEN None ELSE [local |-> s.local, remote |-> s.remote]

Carries(device, s) ==
    IF s = None THEN device = None
    ELSE /\ device # None
         /\ device.named
         /\ device.mtu = s.mtu
         /\ device.pubkey = s.pubkey
         /\ device.endpoint = s.endpoint
         /\ s.local \in device.addresses

AddressesOf(device) == IF device = None THEN {} ELSE device.addresses

InOrder == Carries(iface, InForce) /\ bird = SessionOf(InForce)

Init ==
    /\ row = None
    /\ iface = None
    /\ bird = None
    /\ work = Resting
    /\ answer = 0

-----------------------------------------------------------------------------
(***************************************************************************)
(* The handlers: parse_endpoint, parse_link_local, and the settings that   *)
(* create_peer and update_peer make of them.                               *)
(***************************************************************************)
ValidEndpoint(text) == text \in Hosts \cup {Absent, Null}

\* Faulty variant: the endpoint is stored as it was spelled.
parse_endpoint_AsSpelled(text) == IF text \in Hosts THEN text ELSE None

parse_endpoint(text) == IF text \in Hosts THEN Normalize[text] ELSE None

ValidLinkLocal(ask) ==
    IF ask.manual_lla
      THEN {ask.local, ask.remote} \subseteq Addresses /\ ask.local # ask.remote
      ELSE ask.local = Absent /\ ask.remote = Absent

Parses(ask) == ValidEndpoint(ask.endpoint) /\ ValidLinkLocal(ask)

LocalOf(ask) == IF ask.manual_lla THEN ask.local ELSE AutoLocal
RemoteOf(ask) == IF ask.manual_lla THEN ask.remote ELSE AutoRemote

build_peer(ask) ==
    [pubkey   |-> ask.pubkey,
     endpoint |-> parse_endpoint(ask.endpoint),
     local    |-> LocalOf(ask),
     remote   |-> RemoteOf(ask),
     mtu      |-> IF ask.mtu \in {Absent, Null} THEN DefaultMtu ELSE ask.mtu]

\* Faulty variant: an update without addresses keeps those of the row.
desired_peer_KeepAddresses(ask, old) ==
    [pubkey   |-> ask.pubkey,
     endpoint |-> IF ask.endpoint = Absent THEN old.endpoint ELSE parse_endpoint(ask.endpoint),
     local    |-> IF ask.manual_lla THEN ask.local ELSE old.local,
     remote   |-> IF ask.manual_lla THEN ask.remote ELSE old.remote,
     mtu      |-> CASE ask.mtu = Absent -> old.mtu
                    [] ask.mtu = Null   -> DefaultMtu
                    [] OTHER            -> ask.mtu]

desired_peer(ask, old) ==
    [pubkey   |-> ask.pubkey,
     endpoint |-> IF ask.endpoint = Absent THEN old.endpoint ELSE parse_endpoint(ask.endpoint),
     local    |-> LocalOf(ask),
     remote   |-> RemoteOf(ask),
     mtu      |-> CASE ask.mtu = Absent -> old.mtu
                    [] ask.mtu = Null   -> DefaultMtu
                    [] OTHER            -> ask.mtu]

(***************************************************************************)
(* A request is parsed, then authorized, and only then handed on; deletion *)
(* has nothing to parse.  The listener replays an event of the peer.       *)
(***************************************************************************)
Idle == work.phase = "idle"

Refuse(ask, status) ==
    /\ Idle
    /\ status \in IF ask = None \/ Parses(ask) THEN {400, 403, 500, 503} ELSE {400}
    /\ answer' = status
    /\ UNCHANGED <<row, iface, bird, work>>

Start(stage, phase, ask) ==
    /\ Idle
    /\ work' = [Resting EXCEPT !.stage = stage, !.phase = phase, !.ask = ask,
                               !.before = InForce, !.had = AddressesOf(iface),
                               !.calm = InOrder /\ (row # None => row.status # "deleting")]
    /\ answer' = 0
    /\ UNCHANGED <<row, iface, bird>>

StartCreate(ask) == Parses(ask) /\ Start("create", "reserve", ask)
StartUpdate(ask) == Parses(ask) /\ Start("update", "read", ask)
StartDelete == Start("delete", "read", None)
Replay == Start("change", "read", None)

(***************************************************************************)
(* The operation moves on along PeerFlow, or returns: its answer is the    *)
(* one of its first error.  Compensation works on what was read from the   *)
(* row.                                                                    *)
(***************************************************************************)
FirstStep(phase) ==
    CASE phase = "ensure" -> "link" [] phase = "configure" -> "resolve" [] OTHER -> "first"

\* Faulty variant: compensation applies what was asked for once more.
Restored_Asked(stage, now) == now.want

Restored(stage, now) == IF stage \in {"undo_update", "undo_delete"} THEN now.old ELSE now.want

\* change is the stage of apply_peer_change that deletes the event.
AnswerAt(stage, error) ==
    CASE stage = "created"                          -> 201
      [] stage \in {"updated", "deleted", "change"} -> 200
      [] OTHER                                      -> error

Move(place, now) ==
    IF place.phase \in {"idle", "ack"}
      THEN /\ work' = [Resting EXCEPT !.failures = now.failures]
           /\ answer' = AnswerAt(place.stage, now.error)
      ELSE /\ work' = [now EXCEPT !.stage = place.stage, !.phase = place.phase,
                                  !.step = FirstStep(place.phase),
                                  !.want = Restored(place.stage, now)]
           /\ UNCHANGED answer

Succeed(now) == Move(Program(work.stage, work.phase).ok, now)

FailWith(status) ==
    Move(Program(work.stage, work.phase).err,
         [work EXCEPT !.error = IF @ = 0 THEN status ELSE @,
                      !.failures = IF @ = 2 THEN 2 ELSE @ + 1])

Outcome(ok) == IF ok THEN Succeed(work) ELSE FailWith(500)

In(phase, step) == work.phase = phase /\ work.step = step

StepTo(step) == work' = [work EXCEPT !.step = step] /\ UNCHANGED answer

(***************************************************************************)
(* A call fails without an effect.  A name that does not resolve counts as *)
(* a mistake of the client, and so does a range without a free port; all   *)
(* other errors are the server's.                                          *)
(***************************************************************************)
Resolves == In("configure", "resolve")

Fail(status) ==
    /\ ~Idle
    /\ Resolves => work.want.endpoint # None
    /\ status \in CASE Resolves                   -> {400}
                    [] work.phase = "reserve"     -> {400, 500}
                    [] OTHER                      -> {500}
    /\ FailWith(status)
    /\ UNCHANGED <<row, iface, bird>>

(***************************************************************************)
(* The statements on the row.  With ok = FALSE the statement has had its   *)
(* effect and the answer is an error.  The service alone writes the row    *)
(* here, so the row that an operation has read is there until the operation*)
(* deletes it.                                                             *)
(***************************************************************************)
ReservePeer(ok) ==
    LET peer == build_peer(work.ask) IN
    /\ In("reserve", "first")
    /\ row = None
    /\ row' = [settings |-> peer, status |-> "provisioning"]
    /\ IF ok THEN Succeed([work EXCEPT !.want = peer]) ELSE FailWith(500)
    /\ UNCHANGED <<iface, bird>>

ReserveTaken ==
    /\ In("reserve", "first")
    /\ row # None
    /\ FailWith(409)
    /\ UNCHANGED <<row, iface, bird>>

Found == row # None /\ (work.stage = "update" => row.status # "deleting")

ReadPeer ==
    /\ In("read", "first")
    /\ work.stage \in {"update", "delete"}
    /\ Found
    /\ Succeed([work EXCEPT !.old = row.settings,
                            !.want = IF work.stage = "update"
                                       THEN desired_peer(work.ask, row.settings)
                                       ELSE row.settings])
    /\ UNCHANGED <<row, iface, bird>>

ReadMissing ==
    /\ In("read", "first")
    /\ work.stage \in {"update", "delete"}
    /\ ~Found
    /\ FailWith(404)
    /\ UNCHANGED <<row, iface, bird>>

\* apply_peer_change goes by the status of the row.
ReadChange ==
    /\ In("read", "first")
    /\ work.stage = "change"
    /\ IF row = None
         THEN Move(At("withdraw", "bird_list"), work)
         ELSE Move(CASE row.status = "deleting" -> At("purge", "bird_list")
                     [] row.status = "active"   -> At("reapply", "ensure")
                     [] OTHER                   -> At("promote", "ensure"),
                   [work EXCEPT !.want = row.settings])
    /\ UNCHANGED <<row, iface, bird>>

StoreDesired(ok) ==
    /\ In("desire", "first")
    /\ row' = [settings |-> work.want, status |-> "provisioning"]
    /\ Outcome(ok)
    /\ UNCHANGED <<iface, bird>>

SetStatus(ok) ==
    /\ In("mark", "first") \/ In("activate", "first")
    /\ row' = [row EXCEPT !.status = IF work.phase = "mark" THEN "deleting" ELSE "active"]
    /\ Outcome(ok)
    /\ UNCHANGED <<iface, bird>>

DropRow(ok) ==
    /\ In("drop_row", "first")
    /\ row' = None
    /\ Outcome(ok)
    /\ UNCHANGED <<iface, bird>>

(***************************************************************************)
(* ensure_wg_interface: the link is added unless it is there, then its     *)
(* MTU, alias and up state are set, on every call.                         *)
(***************************************************************************)
NewLink ==
    [named |-> FALSE, mtu |-> DefaultMtu, addresses |-> {}, pubkey |-> None, endpoint |-> None]

AddLink(ok) ==
    /\ In("ensure", "link")
    /\ iface' = IF iface = None THEN NewLink ELSE iface
    /\ ok \/ iface = None
    /\ IF ok THEN StepTo("device") ELSE FailWith(500)
    /\ UNCHANGED <<row, bird>>

\* Faulty variant: a link that has its alias keeps its MTU.
SetLink_OnlyNew(ok) ==
    /\ In("ensure", "device")
    /\ iface' = IF iface.named THEN iface
                ELSE [iface EXCEPT !.mtu = work.want.mtu, !.named = TRUE]
    /\ Outcome(ok)
    /\ UNCHANGED <<row, bird>>

SetLink(ok) ==
    /\ In("ensure", "device")
    /\ iface' = [iface EXCEPT !.mtu = work.want.mtu, !.named = TRUE]
    /\ Outcome(ok)
    /\ UNCHANGED <<row, bird>>

(***************************************************************************)
(* The rest of apply_wireguard: resolve_endpoint, configure_peer, which    *)
(* replaces the WireGuard peer, and configure_local_address, which adds an *)
(* address.                                                                *)
(***************************************************************************)
ResolveEndpoint ==
    /\ Resolves
    /\ StepTo("device")
    /\ UNCHANGED <<row, iface, bird>>

ConfigurePeer(ok) ==
    /\ In("configure", "device")
    /\ iface' = [iface EXCEPT !.pubkey = work.want.pubkey, !.endpoint = work.want.endpoint]
    /\ IF ok THEN StepTo("address") ELSE FailWith(500)
    /\ UNCHANGED <<row, bird>>

ConfigureAddress(ok) ==
    /\ In("configure", "address")
    /\ iface' = [iface EXCEPT !.addresses = @ \cup {work.want.local}]
    /\ Outcome(ok)
    /\ UNCHANGED <<row, bird>>

RemoveInterface(ok) ==
    /\ In("remove_if", "first")
    /\ iface' = None
    /\ Outcome(ok)
    /\ UNCHANGED <<row, bird>>

(***************************************************************************)
(* list_peers and the port set change nothing that is modelled here.  BIRD *)
(* is rewritten from the row; a sync that fails may leave it without a     *)
(* configuration (see BirdRegister).  Renames that outlive a dropped       *)
(* request are in PeerManager, not here.                                   *)
(***************************************************************************)
Passive ==
    /\ work.phase \in {"bird_list"} \cup NftPhases
    /\ Succeed(work)
    /\ UNCHANGED <<row, iface, bird>>

SyncBird(ok) ==
    /\ In("bird_sync", "first")
    /\ bird' \in {SessionOf(InForce)} \cup (IF ok THEN {} ELSE {None})
    /\ Outcome(ok)
    /\ UNCHANGED <<row, iface>>

\* The client goes away, or the process ends: nothing more is done.
Cancel ==
    /\ ~Idle
    /\ work' = Resting
    /\ UNCHANGED <<row, iface, bird, answer>>

RowStep(ok) == ReservePeer(ok) \/ StoreDesired(ok) \/ SetStatus(ok) \/ DropRow(ok)

DeviceStep(ok) ==
    \/ AddLink(ok) \/ SetLink(ok) \/ ConfigurePeer(ok) \/ ConfigureAddress(ok)
    \/ RemoveInterface(ok)

Next ==
    \/ \E ask \in Requests \cup {None}, status \in HttpStatus : Refuse(ask, status)
    \/ \E ask \in Requests : StartCreate(ask) \/ StartUpdate(ask)
    \/ StartDelete
    \/ Replay
    \/ \E status \in HttpStatus : Fail(status)
    \/ ReserveTaken \/ ReadPeer \/ ReadMissing \/ ReadChange
    \/ ResolveEndpoint \/ Passive
    \/ \E ok \in BOOLEAN : RowStep(ok) \/ DeviceStep(ok) \/ SyncBird(ok)
    \/ Cancel

Spec == Init /\ [][Next]_settingsVars

-----------------------------------------------------------------------------
(***************************************************************************)
(* What an operation promises when it answers.                             *)
(***************************************************************************)
Answers == ~Idle /\ answer = 0 /\ answer' # 0

Replays == {"change", "reapply", "promote", "purge", "withdraw"}

\* What the documentation of the API says of each field.
Follows(s, ask, old) ==
    /\ s.pubkey = ask.pubkey
    /\ s.endpoint = CASE ask.endpoint \in Hosts          -> Normalize[ask.endpoint]
                      [] ask.endpoint = Absent /\ old # None -> old.endpoint
                      [] OTHER                            -> None
    /\ <<s.local, s.remote>> = IF ask.manual_lla THEN <<ask.local, ask.remote>>
                               ELSE <<AutoLocal, AutoRemote>>
    /\ s.mtu = CASE ask.mtu \in Mtus                -> ask.mtu
                 [] ask.mtu = Absent /\ old # None  -> old.mtu
                 [] OTHER                           -> DefaultMtu

(***************************************************************************)
(* When a create or an update is answered with success, every field of the *)
(* JSON, those that were left out or null included, is in the row, in the  *)
(* kernel and in BIRD as the API describes it; when a delete is, nothing   *)
(* is left.  This holds whatever earlier operations have left behind.  Of  *)
(* the addresses it says that the wanted one is there (see Carries).       *)
(***************************************************************************)
AppliedAsAsked ==
    [][Answers /\ answer' \in {200, 201}
         => CASE work.stage \in {"create", "update"} ->
                   /\ row'.status = "active"
                   /\ Follows(row'.settings, work.ask, work.before)
                   /\ InOrder'
              [] work.stage = "delete" -> row' = None /\ InOrder'
              [] OTHER -> TRUE]_settingsVars

(***************************************************************************)
(* A request that began with everything in order and in which a single     *)
(* call failed leaves all of the old settings in force, in the kernel and  *)
(* in BIRD too, or all of the new ones; if the new ones are not yet        *)
(* applied, the row says so.  The addresses of the interface are the one   *)
(* thing that compensation does not take back: the one that was asked for  *)
(* may stay beside those that the interface had (configure_local_address   *)
(* only adds), but no other address ever appears.                          *)
(***************************************************************************)
Asked == IF work.ask = None THEN {} ELSE {LocalOf(work.ask)}

AllOrNothing ==
    [][Answers /\ work.stage \notin Replays /\ work.calm /\ work'.failures = 1
         => /\ \/ InForce' = work.before /\ InOrder'
               \/ /\ IF work.ask = None THEN InForce' = None
                     ELSE InForce' # None /\ Follows(InForce', work.ask, work.before)
                  /\ InOrder' \/ row'.status \in {"provisioning", "deleting"}
            /\ AddressesOf(iface') \subseteq work.had \cup Asked]_settingsVars

(***************************************************************************)
(* A request that is answered as the client's mistake, a name that does    *)
(* not resolve after the row was written included, has changed nothing.    *)
(***************************************************************************)
RefusedChangesNothing ==
    [][Answers /\ work.calm /\ work'.failures = 1 /\ answer' \in {400, 404, 409}
         => InForce' = work.before /\ InOrder']_settingsVars

(***************************************************************************)
(* One replay of an event that succeeds puts everything in order, whatever *)
(* the calls that failed and the operations that were dropped before have  *)
(* left, and does not change what is in force.  It takes no address away   *)
(* that the interface has besides the wanted one (see Carries).            *)
(***************************************************************************)
Repaired ==
    [][Answers /\ work.stage \in Replays /\ answer' = 200
         => /\ InForce' = work.before
            /\ InOrder'
            /\ row' # None => row'.status = "active"]_settingsVars

(***************************************************************************)
(* "An update with `manual_lla=false` selects automatic addresses.  It     *)
(* does not retain custom addresses." (src/README.md:118)                  *)
(***************************************************************************)
OnlyOwnAddress ==
    [][Answers /\ work.stage = "update" /\ answer' = 200 /\ ~work.ask.manual_lla
         => iface'.addresses = {row'.settings.local}]_settingsVars

=============================================================================
