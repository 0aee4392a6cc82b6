# A TLA+ model of dn42-autopeer

dn42-autopeer is a service that lets DN42 networks set up a peering through an
HTTP API. PostgreSQL holds what is wanted; the service makes a WireGuard
interface, a BIRD configuration and an nftables entry of it. Most of the code
is about keeping these four in agreement while requests run concurrently, are
dropped, fail half way, or die with the process. This project models that part,
checks it with TLC and proves its safety properties with TLAPS.

## The system

| Component | Source | State | Operations |
|---|---|---|---|
| Peer store | `persist.rs`, `peer.rs` | tables `peers`, `peer_change_events`, a sequence | reserve, update, set status, delete, list; a trigger writes an event for every change of a row |
| Peer manager | `manager.rs` | one lock per machine (`mutation_locks`), `port_lock`, `bird_sync_lock`, `nft_sync_lock` | create, update, delete with compensation |
| Recovery | `manager.rs` `recover`, `main.rs` | the list read at its start | runs before everything else, at every start |
| Change listener | `main.rs`, `manager.rs` | a LISTEN session, the events it has listed | replays pending events when notified and every 30 s |
| Reconciler | `main.rs` | none | rewrites the port set every 30 s |
| WireGuard control | `netlink.rs` | the interfaces `wgp<id>` in the kernel: alias, MTU, addresses, peer | ensure, configure, add an address, delete, list |
| BIRD generations | `manager.rs` `sync_bird_configs_for` | generation directories, symlink `current`, what BIRD has loaded | write, switch, reload, restore, clean up |
| Challenge | `challenge.rs`, `persist.rs` | table `auth_nonces`, semaphore `registry_limit` | issue, authorize |
| Handlers | `handle.rs`, `error.rs` | none | parse, authorize, call the manager, answer with a status |
| Others | `template.rs`, `observability.rs`, `wg_pubkey.rs`, Nix | none | text, logs, types, deployment |

How they interact. A request is authorized, then takes the mutation lock of its
machine (the pair ASN, peer name) and makes a series of calls to PostgreSQL,
netlink, BIRD and nft, each of which can fail. A failure starts compensation,
which is made of the same calls. Each write of a row leaves an event in the
same transaction. The listener takes the events, reads the row again under the
mutation lock, applies it, and deletes the event. BIRD and nftables are rebuilt
as a whole from `list_peers`, which is read before their lock is taken. A
client that goes away drops the future of its request at the next await. When
the service starts, `recover` brings the external state in line with the table.

What is hard about it: calls that fail before or after their effect; two
processes that work with different versions of the table; a request that is
dropped between two calls; a crash, also during recovery; changes that
administrators make in the table; timeouts with an unknown outcome. The hazards
are listed one by one, with their lines, in `PROJECT.json`.

What makes a component correct:

* store and manager: no change of a row is forgotten by the external state;
  what was answered to a client holds; nothing comes back after a delete;
* locks: one process at a time works on a machine, and locks are given back;
* recovery: what any crash leaves behind is repaired or covered by an event;
* handlers and WireGuard: each field of a request, absent and null ones too,
  ends up in the row, the kernel and BIRD; a refused request changes nothing;
* listener: every change is delivered, whatever is lost, late or stuck;
* BIRD: `current` is always complete, and BIRD runs with it;
* challenges: spent once, in time, and the semaphore loses no permit.

## Modules

`PeerStore` – the tables. A row is `[key, cfg, port, status]`: the key stands
for (ASN, peer name), `cfg` for all columns that configure the peer (public
key, endpoint, addresses, MTU), ports are offsets from 20000. The interface name
is always `wgp<peer_id>` and is left out. Events form a bag: an event is deleted
by its `event_id`, so two equal ones count twice, but their order does not
matter because each consumer reads the row again.

`PeerFlow` – the control flow of `manager.rs`, without variables. A place is a
pair (stage, phase): the function that runs and the external call that comes
next. The operator named after a function gives, for every phase, the place
after success and the place after failure. `Program` puts them together.

`PeerManager` – the machine. `proc[p]` is the place and the local variables of
a process (a request, the listener, the reconciler). Each kind of external call
is an action, used by all functions that make it; the action has the effect of
the call and moves the process with `Continue`. A call can succeed, fail
without an effect (`Fail`), or have its effect and report failure (`ok` false):
that is how lost answers, timeouts and half-done work appear. `mode` is "up",
"down" or the step of `recover`. An interface is `NoIface`, `Unaliased` (added,
the alias not yet set), or a record with a configuration and a port, where
`Mixed` stands for settings that do not belong to one configuration. The
configuration is the one the interface *carries*: its MTU, key and endpoint, and
its addresses among those of the interface. `configure_local_address` never
removes an address, so there may be older ones beside them; `PeerManager` does not
see those, `PeerSettings` does. `strays` are renames of `current` that dropped
requests have left to tokio's blocking pool, where they end with the process;
`late` says that one of them was done after the last sync that succeeded.

| Actions | Code |
|---|---|
| `Begin`, `Cancel` | a request takes its mutation lock; the drop of its future |
| `CancelRename`, `LateRename` | the drop inside `rename(...).await` of `atomic_switch_current`, and the rename that is still done afterwards |
| `ReservePeer`, `ReserveNothing`, `ReserveRefused` | `reserve_peer` under `port_lock`; the creation test for `LOCAL_ASN` |
| `ReadPeer`, `StoreDesired`, `MarkDeleting`, `Activate`, `DropRow` | the statements on a row |
| `EnsureInterface`, `Configure`, `ConfigureRefused`, `RemoveInterface` | `netlink.rs` |
| `ListPeers`, `SyncBird`, `SyncNft` | `sync_bird_configs`, `sync_nft_ports` |
| `TakeChange`, `ReadChange`, `Ack` | `sync_pending_peer_changes`, `apply_peer_change` |
| `Tick` | the reconciler |
| `AdminWrite`, `FirewallReload`, `Crash`, `Restart` | the environment |
| `Recover...` | the steps of `recover` |

`PeerOutbox` – what the table of events is for, with nothing of how it is done:
a row changes only together with an event; an interface is touched only while
an event of its peer is pending; the last event of a peer goes away only when
the interface is what the row asks for; the service comes up only when every
peer is in order or has an event. `PeerManager` implements it (`KeepsOutbox`),
and so does `ChangeListener` (`ReplayKeepsOutbox`).

`ChangeListener` – `run_peer_change_listener` and the loop of
`sync_pending_peer_changes`: connecting, subscribing, notifications that are
lost with the connection, the silent reconnect of `PgListener::recv`, the 30 s
retry, the list of events and the walk over it. Writers take an `event_id`
before they commit, so events become visible out of order. Some peers can never
be applied (`Stuck`), and some rows may be made unreadable (`Fragile`): one such
row, or its event, makes `list_peers` or `list_peer_changes` fail as a whole.
The work on one event is reduced to read, apply, activate, sync ports, delete;
`PeerManager` has it in full.

`PeerSettings` – one machine, one operation at a time (the mutation lock), and
the fields of its configuration: the payload of the request, the row, the
attributes of the interface, the addresses of the BIRD session, and the status
that is answered. It follows `PeerFlow`, with `ensure` and `configure` taken
apart into the netlink messages and the DNS lookup. `parse_endpoint`,
`ValidLinkLocal`, `build_peer` and `desired_peer` are the functions of the
handlers; `AnswerAt`, `Fail` and `Refuse` have the mapping of `error.rs`. An
interface has a set of addresses, to which each one configured is added;
`work.had` remembers those it had when the operation began.

`BirdGenerations` – one call of `sync_bird_configs_for` in detail: the layout,
the comparison with `current`, the new generation, the switch, the reload, the
restore and the clean-up, with the faults in `Faults`. The fault "late" is a
rename that tokio's blocking pool does after the future that asked for it was
dropped (`strays`, `LateRename`).

`BirdRegister` – what a sync promises: the configuration is replaced at once; a
call that fails leaves what it found, what it was asked for, or nothing.
In between, a late rename may bring in another configuration at any time (`Stray`).
`BirdGenerations` implements it (`ActsAsRegister`). `PeerManager` uses all of it:
`Synced` and `Fail` are calls, `LateRename` is `Stray`. `PeerSettings` uses the calls
(`SyncBird`) and leaves the late renames out.

`Challenge` – issuing and spending challenges, the registry check, the
semaphore, with an abstract clock.

`MCPeerManager`, `MCPeerSettings`, `MCBirdGenerations` – definitions for TLC.

The proofs are in modules of their own. `PeerFlowProofs` has the lemmas about
`PeerFlow`, which two chains use: `PeerManagerProofs`, `PeerCoverageProofs` and
`PeerPortsProofs`, each of which extends the one before it, and
`PeerSettingsProofs`. `ChangeListenerProofs`, `BirdGenerationsProofs` and
`ChallengeProofs` stand alone.

An operator whose name has a suffix, such as `FreePorts_KernelOnly`, is a faulty
variant of the definition after it. It is used by no specification: put in the
place of the definition, it has to make the property named in `PROJECT.json`
fail, which shows that the property watches that code.

## Runs

| Run | Instance | Checks |
|---|---|---|
| `concurrent` | 2 requests, 2 machines, 1 configuration, listener | `TypeOK`, `KernelCovered`, `BirdCovered`, `NoPortShared` |
| `contention` | 2 requests, 1 machine and a test one, 2 configurations, 1 change from outside | `MutualExclusion`, `DeletedStaysGone`, `KeepsOutbox`, `SuccessMeansApplied` |
| `recovery` | 1 request, 2 machines, 1 port, 2 changes from outside, 1 crash, 1 late rename | `BirdCovered`, `DeletedStaysGone`, `KeepsOutbox`, `RecoveryRepairs` |
| `restart` | 1 request, 1 id, reconciler, 1 change, 1 crash, 1 late rename, fairness | `Converges`, `PortsConverge`, `LocksReleased` |
| `listener` | 2 peers, one stuck and one that may become unreadable, 3 writes, fairness | `ListenerTypeOK`, `Delivered`, `ReplayKeepsOutbox` |
| `settings` | 1 machine, 12 payloads of which 5 are refused, any sequence of operations | `SettingsTypeOK`, `AppliedAsAsked`, `AllOrNothing`, `RefusedChangesNothing`, `Repaired` |
| `generations` | 4 syncs, 3 configurations, all faults | `BirdTypeOK`, `CurrentIsComplete`, `InStep`, `StartupLoads`, `ActsAsRegister` |
| `challenge` | 2 challenges, 2 mutations, 2 nonces, 2 ASNs, fairness | `ChallengeTypeOK`, `SpentOnce`, `PermitsConserved`, `BurnedUnderPermit`, `AuthorizedInTime`, `PermitsReturn` |

What they show. `KeepsOutbox` is the central one: requests, their compensation,
the listener, administrators, crashes and recovery together keep the rules of
`PeerOutbox`. Its consequence `KernelCovered` says it of one state: while the
service is up, the interface of each peer is what its row asks for and the row
is settled, or an event is pending that makes the listener look again.
`BirdCovered` says the same of BIRD, with one exception: a rename that outlives a
dropped request may be done after the listener has synced and deleted the last
event. BIRD then has a configuration of the past, or a part of one, nothing is
pending, and nothing repairs it before the next sync that succeeds, at the next
change or the next start. `late` marks these states, here and in `Converges`. With `Converges` and `Delivered` this is
what the outbox is for: whatever fails, is dropped or gets lost, a later replay
repairs it; `Repaired` shows that one replay that succeeds is enough, from any
state that failures have left. `SuccessMeansApplied`, `AppliedAsAsked`,
`AllOrNothing`, `RefusedChangesNothing` and `DeletedStaysGone` say what an answer
to a client is worth (that of `SuccessMeansApplied` is that the interface carries
what was asked for, not that it has no other address), `RecoveryRepairs` what a start of the service is worth.

`AllOrNothing` and `RefusedChangesNothing` are about a request that finds
everything in order and in which a single call fails; after a second failure,
in compensation, only the replay helps. Compensation does not take back the
address that was asked for: it stays on the interface beside the old one.
`AllOrNothing` therefore speaks of the settings in force, and of the addresses it
says that no other one appears. Both look at one machine; a sync of
BIRD for another machine in between is a matter of `BirdCovered`.

Bounds. `MaxId` bounds the ids the sequence hands out; two ids are enough for a
peer to be deleted and created again, and for two peers to compete for a port.
Two ports, with everybody preferring the last one, make the search wrap around
and run out. One port in `recovery` makes a peer get the port of one that was
deleted while the listener configures it, which the kernel refuses; in
`restart` the port set matters and not the search, and one id keeps the run, with
its liveness, small. `MaxAdmin` bounds changes from outside, `MaxCrash` crashes,
`MaxStrays` the renames outstanding at a time. It is 1 in `recovery` and `restart`
and 0 in the other runs, `concurrent` among them, where two requests and late renames
are too many states: there `BirdNotForgotten`, which holds for any `MaxStrays`, says
it. A
failed activation in `recover` also counts as a crash, because it leaves events
and would otherwise be repeated without end. Each request executes one
operation; a sequence of operations is a sequence of requests. In `Challenge`,
`MaxTime` is when clients stop, and the clock goes on until the last timeout.
A client claims any expiration up to `MaxTime + Ttl` (`Claims`): the issued ones,
past ones, and one too late; later ones match no row either.
In `listener`, three writes are enough for two of them to commit in the other
order, or for a row to be broken and repaired, while a third is being replayed.
In `settings` the payloads have every field in each of its forms (given, absent,
null) and every way to be refused; the sequence of operations is not bounded.
In `generations` three configurations tell "the old one" from "that of an earlier
call", and four calls let a stray rename of one hit the next but one.
A reservation is one step: two reservations exclude each other by `port_lock`,
and a port that is seen free in the kernel and is then stored under the unique
index can only be taken in between by a peer whose row is deleted from outside.

Symmetry is used in runs without liveness, for sets that are only ever
quantified over: requests, configurations, calls, and machines where none is a
test machine. The initial tables are closed under it: the one peer they may hold
has any machine and any configuration.

Fairness (`LiveSpec`). A process that has a step to make makes it: tasks and
handlers are futures the runtime polls, and the calls to BIRD, nft, the
registry and the pool have timeouts. The listener retries every 30 seconds and
the reconciler ticks every 30 seconds; systemd restarts the service. External
calls may fail for any length of time, but not for ever (`Heal`): without that
the code promises nothing. Requests need not be sent, and nothing is assumed of a
late rename: it may be done at any time or never. Strong fairness is not
needed. In `ChangeListener` the listener's task is polled, a transaction of
PostgreSQL ends, and failures end; nobody has to repair a row, and the stuck peer
fails for ever. In `Challenge` only the clock, the timeout and PostgreSQL are
fair; the registry may never answer.

### Where the code does something else than a comment or the README says

| Run | What TLC shows |
|---|---|
| `unloaded` | A request that is dropped between `switch_current` and the reload leaves BIRD with the old configuration. Later syncs compare with `current`, find nothing to do, and answer success; BIRD is reloaded at the next real change or restart. The README says that a sync switches `current` and reloads BIRD. |
| `stale_bird` | A request for another machine reads `list_peers`, waits for the bird lock, and writes the list after a DELETE has been answered: the configuration of the deleted peer is back until the listener handles the event of the delete. |
| `disabled` | A peer that is set to disabled while an update is under way becomes active again. `peer.rs` calls the status "administratively down". |
| `addresses` | After a create with custom addresses and an update with `manual_lla=false`, the interface has the automatic address and the custom one. The README says that the update "does not retain custom addresses". Row and BIRD are right. A refused update leaves its address behind in the same way, see `AllOrNothing`. |

## Proofs

Every safety property that a passing run checks is also the statement of a
theorem: type correctness, the other invariants, the action properties and the
three refinements. The runs show them on small instances, the theorems for
every value of the constants: any number of requests, machines, peers, ports,
configurations, syncs, mutations, writes, failures, crashes and changes from
outside.

| Module | Theorems | Invariant |
|---|---|---|
| `PeerManagerProofs` | `TypeCorrect`, `Mutex` | `IndInv` |
| `PeerCoverageProofs` | `NoChangeForgotten` (`KernelCovered`), `BirdNotForgotten` (`BirdCovered`), `DeletionIsFinal` (`DeletedStaysGone`), `RecoveryIsComplete` (`RecoveryRepairs`), `SuccessIsTrue` (`SuccessMeansApplied`), `ServiceImplementsOutbox` (`KeepsOutbox`) | `CoverInv` |
| `PeerPortsProofs` | `NoPortTwice` (`NoPortShared`) | `PortInv` |
| `PeerSettingsProofs` | `SettingsTypes`, `SuccessApplies` (`AppliedAsAsked`), `ReplayRepairs` (`Repaired`), `CompensationIsComplete` (`AllOrNothing`), `RefusalChangesNothing` | `SettingsInv` |
| `ChangeListenerProofs` | `ListenerTypes`, `ReplayImplementsOutbox` (`ReplayKeepsOutbox`) | `ListenerInv` |
| `BirdGenerationsProofs` | `BirdTypes`, `CurrentComplete`, `BirdInStep`, `RecoverLoads` (`StartupLoads`), `GenerationsActAsRegister` (`ActsAsRegister`) | `BirdInv` |
| `ChallengeProofs` | `ChallengeTypes`, `NoPermitLost` (`PermitsConserved`), `ChallengeSpentOnce` (`SpentOnce`), `NotBurnedWithoutPermit` (`BurnedUnderPermit`), `NeverAuthorizedLate` (`AuthorizedInTime`) | `ChallengeInv` |

The assumptions are the named ones of the modules (`StoreAssumption`,
`ManagerAssumption`, `SettingsAssumption`, `NoneAssumption`,
`ListenerAssumption`, `NoEventAssumption`, `BirdAssumption`, `ChallengeAssumption`): sets are finite
where they are counted, special values are not ordinary ones, bounds are
natural numbers. TLC evaluates them in every run. Each invariant was checked by
TLC on the instances of the runs before it was proved.

### Control flow

`FlowOK` looks at each function of `PeerFlow` and shows that every branch leads
to a place that the function, its compensation or the listener's loop has
(`Follows`). `MovedOK`, `GotoOK` and `ContinueOK` turn that into: a call keeps
`ProcOK`, whatever the call is. `LocalOK` and `AcquireOK` do the same for steps
that set more than the place, and for those that take a lock. With these, each
action needs only what it does to the tables (`WriteOK`, `SetStatusOK`,
`UpdateDesiredOK`, `DeleteRowOK`), the kernel or BIRD. `FirstPortOK` shows that
`reserve_peer` finds a port whenever one is free: the minimum of the distances
from the preferred port exists because `<` is well founded on the naturals.

### Types and mutual exclusion

`IndInv == StateOK /\ ProcOK`. Types alone are not inductive: `Configure` writes
`proc[p].cfg` into the kernel, and that this is a configuration at that point,
not `NoCfg`, depends on which places a process can be at. `Shape` says it (which
phases a stage has, in which stages `cfg`, `old` and `id` are set), `Plays` says
which functions a process executes, and `Owns` that a process past its lock is
the holder of that lock, from which mutual exclusion follows at once.

### No change is forgotten

`CoverInv` is the invariant behind the outbox. `KernelCovered` alone is not
inductive: the listener deletes an event after it has given up the mutation
lock, so an event that is pending may be on its way out. Its layers, from the
bottom:

* `OwnerOK`: an id belongs to one machine for good, so the lock, which is taken
  by key, protects what is found by id. It is said with an existential, because
  no variable keeps the owner of an id after its row is gone.
* `RunningOK`, `EventsOK`: nothing runs during recovery; the event that the
  listener handles stays until it deletes it itself; a delete event means that
  the row is gone.
* `WorkOK`: a request that has written its row has an event behind it that the
  listener is not about to delete (`More`). This holds because the listener needs
  the same lock: it cannot be past its reading while the request is past its
  write. It is the layer that would break if the event were deleted under a
  later version of the row, or if a status were written without an event.
* `EffectOK`: what a process has done to the interface stays done until it
  returns, although `sync_bird_configs` and `sync_nft_ports` run in between.
  `SuccessMeansApplied` is this, at the last step.
* `HandledOK`: what the listener has read is still so, or there is an event
  beside the one it handles. At the place where it deletes its event this is
  all that keeps a change from being lost.
* `StrayOK`: an interface without an alias, which `list_managed_interfaces` does
  not find, has a delete event that leads recovery to it.
* `ListedOK`, `RepairOK`: during recovery the rows are those listed or have an
  event, and each step has been done for all of them. Its last state is
  `RecoveryRepairs`.
* `GoneOK`: after an answered delete nobody but the listener works on the peer,
  and recovery has not listed it. `DeletedStaysGone` is a part of it.
* `BirdOK`: what the listener has listed for BIRD is current, or any event is
  left; BIRD is rebuilt as a whole, so any event covers it. Once the listener has
  synced, a late rename sets `late`, and only a sync that succeeds, its own or
  another one, resets it.

`ServiceImplementsOutbox` shows of each action that it is a step of `PeerOutbox`
or leaves its variables alone; the hard ones are `Ack`, which needs `HandledOK`,
and the end of recovery, which needs `RepairOK` and `ListedOK`.

### Ports

`NoPortTwice == Spec => [](admin = 0 => NoPortShared)`. An interface gets its
port from a process, or from the rows that recovery has listed. So the proof
carries that whoever may still configure a port has a row with that port
(`PortsHeld`), that recovery's list is the table while it configures
(`ListedNow`), and that rows have different ports. The premise `admin = 0` says
that nobody but the service has written the table; without it the statement is
false, see below.

### Settings

`SettingsInv` says for each place of `PeerFlow` what the calls before it have
established of the row (`RowOK`), the interface and BIRD (`AppliedOK`,
`RemovedOK`), what an operation remembers (`MemoryOK`), and that an operation
that found everything in order has left it so until its first write
(`Untouched`). `AddressesOK` bounds the addresses: until its last step, an
operation that found everything in order has added none but the one it was asked
for, because what compensation adds was there before. The theorems look at the last step: `LastCall` shows from which
places an operation answers, and by which call.

### Listener, BIRD, challenges

`ListenerInv`: the events of one peer appear in the order of their ids, because
its row is written by one transaction at a time, those of different peers do
not. So a change that makes stale what the listener has read leaves an event
above the one it works on (`Newer`), and the walk in the order of ids cannot
delete that one first.

`BirdInv`: the holder of `bird_sync_lock` is the only call in progress (`LockOK`);
nothing leads to a generation that is not completely written (`LinksOK`); what a
call has achieved so far (`ProgressOK`) and what BIRD runs with (`SyncOK`) as long
as no rename has outlived its call. `RegisterSteps` maps the switch, its reload
and its undoing to the steps of `BirdRegister`.

`ChallengeInv`: `SpentOnce` is not inductive, because a challenge that is still in
the table must leave room for the mutation that will spend it: `RoomFor` counts
spenders and inserters, with a strict inequality as long as the row is there.

### What the proofs changed in the model

They found three places where the model said less, or something else, than it
meant; no run had seen them, because of its constants.

* `Challenge`: the range of the clock was too small for a lifetime of more than
  one tick; it is now `MaxTime + Ttl + Timeout`.
* `PeerFlow`: two guards of the `CASE` of `apply_peer_change` overlapped; the
  arms are now disjoint.
* `PeerSettings`: nothing said that an absent field differs from a null one.

### What only TLC checks

All of liveness (`Converges`, `PortsConverge`, `LocksReleased`, `Delivered`,
`PermitsReturn`), which is out of the prover's reach, and the four findings. The
theorems say nothing about the MC modules and are not about finite instances:
the bounds `MaxId`, `MaxAdmin`, `MaxCrash`, `MaxTime` and `MaxWrites` are there, as any
natural number.

## Not modelled

* The texts of signed messages, the verification of signatures, the BIRD
  template and its escaping, the bodies of answers, the spelling of addresses
  and peer names: pure functions of one request, without state.
* The check of a public key: the extractor refuses the request before a handler
  runs.
* The table of mutation locks itself, which only grows.
* The loop of `reserve_peer` step by step. It runs under `port_lock`; the only
  change it can race with is a row deleted from outside, see below.
* Late renames in `PeerSettings`, and generations of which `remove_dir_all` has
  removed a part in `BirdGenerations`: `LateRename` in `PeerManager` has both, it
  brings in any part of a configuration.
* Reads of the looking glass, logging, metrics, configuration, packaging.

`NoPortShared` is checked and proved without changes from outside. If an administrator
deletes the row of a peer while it is being configured, its port can be handed
out again before its interface is gone; the listener removes the interface, but
a restart at that point fails in the first loop of `recover` each time.

## Plan

1. `PeerStore`, `PeerFlow`, `PeerManager`, `BirdGenerations`, `Challenge`, their
   runs, `TypeCorrect` and `Mutex`. Done.
2. `BirdRegister` and `PeerOutbox` with their refinements, late renames,
   `ChangeListener`, `PeerSettings`. Done.
3. The safety properties and refinements as theorems. Done.
4. What is left to prove: that a port is given to the peer that prefers it
   whenever it is free, from `FirstPortOK`; that `BirdRegister` and `PeerOutbox`
   keep their own consequences (no interface is left without a row or an
   event), so that these follow for any implementation of them. To model, should
   the code change there: one endpoint that does not resolve, which stops
   `recover` for all peers.
