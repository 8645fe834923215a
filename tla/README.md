# ws_gateway in TLA+

Specifications, model-checking runs and machine-checked proofs for the gateway in
`src/`: a Rust process that receives binary packets over UDP and WebSocket,
keeps a registry of rooms and users, and forwards each packet to one user or to
a whole room.

## 1. The system

| Part | Where | State it keeps | Operations |
|---|---|---|---|
| bounded channel | `src/src/routing.rs` 37-170 | a mutex-protected deque, a capacity, a `Notify` | `bounded`, `clone`, drop, `try_send`, `send_drop_oldest`, `send_timeout`, `recv` |
| room registry | `routing.rs` 180-242 | `DashMap<room, DashMap<user, sender>>` | `register`, `unregister`, lookups of `route` |
| router | `routing.rs` 244-371 | none of its own, plus one retry task per command that found a full channel | `route`, `dispatch` |
| connection task | `src/src/network.rs` 223-343 | `rx`, `last_alive`, `ping_tick`, both halves of the socket | a `select!` loop with three arms, then the cleanup |
| receive loops | `network.rs` 77-118, 251-270 | a buffer | decode, spawn a task that routes |
| admission | `network.rs` 133-208 | none | check the names, upgrade |
| wire format | `src/doc/gateway-protocol/src/lib.rs`, `src/client_sdk/python/gateway_protocol.py`, `src/public/gateway_protocol.js` | none | `new`/`encode`, `decode`, three times |
| lifecycle | `src/src/main.rs`, `src/src/observability.rs` | task handles | start-up, signal, abort, exit |
| metrics, logs | `observability.rs`, `network.rs` 20-62 | counters | set, add |
| chat page | `src/public/chat.html` | one socket, the users seen | connect, send, disconnect |

How they interact. A connection task makes a channel, gives the sender to the
registry under its room and user, and sends what `recv` returns to its client. A
packet that decodes is routed by a task of its own: it looks the room up (and
keeps DashMap's read guard until it returns), clones the senders of a broadcast
or takes the one of a unicast, and pushes the packet, encoded again, into each
channel under the policy of its type. A system command that finds a channel full
is retried for 50 ms by one more task, which unregisters the name when it fails.
Nothing but the registry tells a connection that it was replaced or thrown out:
its sender is dropped, and the next `recv` that looks returns `None`.

What is hard. Every one of these parts runs concurrently with all others, on a
multi-threaded runtime: the unlocked gap between the test of the deque and the
wait for a notification; `select!`, which drops a pending `recv` at any time;
three-step unregistrations beside registrations and routes of the same room; names
that change hands while a route, a retry or a leaving task still works with them;
an arm of `select!` that waits for the socket and is deaf to everything else; a
clock that is looked at every 10 s only; three codecs that must agree; listeners that
are bound in tasks nobody waits for, one of which outlives its abort.

What makes each part correct:

- channel: no lost wakeup, no item lost or duplicated, eviction of the oldest only,
  order, `send_timeout` bounded, `None` only at the end;
- registry: no binding lost when rooms are created and destroyed, no empty room left
  behind, no guard on a room that is gone;
- router: only addressees, each at most once, nobody in the room missed, commands
  kept or the connection taken out;
- connection: no entry of a task that is gone, a replaced connection closes,
  what is queued is handed over;
- heartbeat: dead clients go, live ones stay;
- wire format: the codecs agree, the gateway is transparent;
- lifecycle: one gateway at a time has the ports, it comes up with all of them, a signal
  ends it;
- chat page: it shows its own socket, packets go out over the connection they name.

## 2. The modules

| Module | What it is |
|---|---|
| `ChannelOps` | the deque: `IsFull`, `DropOldest`; shared by the two modules that have channels |
| `LossyChannel` | abstract: items accepted, delivered, evicted; no queue and no notification |
| `BoundedChannel` | the channel, its senders and its receiver, with tokio's `Notify` |
| `BoundedChannelProofs` | its theorems |
| `FlatRegistry` | abstract: one table from (room, user) to a sender |
| `Registry` | the two levels of maps, with guards and the three steps of `unregister_internal` |
| `RegistryProofs` | its theorems |
| `Gateway` | connection tasks, routes and retries over the registry (`R == INSTANCE Registry`) and over channels |
| `GatewayProofs` | its safety |
| `DeliveryProofs` | what becomes of the packets it dispatches, and whom they never reach |
| `PacketCodec` | encoders, decoders and the relay as operators on sequences of bytes |
| `PacketRelay` | a packet on its way: an encoder (or a stranger), the gateway, a decoder |
| `PacketRelayProofs` | numbers as bytes, the layout, the codecs' agreement, arrival and transparency |
| `Heartbeat` | one connection in time |
| `HeartbeatProofs` | its safety |
| `ChatClient` | the chat page and the sockets it has made |
| `ChatClientProofs` | its safety |
| `Lifecycle` | gateway processes on one host, from start to exit |
| `LifecycleProofs` | its safety |
| `MC...` | instances for TLC |

### BoundedChannel

`queue` is the deque, holding the numbers of the items in the order in which they
were accepted; `permit` is the one permit a `Notify` stores; `snd[h]` says where a
sender handle is (`absent`, at rest after an `Ok` or an `Err`, in a `send_timeout`);
`rx` says where the receiver is. `sent`, `delivered` and `evicted` are history
variables.

Every send holds the mutex from its test to `notify_one`, so `TrySend` and
`SendDropOldest` are one step each, and one turn of the loop of `send_timeout` is
one step (`SendTimeoutTry`), its sleep another (`SendTimeoutWake`, which may oversleep).
`recv` is split where others can come in: the locked test (`RecvItem`, `RecvNone`,
`RecvUnlock`), the first poll of `notified()` (`RecvAwait`), the wakeup
(`RecvResume`). `RecvCancel` is `select!` dropping the future: tokio gives a
notification that the future had already been given back to the `Notify`.
`DropSender` only lowers the `Arc` count: `BoundedSender` has no `Drop`.

`Notify` is not part of the repository. It is modelled for one waiter, from how
`routing.rs` uses it.

### Registry

`present` is the outer map's key set, `member[r][u]` the inner maps, `op[p]` what a
task holds or has still to do. A guard returned by `rooms.get` is a read lock;
`entry` and `remove_if` need the write lock (`Unguarded`). `unregister_internal` is
`UnregRemove` (get, remove), `UnregCheck` (`is_empty`, guard dropped) and
`UnregCleanup` (`remove_if`). Each inner operation is atomic, as DashMap makes it.
Rooms are taken to lie in different shards; rooms that share a shard only exclude
each other more, and no task takes a second outer lock while it holds one.

### Gateway

One connection `c` stands for its task, its channel and its sender. `pc[c]` is the
place of the task: about to poll, parked, inside `ws_sender.send` of the outbound
or of the ping arm, leaving, inside `unregister`, inside the send of the close frame
(`closing`, ended by `CloseSent`: only then is the receiver dropped), closed. `route[p]` is the place of
the task that routes packet `p`; `todo` and `targets` are the progress of the
snapshot, which visits the users of a room one by one while others unregister;
`retry[p][c]` is the task that `dispatch` spawned. All registry steps are those of
`Registry`. `offered[p]` remembers the connections that `p` was dispatched to:
`NothingReachesTheGone` says that a connection once out of the registry (`Out`), by a
takeover, a forced disconnect or its own end, is never among them for a packet
that looks its room up after that. Packets whose routes already hold a clone of its
sender may still come.

From `BoundedChannel` the module takes what is checked and proved there: a parked
receiver resumes when its deque is not empty, and is not woken when a sender goes
(`Park`, `Notified`). `Tick` is what gets a parked task to call `recv` again.

`handed` records what was given to `ws_sender.send`. The socket is nondeterministic:
a send may take for ever, return, or fail (`SendReturns`); the test of `last_alive`
after a ping may end the loop or not. `Heartbeat` has the exact time.

### PacketCodec and PacketRelay

A packet is a sequence of byte values. The sizes of the format are constants: the
source has 256 byte values, 128 of them ASCII, and fields of 6, 8, 4 and 2 bytes; the
run uses 8, 6, and 2, 2, 2, 1. Nothing in the code depends on the sizes but
offsets, which are computed from them. Each implementation puts the bytes together in
its own way: `RustWire` writes a header into a blank buffer and appends the
payload, `PythonWire` is `struct.pack` with its parts side by side, `JsWire` writes
through a `DataView` to the offsets of one blank buffer. The three decoders share
`Decoded` for the fields of a packet that passed their checks: all three take the same
slices and cut a name at its first zero. Each implementation's checks are written
in its own order, with its own treatment of zeros: `RustPacks` accepts one inside a
name, `PythonPacks` and `JsPacks` do not; Python's `str.encode("ascii")` raises before
the SDK's own check. `RustEncode` is `PacketHeader::new` with the length of the
payload that `encode` is then given. `Admits` is the test of names in `ws_handler`. A number
is written by repeated division (`Leading`: what the first bytes have left of it), read by a fold
over its bytes, and the greatest one that fits is the one all of whose bytes are `Base - 1`.

### Heartbeat

Discrete time; a unit of the run is 2.5 s. Time passes only when the task waits for it, for
its client or for a stalled socket. `due` counts the ticks that tokio's interval
(burst behaviour, the default) has yet to deliver. A client that is up answers a
ping before the next instant; a dead one says nothing any more. `wire`
holds what is under way, a ping to be answered or a frame to be read; `socket` says whether the
socket takes data or has stalled, which it may do at any time. `held` is how long the socket has
held the task up, in the middle of a send, since `select!` last had nothing to do; the
two safety properties are stated for every state of the socket, in terms of it.

### ChatClient

The page has one `ws` variable and one set of globals, but every `connect()` makes a
socket with handlers of its own, and no handler looks whether its socket is still
`ws`. `state[s]` is each socket's `readyState`, `made[s]` the names it was made for,
`wire[s]` what was sent over it; `late` remembers that a socket other than `ws` has
opened or closed since the last `connect()`. A click of the user and an event of a socket
are one action each, with everything the handler does, up to the point where `ws.send`
throws. Such late events do damage the page: the close event of the socket that was
closed before takes `ws` away from the new connection, which stays open and is announced
to everybody but cannot be used or closed; two clicks on Connect leave the first socket
open. `PageShowsItsSocket` is stated for a page that had no such event;
`PacketsCarryTheirConnection` holds in spite of them, and so does `SequenceIncreases`, which
is proved and not part of the run. The browser's
socket is external.

### Lifecycle

`main[p]` is the place of the main task of process `p`, `udp[p]` and `ws[p]` are the tasks it
spawns, `owner[x]` is who has bound port `x`, `pending[p]` the signals it received. Processes
with the same addresses may overlap, start at any moment and crash at any moment, and foreign
programs may have a port. `InitMetrics` binds on the main task, so a port that is taken ends the
process; the other two binds are in spawned tasks whose panic nobody sees (`RunUdp`, `RunWs`).
`run_udp` returns once it has bound: `abort()` then finds a task that has ended, and the loop
keeps its port until the process goes (`CancelUdp` has no case for it), while the listener of
`run_ws` goes with its task (`CancelWs`). A process that has ended closes its sockets one by one
(`Close`). A signal that comes before the handlers are installed kills (`Signal`).

## 3. The runs

All runs finish in two minutes or less. `CHECK_DEADLOCK FALSE` is set where the
system may stop: all senders dropped, all packets routed, all connections closed.
`Registry` alone is checked for deadlock.

| Run | Instance | Shows |
|---|---|---|
| `Channel` | 2 handles, capacity 2, 1 back-off, 4 sends | 4 invariants, the refinement of `LossyChannel`, 2 liveness properties |
| `Registry` | 2 rooms, 2 users, 2 senders, 3 tasks | 3 invariants, the refinement of `FlatRegistry`, `EmptyRoomGoes` |
| `GatewayRooms` | 3 connections, 1 packet, 2 rooms, 2 users | types, only addressees, no zombie entry, no room left behind |
| `GatewayCommands` | 2 connections, 2 packets of 3 kinds, 1 room, 2 users, capacity 1 | at most once, broadcasts complete, commands kept, entries go by their own name only |
| `GatewayLiveness` | 2 connections, 2 commands, 1 name, capacity 1 | nothing reaches who is gone; closing, handing over |
| `GatewayKick`, `GatewayFullOne`, `GatewayBlocked` | 2 connections, 1 name, capacity 1 | violations, see 6 |
| `PacketRelay` | 44 000 packets and messages | the codecs agree, the relay is transparent, what is sent is received, connections have names that packets can carry |
| `Heartbeat` | interval 4 and timeout 12, the 10 s and 30 s of the source | the bounds on silence, stalls included, and the end of dead connections |
| `ChatClient` | 3 sockets, 2 rooms, 2 users, 2 messages | the page and its socket agree, packets go out over their connection |
| `Lifecycle` | 2 processes, each port free or foreign at first | no gateway blocks another while it runs, start-up succeeds, a signal ends the process |

Why the bounds are enough.

- `Capacity` 1 in the gateway makes every channel full after one packet, so that
  evictions, drops and retries happen with two packets; 2 in the channel run gives an
  oldest and a newest item that differ. The proofs hold for every capacity.
- Two connections of one name are a takeover, the third lets a second takeover or
  another room run beside it. A packet, a retry and two unregistrations in progress
  cover every pair of steps that touch the same room, and the interactions in the
  code are between pairs.
- `Budget` 1 gives `send_timeout` a turn before, at and after its deadline. `MaxSends`
  bounds the calls of senders, not the turns of a call already begun.
- Messages and headers of `PacketRelay`: every error alone and in combination, names
  that are empty, full, too long, with a zero in each place and with a byte that is not
  ASCII, sequence numbers on both sides of the maximum, payloads on both sides of it.
- `MaxSilence` 22 is 55 s, past the 40 s at which a loop that is not held up ends, so that
  a stall that outlasts the timeout is among those told apart; `MaxDue` 2 is "more than one".
  The proof has every interval and timeout.
- Three sockets of the chat page: the page's own, one left over that is still connecting and
  one that is closing; two rooms and two users make their names differ.
- Two processes are one that runs and one that is started beside it or after it; a third one
  finds what the second finds. The proof has any number.
- Symmetry is used only in the two gateway runs and the run of the chat page, which check no
  liveness property; none
  of the modules compares names.

### Fairness

- `FairRecv`: a `recv` in progress and a `send_timeout` in progress are polled again. tokio
  runs each woken task and fires each timer. Nothing is assumed of the callers.
- `RegistryFairness`: a call of `route` or `unregister` runs to its end; none awaits. DashMap
  lets readers pass a waiting writer, hence the premise of `EmptyRoomGoes` that reading
  stops.
- `TaskFairness`: the same for the tasks of the gateway, and the ping interval fires again
  and again. `RecvItem` and `RecvNone` are strongly fair: `select!` polls its arms in a random
  order, so an arm that is ready again and again is taken in the end.
- `SocketFairness`: a send to the socket ends, that of the close frame included. The code has no timeout there; the run
  `GatewayBlocked` shows what becomes of a forced disconnect without the assumption, and
  `GatewayLiveness` what holds with it.
- `Lifecycle!FairSpec`: the main task and the spawned tasks go on when they can, and the 500 ms
  pass. Nobody has to start, stop or kill a process.
- `Heartbeat!FairSpec`: time passes, ticks are taken, and a stalled send ends because the
  client reads or TCP gives up.

## 4. The proofs

`tlapm` checks all of it, for every value of the constants that meets the named assumptions:

- channel: `CapacityAssumption` (it is positive), `HandlesAssumption`, `BoundsAssumption`;
- registry and gateway: `NamesAssumption`, `NoValuesAssumption` (what stands for "none" is nothing
  else), `TasksAssumption` (connections, packets and retries are different tasks), `KindsAssumption`;
- heartbeat: `IntervalsAssumption` (the interval is shorter than the timeout);
- chat page: `PageAssumption`; lifecycle: `OwnersAssumption`;
- codecs: `SizesAssumption` (among it that a byte can hold every packet type), `OriginsAssumption`,
  `InputsAssumption`, which the sizes of the source (256 byte values, 128 of them ASCII, fields of
  6, 8, 4 and 2 bytes) meet.

**`ChannelSafety`**: `TypeOK`, `NoLostWakeup`, `QueueIsLatest`, `Conservation` and
`ClosedIsFinal` always hold. The five together, `IInv`, are inductive: `NoLostWakeup`
needs to know that a permit is there while the receiver is between its unlock and its
await, `Conservation` needs the exact contents that `QueueIsLatest` gives (the head of the
deque is the item `sent - Len(queue) + 1`), and that the deque of a closed channel stays
empty needs that no handle is left. `PushKeeps` is the case that all sends share,
`LatestTail` and `LatestAppend` are the facts about sequences, `NextIInv` has one step per
action.

**`ChannelImplementsLossy`**: the refinement. `PendingIsQueue` says that the abstract
pending set is the set of numbers in the deque, `HeadIsOldest` that its head is the
oldest, `SameCardinality` that counting the one is measuring the other; then each
action is an abstract step or a stutter (`StepImplements`).

**`RegistrySafety`**: `RegistryTypeOK`, `GuardedRoomPresent`, `MembersArePresent` and
`NoEmptyRoomLeak`. `NoEmptyRoomLeak` is the delicate one: a task that has seen a room
that is not empty leaves it, so the proof needs that whoever empties it afterwards is still
in the stage `removed`.

**`RegistryImplementsFlat`**: every registry step binds or unbinds one name or is
invisible. `UnregCleanup` is the interesting case: it may drop an inner map, which by
`remove_if`'s second test is empty.

**`GatewaySafety`**: `TypeOK`, `OnlyAddressees`, `NoZombieEntry`, `NoRoomOutlivesItsUsers` and
`BroadcastReachesMembers`, through the inductive invariant `GInv`. It contains the invariant of
`RegistryProofs`, whose lemmas are used through `INSTANCE`, and ties the registry to the tasks:
entries are connections of that name that have not left, a route holds a guard while
its snapshot is made, a snapshot holds addressees only. Without these relations the
five are not inductive: a leaving task removes whatever entry its name has.

**`GatewayImplementsFlat`**: all connections, routes and retries together bind and unbind
one name at a time in one flat table. Each action of the gateway is one registry step of one
task or leaves the registry alone, by the way it is written (`StepOfRegistry`); what
is to show is that the two levels of maps then make one table. **`EntryGoesByItsName`** is the action property
`RemovedByItsName`, from the same invariant.

**`DeliverySafety`**: `AtMostOnce` and `CommandKeptOrDisconnected`, with `GInv` and
`SnapshotsFresh` (a sender that is still in a snapshot was not served). The copies of a packet are
counted in the queue, the hands and the retries of a connection, so the module begins with lemmas
about counting in a sequence that loses its head or gains a last element.

**`GoneStayUnreached`**: `NothingReachesTheGone`. Once a connection is out and a packet has no route
yet, or one that has not looked its room up, the two stay apart (`Unreached`): only a new task
registers, so the snapshot made later has no sender of the connection, and a send is
always one of the snapshot. That the packet was not dispatched to it before is `SnapshotsFresh`.

**`HeartbeatSafety`**: `ClosedOneIntervalLate` and `OnlyTheDeadTimeOut`. Silence is bounded only
because the tick before the last one found it at or below the timeout, and what has been added
since is the interval and the time held up. So the invariant `HInv` relates `silence`, `phase` and
`held` while a tick is open and while none is (`SilenceBound`), and does the same once more
for a client that is up (`LiveBound`).

**`ChatClientSafety`**: what the run checks, and that sequence numbers increase. The invariant
`CInv` says that the names the page uses are those its present socket was made for, and that its
counter is past every number that went over it.

**`CodecsAgree`**: `TypeOK`, `DecodersAgree`, `EncodersAgree` and `AdmittedIsAddressable`. It rests
on the three field checks being the same predicate, although each looks for zeros in its own way,
on the three length tests being the same test, and on **`WritersAgree`**: for fields of any
size, the header buffer with the payload appended, the parts side by side and the writes to the
offsets of one buffer are the same bytes.

**`NumberIsRead`**, **`BytesAreWritten`**: reading the big-endian bytes of a number that fits gives
the number, and writing what was read gives the bytes, for every base and every length of field.
Both are inductions over data, for which no induction rule can be used; they are done by hand on
sets of naturals (`LeastElement`, `UpTo` and `DownFrom`: a set that has an end of a range and with
each element its neighbour has the whole range). That the recursive functions behind `Leading` and
`FoldLeft` exist is shown in the same way (`LeadingIs`, `FromBytesIs`). `NothingLost` is the
arithmetic: what a byte takes from the number and what it leaves make up the number.

**`MessageArrives`**, **`RelayForwardsBytes`**: `SentIsReceived` with sequence number and payload,
and `RelayIsTransparent`. A packed name passes the check of the gateway exactly if it has no hole,
a zero with a character behind it (`PadIsRead`). `WireLayout` gives every field of a concatenation as what was put in,
`SamePacket` the converse: bytes that decode are the ones that their own fields make. With the two
theorems on numbers, a packet that decodes is encoded again to the same bytes. The invariant `PInv`
adds to the types that what is under way are bytes, and that an encoded packet is what its encoder
made of a message (`Sent`).

**`LifecycleSafety`**, **`OneGatewayAtATime`**: types, and `BindsUnlessForeign`. The metrics port,
bound first, on the main task, and kept to the end, works as a lock: two processes past
`init_metrics` would both own it. So a task that finds its port taken has found a foreign program
or a process that has ended.

With these, every invariant and every action or refinement property that a passing run checks is
stated by a theorem. Only model-checked is what needs fairness, which the prover does not handle:
`EveryItemLeaves`, `SendTimeoutReturns`, `EmptyRoomGoes`, `UnregisteredCloses`, `QueuedIsHanded`,
`DeadClientCloses`, `ComesUp` and `SignalStops`. The three violations of section 6 are
counterexamples and have nothing to prove.

## 5. What is not modelled

Names are values, not strings, except in the codec modules. The metric counters, log
lines and the text of errors are left out: nothing reads them back. Static files
(`static_files.rs` is a placeholder, tower_http serves them), the stress example (a load
generator whose only state is its counters) and the build scripts have no module;
`graceful_shutdown_with_drain` is never called; no order of the packets of one sender is
stated, because no document promises one, and the number of routing tasks is a bound of the
model; of the chat page, what it displays is left out. Errors of
`recv_from` only repeat the loop. A poisoned mutex cannot happen: no locked section
panics. DashMap's shards are finer here than in reality (see `Registry`).

## 6. Where code and documents disagree

Each of these three is shown by a run whose counterexample is a behaviour of the code.

1. `GatewayKick`. "The later connection kicks the earlier one"
   (`doc/rust_gateway_prd_v3.md:60`). The kicked task unregisters *by name* when it leaves
   (`network.rs:337`) and so removes its successor, which then closes as well.
2. `GatewayFullOne`. A retry that fails unregisters by the name it captured
   (`routing.rs:348`); after a takeover it hits the new connection, not the one whose
   channel was full.
3. `GatewayBlocked`. The forced disconnect of a client that takes no data
   (`routing.rs:12`, PRD line 113) drops its sender, but its task waits in
   `ws_sender.send` (`network.rs:300`) and hears nothing of it.

Smaller ones, visible in the definitions and in the conditions of properties that pass:

- `recv` "returns `None` when all senders have been dropped" (`routing.rs:150`), but one that is
  parked is not woken when the last of them goes (`DropSender`, `Park`). In the gateway the ping
  interval calls `recv` again within 10 s, which is why `UnregisteredCloses` holds.
- "The caller should await a shutdown signal and then abort the returned handle"
  (`network.rs:75`): `run_udp` returns no handle, and `main.rs:71` aborts a task that has ended. The
  UDP loop goes on routing until the process ends (`CancelUdp`).
- PRD 8.3 wants queues drained before the exit, with a timeout; `main.rs:73` waits 500 ms and looks
  at no queue (`Exit`).
- PRD 8.2 lists metrics that `/metrics` must provide; the functions that would record them
  (`observability.rs:154-182`) are called by nothing, so it shows what `init_metrics` sets.
- `send_drop_oldest` evicts whatever is oldest, a queued system command included, although
  commands have "reliability priority": the last disjunct of `CommandKeptOrDisconnected`.
- `routing.rs:75` says that sends succeed after the receiver is dropped; `try_send` does until
  the deque, which is kept, is full (`TrySend`, whose second branch does not look at `rx`).
- `pack_ascii_field` accepts a zero inside a name, and the field it makes is one
  `is_valid_ascii_field` refuses (`lib.rs:304`, `lib.rs:321`): the holes of
  `SentIsReceived`. Both SDKs refuse such names.
- Python's `encode` raises `UnicodeEncodeError`, not the documented `EncodeError`, for names
  that are not ASCII (`gateway_protocol.py:157` and `179`): the entry of that name in
  `PythonEncode`.
- A client that has vanished is gone "within 30 s" (PRD line 186). `last_alive` is compared
  only after a ping, every 10 s, and with `>` (`network.rs:321`): it may take up to 40 s, and longer
  by the time for which a stalled send holds the task up: the bound of `ClosedOneIntervalLate`.
- `ws_handler` admits a name with a zero inside (`network.rs:173`), which no packet that
  decodes can carry: the exception in `AdmittedIsAddressable`.
- The chat page's late events, see `ChatClient` in section 2: the condition `late`.
- After a send that stalled for more than 20 s a live client can be timed out while its frame
  lies unread (`network.rs:241` and `321`): the second case of `OnlyTheDeadTimeOut`.

## 7. Plan

Done: the channel, the registry, the gateway that composes them, the codecs with the
admission of names, the heartbeat, the chat page and the lifecycle; the proofs of every safety
property that the passing runs check (section 4).

Left: that no task waits for a registry lock while it holds one, as a theorem (the `Registry` run
checks deadlock on its instance); the composition of `Lifecycle` with connections, should the code
come to drain them.
