# A TLA+ model of pathweave

Pathweave connects nodes over several transports at once (QUIC, Bluetooth LE,
WiFi Direct). A node sends a message over whichever transport reaches the peer,
stores it while none does, and floods it through other nodes when the peer is
not a neighbour. This directory models the core of the library, its sessions and
byte formats and its transports, checks them with TLC and proves most of the
safety properties with TLAPS. Paths below are relative to the
repository; `core/` stands for `crates/pathweave-core/src/`.

## 1. The system

| Part | State | Operations | Talks to |
|---|---|---|---|
| Key registry (`core/lib.rs`) | keys by peer, confirmed set, `gossip_order` | `insert_direct`, `insert_gossip`, `get`, `remove` | every handshake, key gossip |
| Sessions (`core/session.rs`) | Noise state | `initiate` (XX or XK), `respond`, `seal`, `unseal` | router, node |
| Bundle layer (`core/bundle.rs`) | sequence number, partial bundles | `send_bytes`, `recv_bytes` | sessions above, transports below |
| Router (`core/router.rs`) | transports with an availability flag, event channel | `send`/`try_send`, `connect`/`try_connect`, `local_addresses` | transports, registry, peer table |
| Health monitor (`core/router.rs`) | remembered address set, `started` watch | start, poll, restart, recovery | transport, `peer_stream`, `accept_loop` |
| Discovery (`core/router.rs`) | `known_addrs`, peer table | `peer_stream`, `upsert_peer_addresses` | transport streams, node |
| Node (`core/node.rs`) | handler, deduplication cache, pending stores | `connect`, `add_peer`, `send`, `send_routed`, `send_routed_sealed`, `store_forward`, `store_forward_routed` | all of the above |
| Receiving side (`core/node.rs`) | the same | `accept_loop`, `handle_incoming`, `dispatch_payload` | sessions, handler, relays |
| Key gossip (`core/router.rs`, `node.rs`) | registry | `flood_key_announcement`, the announcement branch of `dispatch_payload` | event task, mesh |
| QUIC transport | endpoint, mDNS daemon, bridge task | `start`, `stop`, `discover`, `departures`, `connect`, `accept` | router |
| BLE GATT (`pathweave-transport-ble`) | `conn_rx`, one bridging task per start, the open connection | the same trait, as a central and as a peripheral | router, radio |
| BLE advertising (`pathweave-transport-ble`) | connection map, echo filter, incoming queue | the same trait; a dispatcher per start | router, bearer |
| WiFi Direct | `conn_rx`, the task that listens for groups | the same trait | router, wpa_supplicant or WinRT |

What makes it hard: each transport has three tasks of its own (monitor,
discovery, accept); each incoming connection and each relay has one; calls of
the application overlap with them and with the event task. They share mutexes
held for short sections only, so what one read is stale when it writes. Retries,
timeouts and a deduplication window decide between lost and doubled messages.
Restarts of a transport race everything. `PROJECT.json` lists the places, each at
its line, under `hazards`.

## 2. Modules

| Module | Models | Properties aimed at |
|---|---|---|
| `KeyRegistry` | the registry and the sends that read a key, do a handshake and evict the key if it fails | gossip eviction at the limit, stale keys |
| `PeerKeyCache` | abstract: a bounded cache in which gossip only displaces gossip | refined by `KeyRegistry` |
| `StoreForward` | both pending stores, store calls, overlapping drains, the event channel | lost, doubled or reordered entries, drains that never end or never start |
| `Delivery` | one message through `Router::send` and `dispatch_payload`, with timers | ACKs, retries against the deduplication window |
| `Lifecycle` | the `health_monitor` of one or several transports, `TransportChanged`, the watch channel, `peer_stream`, `accept_loop`, QUIC start and stop | restarts racing the tasks, and one another |
| `Discovery` | the mDNS bridge, `known_addrs`, the peer table and everything that writes it | stale addresses, reordered events |
| `Mesh` | flooding with hop count and cache, key gossip, sealed messages | loops, duplicates, coverage |
| `Bundle` | sizes, fragmentation and reassembly of `BundleLayer`, as operators | used by `Channel` |
| `Channel` | a session over bundles over a stream or a radio: both handshakes, messages, faults of the connection, cancelled receives | what a lost, repeated, reordered or old packet can do |
| `SecureChannel` | abstract: each end knows the other and receives a prefix of what it sent | refined by `Channel` |
| `Wire` | the byte formats of address exchange, messages, relays and BLE service data | round trips, counts at their limits, frames of other versions |
| `BleAdvertising` | virtual connections over broadcast frames on several nodes | echoes, repeated reads, connect against dispatcher, stop against both |
| `BleGatt` | the peripheral on its three platforms and the centrals that connect to it | returning and competing centrals, stop against accept |
| `WifiDirect` | two nodes that form a group and dial its owner | roles, stop against accept, listeners of an earlier start |
| `KeyRegistryProofs`, `StoreForwardProofs`, `DeliveryProofs`, `LifecycleProofs`, `DiscoveryProofs`, `MeshProofs`, `ChannelProofs`, `BleAdvertisingProofs` | the theorems about the module of that name, with their proofs | section 6 |

`MC*` modules hold only model values and constant definitions. In each module an
operator marked "Fault" is a plausible mistake in the definition it precedes;
substituting it must break a property, which shows that the property depends on
that piece of code.

### How state and actions correspond to the code

`PROJECT.json` maps every definition to its lines. The main abstractions:

* **KeyRegistry.** Variables are the struct's fields. A send is a task that reads
  a key (`get`), holds it across its handshake, and ends in `insert_direct` or
  `remove`: two critical sections with anything in between. A key is one of
  several that may or may not hash to its peer; the hash itself is a function
  constant.
* **StoreForward.** Messages are numbered in call order, so `queued_at` is the
  number and the passing of time is a horizon below which entries have expired.
  A drain takes a queue under the lock, reading the clock in the same step, sends
  the entries one by one and puts the failures back. The branch for an empty peer
  table is left out, as a drain starts after its peer has entered the table and
  no peer leaves it.
  `Router::send` succeeds, fails or does not return. The event channel keeps the newest `cap`
  events, as a lagging broadcast receiver sees it. A behaviour belongs to one of
  `Setups`, which says who drains and how much there is.
* **Delivery.** `Router::send` as a sequence of attempts over the candidate
  addresses in cost order; connections are ordered streams of frames that may
  break, and a connection's number is used again once both sides are done with
  it. Time passes in seconds, whatever the receivers are doing meanwhile: in
  `Elapse` during the waits that the code limits (exchange, ACK, back-off), up to
  the deadline; in `ElapseOutside` where it sets no limit (connect, handshake,
  between two sends of a drain), which `outside` adds up. The caches hold the age of
  a record. `Tables` lists who may really be at the
  addresses: the peer, another node, or one that accepts and stays silent; a dead
  address is a connect that fails.
* **Lifecycle.** One action per await of the three tasks, and one per store or
  event of a monitor that another monitor can see. `accept()` may fail while its
  endpoint is live (`AlFailed`) or because it is closed (`AlClosed`). The watch channel is its
  current value, as `wait_for` sees it. The event channel is the last
  `TransportChanged`. All transports look like the QUIC one.
* **Discovery.** Transports of nodes come and go at addresses, which may change
  hands; a node may have several, and one may listen on the wildcard address.
  An exchange that a session opened here brings has the addresses of all
  transports of the answerer, one that somebody else opened has that of the one
  transport, as in the code. `owned` and `crossed` are history. One address per mDNS
  service. A send may be answered by whoever has the address by now, and stores the
  exchange under the name it was meant for (`crossed`). A stop ends the bridge and
  its channels, `peer_stream` reads what is left in them, and waits for the watch to
  be clear before it takes those of the next start. A row of the table is a set, and
  `repeated` says whether its Vec has an address twice. The two writes of
  a discovery (`upsert_peer_addresses`, then the push) are one step: both add to
  the same row, and the only reader in between is a send.
* **Mesh.** One `Router::send` is one frame that arrives, arrives again or is
  lost. `Meet` is the first handshake on a link, which gives both sides the
  address and the key; `Announce` is the event task handling `KeyLearned` later.
  `Expire` drops any cache entry at any time.
  The clamp of a received hop count to `MAX_TTL` is not visible, as no node of
  the model sends a larger one. A handler is installed on every node.

* **Channel.** Cryptography is symbolic: a message carries what its tag binds.
  Sizes are real, at the MTU of BLE advertising, since they decide what is
  fragmented. Reading a frame of a stream is two steps, because `recv_bytes` is two
  reads that a timeout may separate. The abstract variables of `SecureChannel` are
  variables of `Channel`: who the peer is, what was sent, what was received.
* **Wire.** A frame is a sequence of small numbers. The widths of bytes, ids,
  hashes and addresses are constants, scaled down so that every length and every
  cut of a frame occurs; the comments give the values of the code. `sent` is what
  was meant, `got` what the reader made of it.
* **BleAdvertising.** The air is the frame each connection is advertising. A
  dispatcher turn is two steps, since the map's lock is released between the
  lookup and the use of what it found. `abort` leaves a turn that is under way to
  finish (`late`).
* **BleGatt.** Each start has a GATT application and a task of its own, which may
  outlive the stop. A central does one session per `connect()`: message 1, 2, 3, a
  payload and its answer. The platforms differ in the bridging task and in how a
  central that leaves is noticed.
* **WifiDirect.** `connect()` works out its role from the short ids, and without
  its peer's takes the peer for the owner. wpa_supplicant negotiates with the intent
  it was given last, or its default, and forms a group at any time after that, also when the call has
  given up, with either owner on a tie. Whether the peer's short id is known is
  chosen at each call. `blind` remembers a call without it.

Modules meet at operations: `Channel` supplies the sessions that `Delivery` and
`Mesh` take for ordered connections, `Wire` the frames that they take for records,
and `BleGatt`, `BleAdvertising` and `WifiDirect` the connections below. `Delivery`
refines what `StoreForward` and `Mesh` assume of `Router::send` (it may fail, it
may deliver and fail, it may deliver twice to the cache), `Lifecycle` supplies the
restarts of `Discovery`, and `KeyRegistry` the keys that `Delivery` and `Mesh`
treat as present or absent.

## 3. Runs that pass

| Run | Checks | Bounds, and why they are enough |
|---|---|---|
| `key_registry` | `GossipOrderIsExact`, `KeysBindTheirPeer`, `ConfirmedLeavesOnlyByFailedXK`, `ImplementsCache` | 4 peers for 2 places: eviction, and a peer that comes back; 2 sends in flight |
| `store_forward` | `Conservation`: each message is in exactly one place; `DrainsEnd`, for a drain whose sends return; with the event task as the only drain `LoneDrainKeepsOrder`, and while the channel has room `AppearanceIsServed` | 3 direct messages for a queue of 2, or 2 of both kinds for a queue of 1, so that one is rejected, with the event task and a caller's drain overlapping; or the event task alone, 2 messages (order is a relation between two) and 3 appearances, so that two come during a drain |
| `delivery` | `AckIsGenuine`, `AtMostOnce`, `SendReturns` | 2 addresses of the peer, or 1 that is somebody else's or silent; all attempts, with receivers of 2 connections at work; every limited wait may take its time, by the code's constants, and 17 s more pass anywhere else, the most that two addresses leave of the deduplication window |
| `lifecycle` | `TypeOK`, `AvailableMeansUp`, `LastEventOfTwoIsUp`, `Settles`, `AcceptFollowsRestart` | one transport with its tasks, 3 changes between 3 address sets, 2 failing starts: recovery inside a restart and another restart after it; or the monitors of 2 transports, 2 changes, 1 failing start |
| `discovery` | `AddressesBelong`, `FreshIsListed` | 3 nodes with 4 transports sharing 2 addresses, 2 moves, a restart, 1 call, send or incoming session: an address changes hands during a connect, or before a send |
| `mesh` | `TypeOK`, `AtMostOnce`, `Covered`, `FloodEnds` | 4 nodes, a triangle that the destination joins, as many hops as the longest path; one of a plain and two sealed messages; a frame lost, a frame twice, or any number of expiring cache entries (`Faults`) |

| `channel` | `Agreement`, `PendingIsBounded`, `ImplementsSecureChannel`, `CalmChannelDelivers` | both kinds of connection, no key, the right one or a stale one; 2 messages one way and 1 the other, short or of two fragments; one fault, which may come anywhere: a second one only adds to what the first has broken |
| `wire` | `TypeOK`, `Understood`, `AcceptedIsPrefix`, `RelayChangesOnlyTtl` | bytes of 8 values; lists up to and past what a count can hold; 3 hops for a limit of 3 |
| `ble_advertising` | `StreamsAreInOrder`, `StopReleases`, `CiphertextsAreHandedOver` | 2 nodes that may both dial, 3 frames; of dials, stops and repeated reads 2 in all |
| `ble_gatt` | `ReturningCentralIsServed`, `NeverStuckTwice`, `StopReturns`, `StopEndsHandlers` | 3 platforms; a central that comes back 3 times, one with slow tasks that does so once, or two centrals and 3 sessions; a restart |
| `wifi_direct` | `GreaterIsOwner`, `InboundIsAccepted`, `WindowsStopReturns` | 2 nodes on either platform, 2 calls of `connect()`, so that both sides ask or one asks twice, one group, a restart of one node |

Where `TypeOK` is not listed, the first invariant of the run includes it; that of
`KeyRegistry` is proved.

`Covered` passes in `mesh` because there are hops for the longest path: then
every copy has enough left. `MeshDetour.cfg` shows what happens otherwise, and
`FloodCovers` (section 6) says when it cannot. Floods of
different messages share nothing but the registry, so one message per behaviour
is enough there. `VIEW CheckedState` in `store_forward` and `discovery` leaves out
history variables that steer nothing and that their properties do not read.
`StoreForwardWide.cfg` repeats its invariants with 3 messages of both kinds.

## 4. Disagreements with the documentation

One run checks a sentence of a doc, quoted in `findings` with its place.

| Run | Property | What happens |
|---|---|---|
| `delivery_late_exchange` | `OkMeansDelivered` | a late address-exchange reply passes for the delivery ACK |

More configurations give counterexamples to further sentences, each quoted at
the property it is about. `tlc -config <file> MC<module>` shows them; a file
with several has one enabled, with its constants, and the others as comments.

| File | Property | What happens |
|---|---|---|
| `KeyRegistryLimit.cfg` | `SizeWithinLimit` | direct handshakes exceed the documented maximum of the registry |
| `StoreForwardLimits.cfg` | `NeverStranded` | the peer appears between a call's lookup and its enqueue, and nothing tries the message |
| `StoreForwardLimits.cfg` | `FifoOrder` | two drains of a queue put their failures back in the wrong order |
| `StoreForwardLimits.cfg` | `DepthWithinBound` | a failing drain overfills a queue that was refilled meanwhile |
| `StoreForwardLimits.cfg` | `AppearanceStartsDrain` | `PeerConnected` is overwritten before the event task reads it |
| `StoreForwardLimits.cfg` | `EventTaskReturns` | a send that hangs in its handshake holds the event task, and with it every later drain |
| `DeliveryLimits.cfg` | `OkFromThatPeer` | with no key registered, whoever is at the address gets the message |
| `DeliveryLimits.cfg` | `NeverTwice` | three addresses' worth of retries outlast the deduplication window |
| `DeliveryLimits.cfg` | `NeverTwice` | two addresses and 18 s of dialling and handshakes do so too, a second more than `AtMostOnce` allows |
| `DeliveryLimits.cfg` | `NeverTwice` | a handshake that takes a minute, between two tries, does so by itself |
| `DeliveryLimits.cfg` | `NeverTwice` | a message drained again after a minute is delivered twice |
| `DeliveryLimits.cfg` | `SendAlwaysReturns` | a peer that accepts and stays silent holds `send` for ever |
| `LifecycleLimits.cfg` | `DiscoveryFollowsRestart` | `peer_stream` misses a stop-start pulse and stays deaf |
| `LifecycleLimits.cfg` | `LastEventIsUp` | of three transports two go down at once, and the last event names one of them |
| `LifecycleLimits.cfg` | `AddressFollowsNetwork` | a change that is undone during a restart goes unnoticed |
| `DiscoveryLimits.cfg` | `AppearanceReported` | after a restart a known address appears again and fires no `PeerConnected` |
| `DiscoveryLimits.cfg` | `NoDuplicateAddress` | the exchange and the push store an address twice |
| `DiscoveryLimits.cfg` | `AdvertisedOnly` | a listener on 0.0.0.0 gives that address to its peers |
| `DiscoveryLimits.cfg` | `GoneMeansGone` | a departure overtaken by the return is reported last |
| `DiscoveryLimits.cfg` | `OwnAddressesOnly` | a send answered by another node stores that node's addresses under the name it was meant for |
| `DiscoveryLimits.cfg` | `RestartResumesListing` | `peer_stream` misses a stop-start pulse, and a peer that is there and announced is never listed |
| `MeshDetour.cfg` | `Covered` | the first copy has too few hops and suppresses the better one |
| `MeshLateJoiner.cfg` | `SealedOpens` | a node that joins late is never told a key announced before |
| `ChannelMtu.cfg` | `BundlesFitMtu` | a fragment at a large offset is a byte over the MTU, as its own length field is not in the overhead |
| `BleAdvertisingAgain.cfg` | `FramesAreHandedOver` | the first frame of a session is taken for an echo of the one to another peer, or goes to a connection that was dropped |
| `BleAdvertisingRecheck.cfg` | `RechecksCollapse` | a repeated read after two seconds is delivered again |
| `BleGattLimits.cfg` | `NextSubscriberIsServed` | on Linux and macOS a central that comes back finds its earlier connection open, once |
| `BleGattLimits.cfg` | `SecondSubscriberIsDropped` | the writes of a second central reach the connection of the first |
| `WifiDirectLimits.cfg` | `StopReturns` | on Linux `stop()` waits for ever for the lock that `accept()` holds |
| `WifiDirectLimits.cfg` | `OwnerDoesNotDial` | the owner of a group dials its own address |
| `WifiDirectLimits.cfg` | `RoleIsKept` | a late group of an earlier call, or one that the peer asked for, gives a node the other role than its `connect()` had worked out |
| `WifiDirectLimits.cfg` | `NoStaleListener` | after a restart the task of the earlier start takes the connection |

## 5. Fairness

* `StoreForward`: the steps of a drain that wait for nobody, and the event task's
  receive, as tokio runs ready tasks. No timeout covers the connect and the
  handshake of a `Router::send`, so none is assumed to return: `DrainsEnd` and
  `AppearanceIsServed` have that as a hypothesis (`SendsReturn`) about the sends of
  the drain in question only.
* `Delivery`: the sender's own steps and its timers. A connect and a handshake may
  last for ever, which is the one exception in `SendReturns`. Receivers may be silent
  at any point; that a receiver's task ends once its connection is closed is assumed
  so that the bound on connections holds nobody up.
* `Lifecycle`: the three tasks. Nobody need announce anything or connect, and the
  handshake of `peer_stream` need not end; `start()` fails finitely often.
* `Discovery`: the steps of `peer_stream` that wait for nobody, with
  `stream::select` polling both streams. No dial need end and no start succeed.
  `FreshIsListed` has as hypotheses that the peer in question goes on being announced,
  as mDNS does, and answers when it is dialled again and again, and as exceptions a
  dial that never returns, a transport that stays down and a missed stop.
* `Mesh`: while frames are in flight, one of them arrives or is given up.

* `Channel`: both tasks run and packets in the air arrive; what is lost is a fault.
* `BleAdvertising`: dispatchers, accept loops and sessions run, and no
  advertisement is held for ever. Nobody need hear it.
* `BleGatt`: the transport's tasks and the handlers. Centrals need do nothing.
* `WifiDirect`: tasks run, timers fire, a bind and a dial end. No group need form.

One assumption on timing: in the `prompt` setups of `BleGatt` an exchange over the
radio takes longer than a step of a local task, as `connect()` settles for half a
second and a round trip takes milliseconds. `ReturningCentralIsServed` and
`NeverStuckTwice` are about these; without it a first write may arrive before its
channel is installed, and be discarded. The other properties do not need it.

`CHECK_DEADLOCK FALSE` stands where the bounds let a system at rest stop.

## 6. What is proved

TLAPS proves the following for every value of the constants, from the named
assumptions on them only.

* `RegistryInvariant`: `gossip_order` lists exactly the unconfirmed entries, once
  each; gossip stays within the limit; keys hash to their peers. The three are
  inductive only together: exactness of the queue is what makes `retain` and
  `pop_front` take out the entry they mean, and the bound follows from it because
  the capacity test counts all entries. The lemmas below it say what removal,
  `push_back` and `pop_front` do to a queue without duplicates.
* `ConfirmedKeysAreSafe`: a confirmed key leaves only by a failed XK send that
  had read a key for that very peer.
* `RegistryImplementsCache`: the step simulation to `PeerKeyCache`.
* `StoredKeysBind`: what of the first invariant a send relies on, by itself.
* `FloodTypes`: `TypeOK` of `Mesh`, so no hop count wraps; and `FloodAtMostOnce`:
  `AtMostOnce`, for every topology, hop limit, loss and repetition. `AtMostOnce`
  alone is not inductive; the strengthening says that, as long as no cache entry
  has expired, what a handler got is in the cache of its node.
* `FloodCovers`: `Covered` as long as no cache entry has expired, for every topology
  and every order of arrival, under `SmallMesh`: there are at most `MaxTTL` + 1
  nodes, and nobody sends to itself. With `MAX_TTL` = 7 of `node.rs` that is a
  mesh of eight. A cache knows ids and not hop counts, so the first copy to
  reach a node may be the one with the fewest hops left; the theorem says that
  this does no harm in a mesh that small. Two facts carry it. `Traced`: the hops a
  copy has spent were spent at different nodes, all of whose caches have the
  message, so one that reaches a node for the first time, before the destination
  has been reached, has hops left. `Front`: whatever set of nodes separates the
  sender, and those that have the message, from the destination, some link leads
  out of it on which a copy is in flight, or at whose start the message is yet to
  arrive; once nothing is in flight, the nodes that have the message would be such
  a set. That the destination is within reach is used once, at the send: a walk
  from the sender to it leaves any set that has the one and not the other (the
  least step at which it does, by well-foundedness). The bound is tight: with
  `MaxTTL` = 4 and the six nodes of the topology o-x, o-y, x-y, o-w, w-z, z-d TLC
  finds the message lost, as o relays its own flood when it comes back through x
  and y, and that copy reaches w first.
* `HandlesAreLive`: `TypeOK` of `Lifecycle`, which includes that a stream or endpoint
  in use belongs to the running instance, and `FlagsAreTrue`: `AvailableMeansUp`,
  for any number of transports, network changes and failing starts. The inductive
  invariant ties every flag to the point of `health_monitor` that its transport is
  at. The lemmas say that a step of one monitor leaves the others alone, and that
  `peer_stream` and `accept_loop` leave them all alone.
* `EventsOfTwo`: `LastEventOfTwoIsUp`. A monitor chooses in one step what its event
  names in a later one, so the invariant must speak about the time in between:
  if a transport is up, the last event names one that is, or a monitor still has
  an event to fire. It is inductive for two transports because the one that a
  monitor falls back to is then the only one that can be up; for three it fails
  (`LifecycleLimits.cfg`).
* `NothingIsLost`: `Conservation`, for any number of peers, overlapping drains,
  messages and events and any depth of the queues. A message is in one place at
  one position; the invariant says so for all places at once (queues, the batches
  drains hold, the failures they put back), ties the stage of every message to the
  place it is in, and says what each call and each drain has in hand. Three lemmas
  about families of sequences carry it: taking a head away, appending something
  new, and joining all of one place to the front of another.
* `OrderIsKept`: `LoneDrainKeepsOrder`. On top of that: with one drain, what has
  failed, what is in hand, the rest of the batch and the queue form an increasing
  sequence in that order.
* `AnsweredMeansAck`: `AckIsGenuine`, for any peer table, any number of sends and
  retries and any breaking connections. The invariant says which frames can be on
  a connection at each point of the two tasks: a reply to the exchange and an ACK
  are never both on the way to a sender that got its exchange answered. The
  counterexample of `delivery_late_exchange` is just the case it leaves out.
* `OneCallPerMessage`: `AtMostOnce`, for any peer tables, timings, numbers of sends
  and of connections whose receivers are at work at once, and any deduplication
  window, with no assumption on them: `AtMostOnce` compares the window with the time
  itself, namely what the limited waits of the sends made so far can take from
  the moment the first message is out, (attempts x addresses x (exchange + ACK
  timeout) + back-offs) x sends, less one exchange, and the seconds that passed where the code
  sets no limit. With the code's timeouts two addresses leave 17 s for connects and
  handshakes, and three leave none; `DeliveryLimits.cfg` has the counterexamples
  just outside. The argument: every record is as old as the time that has passed since
  it was made at most, which with what the sender has left of its waits stays
  below the sum above (`Ages`, `Costs`); so while that is below the window no
  record has expired, a node that recorded the message is still covered by its
  cache (`Covered`), and no second receiver passes `check_and_insert`.
* `TableIsTrue`: `AddressesBelong`, for any nodes, transports, addresses, moves and
  restarts: a row has only addresses of its peer, or of a node that has answered a
  send meant for that peer. Three facts make it inductive: where a transport is, its
  node has owned, the address `connect` carries from its handshake to its stores was
  its peer's when it was learned, and owning and answering are never undone.
* `EndsAgree`: `Agreement`, and `SessionIsSecureChannel`: the step simulation from
  `Channel` to `SecureChannel`, for every MTU and any number of faults. The
  invariant says that every bundle waiting or in the air belongs to a message its
  sender wrote, now or in an earlier connection (`Carried`), what each step of the
  handshake knows of the other end (`Established`), and that no end sends more
  messages than it has sequence numbers for (`Counted`). Reassembly enters by one
  fact: what it returns is one of the messages its fragments are of, or garbled.
* `PendingBounded`: `PendingIsBounded`, for every MTU, all messages and any number
  of faults: a `BundleLayer`, which never drops an incomplete bundle, keeps at
  most one more than there have been faults. The invariant (`PInv`) says that for
  each direction there is a set of sequence numbers, no larger than the number of
  faults, outside which nothing is disturbed (`Sound`): what is kept, in the air
  and still to be sent is in order of sequence number and offset, and the parts of
  one sequence number are what `send_bytes` cut from one payload, all of them
  unless the sender is gone and nothing later is on its way. So when a fragment
  arrives, every earlier bundle is complete, and complete bundles are not kept.
  Each fault disturbs one number. The proof rests on what the two halves of
  `bundle.rs` compute: the fragments of `send_bytes` cover the payload without
  overlap (`SendFacts`), and `is_complete`, which only adds up lengths, holds
  exactly when all of them are there (`AllIsComplete`, by counting the bytes).
* `StreamsHold`: `StreamsAreInOrder`, and `StopClears`: `StopReleases`, for any
  number of nodes, connections, frames and restarts. Order is not inductive: a
  frame in a stream must also be out of the way. The strengthening (`Passed`)
  says that whatever its node may still hear of the same connection is later, or
  the same frame and still known to the echo filter; this holds for the streams
  of connections in the map and for a frame whose turn is under way, and with the
  order of the backlog and of the air it is kept by every step. A connection
  replaced in the map is never looked up again, so the dispatcher's use of a
  stale lookup can only append the frame the lookup was for.

The assumptions on the constants are the `ASSUME`s of the modules: bounds are
natural numbers, sizes are positive, keys and names are of their kinds, and the ids
of messages are not those of announcements (`IdsDiffer`). The
inductive invariants were checked with TLC on the instances of the runs or larger
ones before they were proved; that of `FloodCovers` on four nodes with three hops,
as the run has fewer hops than `SmallMesh` asks for, and that of
`PendingBounded` with messages of three fragments and two faults as well.

Only model-checked, and why:

* all liveness, which is out of the prover's reach;
* `BleGatt`: in its `prompt` setups a central acts only when no local step is
  enabled, and the prover does not reason about `ENABLED`;
* `Covered` of `Mesh` when the mesh is larger than `SmallMesh` allows, where it
  depends on the topology, and after cache entries have expired: the run has both,
  a triangle and its tail with two hops, and caches that forget;
* `Wire`, whose writers flatten a list and whose readers fold over a frame: what
  they compute for every input needs an induction over data;
* `GreaterIsOwner` of `WifiDirect`: not attempted, its model is of two nodes and
  few calls, all of which TLC visits.

## 7. What is not modelled

* The mathematics of Noise, TLS and CBOR, and the contents of mDNS. `Channel` and
  `Wire` model what the code does around them.
* The platform calls that detect a network's cost and its addresses, and those
  that set up adapters, GATT services and P2P devices: they succeed or fail.
* BLE GATT: several `connect()` calls of one central at a time, and the scan's
  event stream after `stop_scan`.
* WiFi Direct: `discover()` and the short ids in device names, which stand behind
  `known`; groups of more than two nodes.
* The other transports seen from `health_monitor`: `Lifecycle` has the QUIC one,
  and `BleGatt` and `WifiDirect` have their own start and stop.
* `NodeIdentity` and the plain data types, beyond what a peer id is.
* `pathweave-uniffi` has no state; `pw-chat` is a terminal program over the
  modelled calls.

## 8. Plan

1. Proofs: `GreaterIsOwner` of `WifiDirect` for any number of calls and groups, and
   for groups of any size, once the model has them.
2. An abstract at-least-once channel that `Delivery` refines, and a composition of
   `StoreForward` with it.
