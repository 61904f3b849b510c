# A TLA+ model of matter-onvif-bridge

matter-onvif-bridge presents ONVIF cameras as Matter camera endpoints: it
discovers cameras, gives each a fixed endpoint of a statically declared Matter
node, registers their RTSP streams with go2rtc, forwards motion events to an
occupancy cluster, and hands WebRTC offers from Matter controllers to go2rtc.

This directory holds TLA+ modules translated from the Rust source, TLC
configurations that check them on small instances, and TLAPS proofs of every
invariant the runs check and of the three refinements, for any number of cameras,
slots, channel capacities, lifetimes and thresholds. `PROJECT.json` maps every
definition to its source lines.
Source paths below are relative to `src/crates/`.

## 1. Inventory

Two threads run. The **main thread** runs the rs-matter executor (one task set,
cooperative): attribute reads, command handlers, the WebRTC hooks, the seed
driver. The **bridge thread** (`onvif-media-bridge`) runs a tokio
*current-thread* runtime: its tasks interleave only at awaits, while the main
thread may read what they share at any instant.

| Component | State | Operations | Talks to |
|---|---|---|---|
| Slot allocator (`bridge/src/slot_persistence.rs`) | id -> slot map in memory; JSON file | `load`, `assign`, `save` | file system; called by the bridge loop |
| Discovery (`onvif-client/src/discovery.rs`) | `discovered`, `missed_scans`, the scan's `found_ids` | static list once, or scan / merge / connect / sweep for ever | cameras; mpsc channel (64) to the bridge loop |
| Registry (`onvif-client/src/registry.rs`) | id -> camera; broadcast channel (64) | `add_camera`, `remove_camera` | subscribers: bridge loop, stream manager |
| Bridge loop (`bridge/src/onvif_bridge.rs`) | `slot_map`, `stream_names`, `slots`, `seeded`, `motion_tasks` | select! over discovery and registry; Added / Updated / Removed | writes the registry it listens to, the allocator, slots read by the main thread, pumps, seed channel |
| Motion pump (`onvif-client/src/motion.rs`) | one pull-point subscription | create, pull, renew, retry | camera; motion flag and data version |
| Occupancy cluster (`matter-camera/src/cluster_occupancy.rs`) | atomic flag, atomic 32-bit data version | `set`, `bump`, `read` | pump writes (bridge thread), executor reads (main thread) |
| Stream manager, go2rtc API (`media/src/stream_manager.rs`, `go2rtc_api.rs`) | none of its own: go2rtc's streams | per event: query, delete, add | HTTP to go2rtc |
| go2rtc manager (`media/src/go2rtc_manager.rs`) | the child process | spawn, wait for ready, respawn after 3 s | go2rtc |
| WebRTC and AV hooks (`bridge/src/hooks.rs`) | pending answers and sessions per slot | offer, answer delivery, end of session | `stream_names`, go2rtc through a blocking call |
| Seed driver (`bridge/src/main.rs`) | the seed channel; the table of 4 video streams in the cluster handler | `add_preallocated_video` per seed | bridge loop, AV stream handler |
| Bridged device information (`bridge/src/main.rs`) | none of its own: `CameraSlot`, read through a lock | one read per attribute | slots written by the bridge loop |
| Matter node (`bridge/src/main.rs`) | static node and handler chain | dispatch, sockets | everything above |
| ONVIF client (`onvif-client/src/client.rs`) | none | `connect_camera` | camera |
| Configuration, mDNS socket, examples, scripts | none | parsing, diagnostics | - |

How a camera flows: discovery finds it and sends `CameraFound`; the loop writes
the registry; the registry broadcasts `Added` to the *same* loop and to the
stream manager; the loop asks the allocator for a slot, publishes the stream
name, populates the slot, seeds a video stream and starts a motion pump; the
stream manager registers the stream with go2rtc. Loss runs the same way back.

What is hard here: the state of one camera is spread over six maps that follow
each other through two bounded channels, one of which overwrites; the file
behind the slots is rewritten in place; the flag and its version are two atomics
without a lock; go2rtc can restart at any time with nothing registered; the
main thread can look between any two lock sections. `PROJECT.json` lists each
hazard at its line.

What makes each component correct, in one line each:

* allocator - no endpoint shared, none moved, whatever happens to the file;
* discovery - found and lost alternate, and lost means so many misses in a row;
* registry and loop - endpoints converge to what discovery knows, one each, and
  are never shown without what a controller needs to use them;
* occupancy - a filtered read never hides a change for good;
* stream manager - go2rtc has the registry's streams;
* motion pump - the flag follows the camera through any failures;
* start-up - the bridge comes up with or without go2rtc, unless a readiness
  probe is never answered;
* hooks - an answer reaches the session that asked, once, or nobody, and an
  offer asks go2rtc for the stream name of the camera that owns the endpoint;
* seed driver - an endpoint is seeded once, from its camera, and only a go2rtc
  that never answers keeps a seed waiting;
* what is read of a slot - presence and identity out of date perhaps, another
  camera's never; motion only from an address its camera has had.

## 2. Modules

| Module | Models | State | Actions |
|---|---|---|---|
| `CameraIds`, `CameraEvents` | camera ids, discovery and registry events, "what a queue of events settles on" | - | - |
| `Binding` | *abstract*: what the allocator promises over the life of a storage directory | the slot each camera was told | `Give` |
| `SlotAlloc` | the choice `assign` makes | constant-level operators | - |
| `SlotMap` | allocator, file, process | memory map, file, position in `save`, build | `Start`, `AssignKnown/New/Refused`, one action per system call of `save` and its failures, `Crash` |
| `OnvifConnect` | `connect_camera`: what the calls that succeeded make of a camera | constant-level operators | - |
| `DiscoveryFeed` | *abstract*: what discovery promises its reader, in both modes | announced cameras, channel | `Announce`, `Withdraw`, `Notice`, static variants, `Take` |
| `Discovery` | the auto-mode scan loop, with cameras that move | `discovered`, `missed`, scan position | `BeginScan`, `ConnectOk/Fails`, `BeginSweep`, `SweepUnreachable/Lost`, `EndScan`, `Take`, external `Move` |
| `SlotLife` | *abstract*: one slot as the Matter thread sees it | owner, occupant, stream name, seeds, pump | `Bind`, `PublishName`, `Show`, `Furnish`, `Clear`, `Unname` |
| `CameraBridge` | bridge loop + registry, composed with `DiscoveryFeed` and `SlotAlloc` | registry, broadcast queue, slots, names, seeds, pumps | one action per lock section of each handler, `TakeLagged`, `Panic` |
| `Occupancy` | flag, version, pumps and the addresses they keep, handler reads, controllers' caches | the two atomics, the addresses of the pumps, a read in progress | `LoopStep` (with `StartPump`), external `TakeAddress`, `SetMotion`, `Bump`, `LoadVersion`, `SkipRead`, `SendValue`, `HandlerBump` |
| `BridgedInfo` | reads of presence and identity | what a controller holds | `ReadReachable`, `ReadIdentity` |
| `SensorEndpoint` | `SlotLife` + `Occupancy` + `BridgedInfo` on their two threads | all of theirs | `BridgeThread`, `MainThread`, external `Network` |
| `WebRtc` | the WebRTC hooks of one slot, its cluster handler and outbound worker | answers, work items, sessions | `Offer`, `ExchangeSucceeds/Fails`, `EndSession`, `NextOutbound`, `TakeAnswer`, `NoAnswerToTake` |
| `AvStreams` | seed channel, seed driver, stream table | queue, pre-allocated and allocated streams | `SendSeed`, `SeedDriver`, `AllocateVideo`, `DeallocateVideo` |
| `MediaEndpoint` | `SlotLife` + `WebRtc` + `AvStreams` on their two threads | all of theirs | `BridgeStep`, `RtcStep`, `SeedDriverStep`, `StreamStep` |
| `StreamManager` | start-up, stream manager, API, go2rtc under its supervisor | registry URLs, queue, go2rtc's streams, probes | `SpawnLocal`, `ProbeOk/Fails/Hangs`, `HungProbeEnds`, `RecvCamera/Lagged`, `Query*`, `Replace`, `Add`, `Remove`, `Exit`, `Respawn` |
| `MotionPump` | subscription, long poll, renewal, reconnection, abort and the next pump; the camera and the clocks | call in flight, remaining lifetimes, notifications, flag | the two legs of each call, `CallFails`, `WakeUp`, `Abort`, `Respawn`, `Tick`, the camera's own steps |
| `*_proof` | theorems about `SlotMap`, `Discovery`, `CameraBridge`, `SlotLife`, `SensorEndpoint`, `MediaEndpoint`, `MotionPump`, `StreamManager` | - | - |
| `MC*` | instances for TLC | - | - |

Three abstract specifications tie the modules together:

* `Discovery` implements `DiscoveryFeed` (`ImplementsFeed`), and `CameraBridge` is
  built on `DiscoveryFeed`: what it shows holds of the real scan loop too.
* `CameraBridge` implements `SlotLife` for each of its slots
  (`ImplementsSlotLife`), and the models of the Matter side are built on
  `SlotLife`: what they show holds whatever the loop, the registry and
  discovery do.
* `SlotMap` implements `Binding` (`ImplementsBinding`): a slot told to a caller
  is the camera's for ever, until the record is damaged. `CameraBridge` starts
  from any one-to-one slot map, which is what a load leaves.

### Correspondence and granularity

* `SlotMap`: `std::fs::write` is open-and-truncate, then write; the process can
  end in between. A missing, empty, torn or unreadable file all load as an empty
  map, so the file is modelled as the map `load` would get from it. `assign` is
  synchronous, so nothing interleaves with it but the end of the process.
  `forget` has no caller (`#[allow(dead_code)]`) and is left out.
* `Discovery`: an action is the code between two completed awaits. The maps of a
  scan are its own, so they change with the send that follows them.
* `CameraBridge`: handlers have no await, hence no other task of the thread
  runs inside one, but the main thread reads `stream_names` and the slots
  through their locks: handlers are cut where a lock is released. After
  `Err(Lagged)` the select! pattern `Ok(event)` disables the registry branch
  until discovery speaks: that is `pc = "discovery"`, and `Panic` is select!
  with no branch left.
* `SlotLife`: an action is what one lock section (or one locked map) of a handler
  does to a slot. `Furnish` covers the seeding and the start of the pump, which
  the main thread sees through channels only; a removal that drops no pump
  handle leaves the pump running, as detaching does.
* `OnvifConnect`: the calls of `connect_camera` run one after the other with no
  state but their results, so a connection is the set of calls that succeeded.
  `Discovery` lets each connection learn any part of what a camera can do.
* `Occupancy`: steps are single atomic operations. Pumps run on the bridge thread
  and their callback has no await, so neither an abort nor another step of the
  loop falls between `set` and `bump`. The flag outlives its camera. A pump keeps
  the host, port and events URL it was spawned with (`pumpsAt`) and connects there
  again and again without asking who answers. That is external: any camera that
  has had the address so far (`heldBy`), since a camera may move between two
  connections and its last notifications may still be on their way.
* `BridgedInfo`: every attribute is read under a read lock of its own, so what a
  controller holds is of different moments; presence and one string stand for
  all of them. A slot is replaced under one write lock.
* `StreamManager`: every HTTP call is a step; a call that fails may or may not
  have taken effect. The time limit of `wait_for_ready` is counted in probes.
  An external go2rtc is taken to be restarted by its container; in local mode the
  supervisor does it, unless the configuration file could not be written: then
  nothing brings go2rtc back. No call has a timeout. For the probe of the start-up,
  which everything waits for, an endless call is modelled (`ProbeHangs`).
* `MotionPump`: a call is two steps, the camera acting and the reply arriving,
  with ticks before either. The handler of a reply has no await, so it is one
  step. The camera is external: it tells a new subscription its current state
  (the ONVIF rule for property events), hands out notifications once, and keeps
  a subscription until its lifetime ends. `slow` records a leg that took longer
  than `MaxDelay`; it forgives the current subscription only. A request acted on
  after its caller gave up is left out. `Abort` may strike at any await, in any
  leg of a call; the next pump of the camera starts a scan later at the earliest,
  since the camera must have been missed and found again (`ScanInterval`).
* `WebRtc`: `on_offer` blocks the main thread for the exchange, so only the
  bridge thread moves between the look-up and its end; everything else of the
  hooks is one step each. go2rtc is asked for a stream *name*: a camera whose id
  has the same sanitized form has that name too, and what go2rtc dials for it is
  the URL it was last given, so no property says whose video is seen. The
  cluster handler (rs-matter) is external: it may reuse session ids, re-offer on an
  open session and end one at any time.
* `AvStreams`: the handler with its table is external: it takes a stream if there
  is room. The hooks accept allocations and deallocations without a trace.

## 3. Runs

Violation runs state what a comment in the repository says and show the code
doing otherwise (section 5).

| Run | Instance | Shows |
|---|---|---|
| `slots` | 3 cameras, builds of 2 (1 with occupancy) and 3 (2) slots; 1.5 M states | no shared slot in memory or file; slots in range of the running build; the file never contradicts memory; pools stay full; endpoints stable while no save was lost; implements `Binding` |
| `discovery` | 2 cameras of different abilities, 3 addresses on 2 hosts, 2 of them static, threshold 3, channel of 1; fair; 401 k states | kept iff found in one of the last scans; implements `DiscoveryFeed`; a camera gone for good is lost |
| `bridge` | 3 cameras, 2 slots, broadcast of 2, inbox of 1; 527 k states | endpoints one-to-one and following the registry, streams named before they are reachable, pumps owned, seeds at most once; implements `SlotLife` for each slot |
| `bridge_live` | 2 cameras, one slot, auto mode or a list of 3 hosts, broadcast of 2; fair; 34 k states | endpoints converge once discovery settles; the loop survives the end of static discovery unless an event was overwritten, then `select!` can be left without a branch and panic (64 is the limit in the code) |
| `occupancy` | `SensorEndpoint`: 2 cameras, 2 addresses, 2 controllers, versions modulo 3, 2 bumps; 1.6 M states | current version means current value, across the wrap; presence and identity are never another camera's; motion comes from an address the owner has had |
| `motion_pump` | lifetime 8, renewal at 3, poll 1, delay 1, backoff 2, scan 3 ticks; pulls of 2 from a queue of 3; fair; 310 k states | renewed in time; the flag follows the camera; abandoned subscriptions bounded, also by aborts; recovery |
| `webrtc` | `MediaEndpoint`: 3 cameras, two of one stream name, 2 session ids, 3 offers, a table of 2; fair; 192 k states | only fresh answers, each once; no answer without a work item; offers ask for the owner's stream name, seeds are the owner's; only go2rtc can keep seeds and answers waiting |
| `streams` | 3 cameras, two of one stream name, 4 URLs, broadcast of 2, 2 probes; fair; 366 k states | go2rtc in step with the registry if nothing failed, and it gets there; no stream of a removed camera; the bridge starts unless a probe is never answered |
| `slots_same_endpoint`, `discovery_stale_address`, `bridge_no_video`, `streams_unsynced` | small | findings |

### Bounds, and why they are enough

* *Three cameras for two slots* (or three): a camera spills into the other pool,
  one finds none, and two cameras compete while a third leaves. Slots 8 and 7 of
  `main.rs:74-79` are only larger numbers of the same two pools.
* *Broadcast of 2* for three cameras overwrites events; the code's 64 does so
  only later. tokio rounds the capacity up to a power of two, so only powers
  of two are used.
* *Channels of 1 or 2* make senders wait.
* *MissThreshold 3* is the code's. Three addresses on two hosts give a camera
  another port and another host to move to, and `merge_devices` a host with two
  devices.
* *Version modulus 3* with 2 bumps: the version wraps, but does not come back to
  a value a controller still holds. With 2^32 bumps between two reads of one
  controller it would, in the code too: `MaxBumps < VersionModulus` is the
  assumption that it does not.
* *Lifetime 8, renewal at 3*: the least lifetime `MarginAssumption` allows with
  a delay of one tick, so the bound is met exactly; the code's 60, 45 and 5
  seconds allow legs of 2.5 s. The theorem covers all values. A queue of 3 and
  pulls of 2 leave notifications behind; the code's 16 do so later.
* *Three offers on two ids*: an id is used again while an old work item waits,
  and an open session is offered to twice. The proofs have no bound.
* *A table of two streams* is full of controllers' streams before the seed
  comes, or has room for one of each; the code's four differ in number only.
* *Two cameras for one slot* in `occupancy`: one that owns it, and one that would
  be shown if the slot were ever given away; with two addresses the two can
  trade places, or share one of them. *Three* in `webrtc`: an owner, a namesake
  and one with a name of its own.
* *Two of three cameras on one stream name*, of which one may lack a URL: each
  replaces, removes and skips the other; the third shows that they do not
  disturb a name of its own. One failed probe more than none is enough to
  exceed the limit, since the limit only counts.
* Traits come and go together (`TwoTraits`) to halve the state space: the loop
  reads them in separate steps, so no property depends on their combination.
* Symmetry is used for cameras, controllers and URLs in safety runs only.

Deadlock is checked except in `bridge_live`, where in static mode the bridge has
nothing left to do once the list is done.

### Fairness

* `Discovery!FairSpec`: weak fairness of the scan task (sleeps and probes end,
  connections time out) and of the reader. Nothing is assumed of cameras.
* `CameraBridge!FairSpec`: weak fairness of each branch. tokio's select! polls
  its branches in random order, so a ready branch is not starved. Discovery
  owes nothing.
* `MotionPump!FairSpec`: a call to a reachable camera ends, sleeps end, and time
  passes. `Recovers` asks the camera to stay reachable and in time from some
  point on; before it, anything may fail.
* `MediaEndpoint!Spec`: strong fairness of the outbound worker and of the seed
  driver. Both are futures of the one executor, which polls every one that was
  woken before it blocks again; they are enabled again after every exchange, and
  disabled by it, hence strong. Nothing is assumed of controllers, cameras or
  go2rtc: that an exchange may never end is the second half of
  `OnlyGo2rtcDelays`.
* `StreamManager!FairSpec`: weak fairness of the one task that starts up and then
  handles events. The HTTP client has no timeout, and nothing makes go2rtc answer.
  For the readiness probe that is in the model: `ProbeHangs` may come at any
  probe, `HungProbeEnds` is under no fairness, and `StartsUnlessProbeHangs` names
  the hung probe as the only thing that holds the start-up. The later calls of
  the stream manager are assumed to return, if only with an error: one that hangs
  would stop the stream manager, and nothing else. go2rtc may stay down; a
  liveness property that is broken then says "unless faulty".

## 4. Proofs

TLAPS checks every invariant of the passing runs, the refinements and the one
action property, for every value of the constants that meets the named
assumptions. TLC had found each of them to hold on the instances of section 3
first, and the strengthenings of `CameraBridge` and `StreamManager` too, as
invariants of throw-away runs on the same instances. What follows names, for
each, the inductive invariant and why the property alone is not one.

### From discovery to the endpoint

The three refinements make one chain: what is proved over `SlotLife` holds of
the loop (`BridgeImplementsSlotLife`), what is proved of the loop over
`DiscoveryFeed` holds of it on the scan (`ScanImplementsFeed`), and the slot map
the loop starts from is what `Binding` promises (`SlotMapBinds`).

* `Discovery_proof`. `GracePeriodIsExact` speaks of the state between scans;
  `CountInv` carries it through one: the count of a camera is the length of the
  run of scans that missed it (`Run`), already brought up to date for those
  found, and one behind for those still to be swept. `ScanImplementsFeed` maps a
  connection to a new camera to `Announce`, the sweep of a missed camera to `Notice`
  or `Withdraw`, and the rest of the scan to stutters.
* `CameraBridge_proof`. `OneEndpointEach` and `ReachableIsStreamed` follow from
  `BridgeInv`, which relates `live`, the slots, the names and the event in hand
  at each lock section (`EndpointInv`, `HandInv`). `BridgeImplementsSlotLife`
  adds `SeedInv` (an unseeded slot has sent no seed); the slot's owner is the
  one camera the allocator's map has there, and the map being one-to-one is
  what makes that a function. No channel bound matters: all of this holds when
  events were overwritten. `RegistryIsTheFeed` looks at a queue through what it
  settles on (`SettlesAppend`, `SettlesTail`).
  The rest needs that nothing was overwritten: `BusInv` says for each camera
  that the queued events alternate between arrival and departure from what the
  endpoint shows now (`Orderly`) and settle on what the registry says, which
  gives `EndpointsAreTheRegistry`; `OnePumpEach` needs it to know that an
  `Added` finds its slot without a pump handle (`PumpInv`). `NoOtherPanic`
  rests on `OverrunInv`: only an overwritten event is ever reported as lag.
* `SlotMap_proof`: `SlotInv`, the conjunction of `OneCameraPerSlot`,
  `SlotInRange` and `DiskNeverContradicts`, gives `NoSharedSlot`, `SlotsExist` and
  `FileAgrees`. None is inductive alone: `assign` looks for a free slot in
  memory, but a load replaces memory by the file, so the file must be one-to-one
  too; and that a new entry does not contradict the file needs the new slot's
  camera to have no usable entry there, which is `DiskNeverContradicts` before the
  step. `PoolsFull` is from `PoolInv`: until an entry is dropped, memory extends
  the file, and "the pool this camera missed is used up" holds of both.
  `EndpointsStay` is from `StableInv`: a slot reaches its caller only once it is
  in the file; in the truncated state it lives in memory alone, and a crash there
  counts as a lost save. `SlotMapBinds` maps each step, restart or crash to a
  `Give`, a stutter, or the loss of the record.

### The two threads of an endpoint

`SlotLife_proof` proves `SlotLifeInv`: a published name is the owner's, only the
owner shows, and the owner stays (`OwnerStays`). The composed proofs show that a
step of the endpoint is a step or a stutter of `SlotLife` (`SlotSteps`) and reuse
its lemmas:

* `MediaEndpoint_proof`: `OffersAreForTheOwnersName` from `AskedInv`: an offer is
  recorded with the published name (`AskedSteps`), which is the owner's
  (`LifeInv`), and the owner stays. `StreamName` may give two cameras one name;
  that no offer asks for another camera's (`OffersOnlyToTheOwner`) has the
  premise `OwnNames`, that it does not.
  `SeedsOnlyFromTheOwner` needs `SeedInv`: the one seed is unsent, queued, in the
  table or gone. `AnswersHaveWork` and `AnswersAreFresh` rest on `AnswerInv`: a
  buffered answer is to its session's last offer, belongs to no other session, is
  not among the delivered, and all of these are older than the offer being
  exchanged (`Settled`). None of these uses a value of the bounds on offers, sessions
  or the table; `MediaTypes` adds that the work channel never holds more than the
  offers made (`OffersCounted`).
* `SensorEndpoint_proof`: `InfoOnlyOfTheOwner`; `MotionFromWhereTheOwnerWas`
  from `PumpInv`: every running pump, detached or not, is at an address the owner
  has had; `MotionOfTheOwner`, that the motion is the owner's own as long as no
  address has passed from one camera to another (`AddressesKept`); and
  `FilterHidesNothing` from `DataInv`: every version a controller or a read in
  progress holds is some number of bumps behind the current one (`Behind`), no
  more than there have been. Fewer bumps than the modulus leave zero as the only
  way to be current, and between the swap and its bump a read can have taken
  the new flag with the old version, never the other way round.

They assume that `StreamName` maps cameras to names, and that `None` is neither;
where more is needed it is a premise of the theorem.

### The motion pump and the stream manager

* `MotionPump_proof`. `AlwaysRenewedInTime`, for all constants with
  `RenewInterval + PullTimeout + 4 * MaxDelay <= Lifetime`: `IInv` adds that the
  pump's clock and the camera's lifetime are at most one delay apart (`InStep`,
  `Fresh`) and how old the subscription is at most at each point between two
  renewals (`OnTime`). The four delays are the reply to the last renewal (or to the
  subscription), both legs of the last poll, and the renewal on its way.
  `FlagIsTheCameras`, from `FlagInv`: a batch is on its way only while a pull
  returns, and what fails or is aborted there is lost together with its
  subscription; the lemmas say what `Delivered` makes of a queue that is extended
  or split. `FewSubscriptions`, from `OldInv`: the
  abandoned subscriptions end at least one backoff apart, and the last of them
  one backoff before the present one.
* `StreamManager_proof`. Both theorems speak of an idle manager only.
  `StreamInv` covers the time in between: a camera is pending from the event
  that announces it to the end of the calls for it. As long as nothing failed,
  the last queued event about a camera, or the one in hand if none is queued, says
  what the registry says now (`QueueInv`, `HandInv`); a registration is only made
  on a free name (`AddInv`), or go2rtc would keep the old one; a camera alone on its
  name that is not pending is served what the registry has (`AloneInv`); and a
  shared name serves nothing, or one of its cameras is pending, has no URL or has
  the URL that is served (`NameInv`).

### Assumptions, and what stays with TLC

The assumptions are those the modules state: special values (`NoSlot`, `None`,
`Nowhere`, `Gone`, ...) are not ordinary ones, capacities and the threshold are
at least 1, builds are pairs of naturals with `withOccupancy <= capacity`
(`main.rs:74-79`), `MaxBumps < VersionModulus`, a scan is no shorter than a backoff,
and the margin above. Stream names need not be one-to-one.

Nothing of the models was written with RECURSIVE operators. `Delivered` and
`Older` of `MotionPump` choose the index that matters instead of filtering a
sequence, since what a fold or a filter computes needs induction with an
operator parameter, which the provers cannot instantiate; arguments by a least
or greatest index go through the well-foundedness of the naturals
(`LeastIndex`, `GreatestIndex`).

Model-checked only: liveness under fairness (`AbsentIsLost`, `Converges`,
`Recovers`, `OnlyGo2rtcDelays`, `StartsUnlessProbeHangs`, `SyncsUnlessFaulty`), which the
prover does not handle, and the four violations of section 5.

## 5. Findings

1. **A crash inside `save` loses the mapping** (`slots_same_endpoint`).
   `slot_persistence.rs:8-9` promises the same endpoint always; `fs::write`
   truncates first. `EndpointStableWhileIntact` is what does hold.
2. **A camera that changes address is never re-announced**
   (`discovery_stale_address`). `discovery.rs:164-167` updates the scan's own map
   only; the registry, its stream and its pump keep the old address until the
   camera is missed for three scans. If another camera takes that address
   meanwhile, the pump believes it, and go2rtc dials it:
   `MotionFromTheOwnersAddress` and `OffersAskForTheOwner` say how far this goes.
3. **An endpoint can lack its pre-allocated video stream** (`bridge_no_video`).
   A slot counts as seeded before it is known whether the camera has a video
   encoder, and `hooks.rs:192-193` answers with stream 1 regardless.
4. **go2rtc is not kept in sync** (`streams_unsynced`). One failed call, or one
   go2rtc restart, leaves a camera without a stream while everything runs.

Smaller divergences met while modelling, without a run: `slot_persistence.rs:77`
says `assign` returns `None` when the *relevant* pool is exhausted, but it spills
into the other (its test `occupancy_preference` relies on that); hence
`cluster_occupancy.rs:3-5`, "only added to a camera endpoint when the underlying
ONVIF device advertises a MotionAlarm topic", does not hold for a camera that
spilled. `hooks.rs:8-11` and `:35` say runtime allocations are rejected, the hooks
accept them (`AvStreams`). `go2rtc_manager.rs:65`, "until it responds or timeout",
is not so of a probe in flight, which has no timeout (`go2rtc_api.rs:184`;
`ProbeHangs`). `main.rs:66-74` declares 8 cameras where the
repository's `README.md:10` speaks of up to 16. Its `README.md:172-174` documents
`MATTER_PORT`, `MATTER_PASSCODE` and `MATTER_DISCRIMINATOR`, but whatever port the
node is told of (`main.rs:214`), the sockets bind `MATTER_SOCKET_BIND_ADDR`
(`:330`, `:346`), and passcode and discriminator are only logged (`:170-175`).

## 6. Not modelled

* The node's endpoint table and handler chain (`main.rs:405-455`, `593-659`),
  sockets and rs-matter set-up: literals without state. That `MAX_CAMERAS` agrees
  with the table is for the compiler and a reader to see.
* The numbers of video streams: the external handler gives them out. That an
  answer names stream 1 (`hooks.rs:193-196`) is discussed with finding 3.
* Identity beyond the id: two devices with one serial number are one camera to
  every map of the bridge, and to the model.
* `config.rs`, `mdns.rs`: parsing and a socket helper, no state. `types.rs`: data.
* Examples, scripts, containers, and the Matter stack: outside.
* Poisoned locks: no handler panics while holding one.

## 7. Plan

Done: every component that keeps state, three abstract specifications with their
refinements, start-up, the two threads of an endpoint, and proofs of all their
safety properties.

Left:

1. The safety parts of the liveness arguments as invariants of their own: what a
   pump has to do next, in bounded steps, to be subscribed again (`Recovers`);
   that a queue of events shortens with each step of the loop (`Converges`).
2. `EndpointsFollowRegistry` after an overwritten event: which endpoints can
   still differ from the registry, and until when.
