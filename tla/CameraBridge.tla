---------------------------- MODULE CameraBridge ----------------------------
(***************************************************************************)
(* The bridge loop (crates/bridge/src/onvif_bridge.rs:157-302) with the    *)
(* registry it writes and listens to (crates/onvif-client/src/registry.rs):*)
(* discovery events update the registry, whose broadcast events come back  *)
(* to the same loop and turn cameras into Matter endpoints.                *)
(*                                                                         *)
(* Granularity.  The loop is one task of a current-thread runtime and its  *)
(* handlers have no await, so no other task of the bridge thread runs      *)
(* inside one.  The Matter executor runs on the main thread and reads      *)
(* stream_names and the slots at any time, so a handler is cut wherever it *)
(* releases one of their locks; the map slot_map of onvif_bridge.rs:62 is  *)
(* read by this loop only and is changed with the step that precedes it.   *)
(*                                                                         *)
(* The allocator's answer is Chosen of SlotAlloc; its file is the subject  *)
(* of SlotMap, here it only leaves an arbitrary consistent map to start    *)
(* from.                                                                   *)
(***************************************************************************)
EXTENDS DiscoveryFeed, SlotAlloc

CONSTANTS Build,        \* MAX_CAMERAS and WITH_OCCUPANCY_CAMERAS
          RegistryCap,  \* capacity of the broadcast channel
          Names,        \* go2rtc stream names
          StreamName,   \* sanitize_stream_name: it may map two ids to one name
          None          \* an absent name or camera

ASSUME BridgeAssumption ==
  /\ IsBuild(Build)
  /\ RegistryCap \in Nat \ {0}
  /\ StreamName \in [Cameras -> Names]
  /\ None \notin Cameras \cup Names

VARIABLES
  registry,  \* CameraRegistry.cameras: the ids in it
  queue,     \* what the broadcast channel still holds for the loop
  lagged,    \* the next recv() of the loop returns Err(Lagged)
  pc,        \* where the loop is
  current,   \* the registry event being handled
  slotOf,    \* SlotMap.map
  live,      \* MediaBridge.slot_map
  names,     \* stream_names, read by the WebRTC hooks
  occupant,  \* the camera each CameraSlot shows, None if not occupied
  seeded,    \* slots marked as seeded
  seeds,     \* stream seeds sent to the Matter thread, per slot
  pumps,     \* motion pump tasks running, per slot: 0, 1 or Several
  handles,   \* slots with a handle in motion_tasks
  overrun    \* an event was overwritten before the loop read it (history)

busVars    == <<registry, queue, lagged, overrun>>
sharedVars == <<names, occupant>>
taskVars   == <<seeded, seeds, pumps, handles>>
bridgeVars == <<busVars, pc, current, slotOf, live, sharedVars, taskVars>>
vars       == <<feedVars, bridgeVars>>

Slots == AllSlots(Build)

(* Two or more pumps on one slot: aborting one leaves one or Several. *)
Several == 2

BridgeInit ==
  /\ registry = {} /\ queue = <<>> /\ lagged = FALSE /\ overrun = FALSE
  /\ pc = "select"
  /\ current = None
  /\ slotOf \in {m \in PartialMap(Slots) : Injective(m)}
  /\ live = EmptyMap
  /\ names = [s \in Slots |-> None]
  /\ occupant = [s \in Slots |-> None]
  /\ seeded = {}
  /\ seeds = [s \in Slots |-> 0]
  /\ pumps = [s \in Slots |-> 0]
  /\ handles = {}

Init == FeedInit /\ BridgeInit
-----------------------------------------------------------------------------
(***************************************************************************)
(* The registry.  A broadcast into a full channel overwrites the oldest    *)
(* event; the receiver is told so once, by an error.                       *)
(***************************************************************************)
Broadcast(e) ==
  IF Len(queue) < RegistryCap
    THEN /\ queue' = Append(queue, e)
         /\ UNCHANGED <<lagged, overrun>>
    ELSE /\ queue' = Append(Tail(queue), e)
         /\ lagged' = TRUE
         /\ overrun' = TRUE

AddCamera(c, t) ==
  /\ registry' = registry \cup {c}
  /\ Broadcast(IF c \in registry THEN Updated(c, t) ELSE Added(c, t))

RemoveCameraKeepsEntry(c) ==
  /\ registry' = registry
  /\ IF c \in registry
       THEN Broadcast(Removed(c))
       ELSE UNCHANGED <<queue, lagged, overrun>>

RemoveCamera(c) ==
  /\ registry' = registry \ {c}
  /\ IF c \in registry
       THEN Broadcast(Removed(c))
       ELSE UNCHANGED <<queue, lagged, overrun>>
-----------------------------------------------------------------------------
(***************************************************************************)
(* The select! of the loop.  At "select" both branches wait; after a       *)
(* Lagged error its pattern `Ok(event)` has disabled the registry branch,  *)
(* and at "discovery" the loop waits for the discovery channel alone.      *)
(***************************************************************************)
Selecting == pc \in {"select", "discovery"}

HandleDiscovery(e) ==
  CASE e.kind = "found" -> AddCamera(e.id, e.traits)
    [] e.kind = "lost"  -> RemoveCamera(e.id)
    [] OTHER            -> UNCHANGED busVars

TakeDiscovery ==
  /\ Selecting
  /\ Take
  /\ HandleDiscovery(Head(inbox))
  /\ pc' = "select"
  /\ UNCHANGED <<current, slotOf, live, sharedVars, taskVars>>

TakeLagged ==
  /\ pc = "select"
  /\ lagged
  /\ lagged' = FALSE
  /\ pc' = "discovery"
  /\ UNCHANGED <<feedVars, registry, queue, overrun, current, slotOf, live,
                 sharedVars, taskVars>>

PanicOnClosedDiscovery ==
  /\ Selecting
  /\ inbox = <<>> /\ sender = "gone"
  /\ pc' = "panicked"
  /\ UNCHANGED <<feedVars, busVars, current, slotOf, live, sharedVars, taskVars>>

(* The sender is gone too: no branch is left, and select! panics. *)
Panic ==
  /\ pc = "discovery"
  /\ inbox = <<>> /\ sender = "gone"
  /\ pc' = "panicked"
  /\ UNCHANGED <<feedVars, busVars, current, slotOf, live, sharedVars, taskVars>>

TakeRegistry(kind) ==
  /\ pc = "select" /\ ~lagged
  /\ queue # <<>> /\ Head(queue).kind = kind
  /\ queue' = Tail(queue)
  /\ UNCHANGED <<feedVars, registry, lagged, overrun>>
-----------------------------------------------------------------------------
(***************************************************************************)
(* RegistryEvent::Added: assign a slot, publish the stream name, then the  *)
(* endpoint, then seed its video stream and start its motion pump.         *)
(***************************************************************************)
AssignSlotOfAbsent(c, wants) ==
  \E s \in Slots :
    /\ IF slotOf[c] # NoSlot THEN s = slotOf[c]
                             ELSE Chosen(live, Build, wants, s)
    /\ slotOf' = [slotOf EXCEPT ![c] = s]
    /\ live' = [live EXCEPT ![c] = s]

AssignSlot(c, wants) ==
  \E s \in Slots :
    /\ IF slotOf[c] # NoSlot THEN s = slotOf[c]
                             ELSE Chosen(slotOf, Build, wants, s)
    /\ slotOf' = [slotOf EXCEPT ![c] = s]
    /\ live' = [live EXCEPT ![c] = s]

TakeAdded ==
  /\ TakeRegistry("added")
  /\ AssignSlot(Head(queue).id, Head(queue).traits.motion)
  /\ current' = Head(queue)
  /\ pc' = "name"
  /\ UNCHANGED <<sharedVars, taskVars>>

TakeAddedPoolFull ==
  /\ TakeRegistry("added")
  /\ slotOf[Head(queue).id] = NoSlot
  /\ Free(slotOf, Preferred(Build, Head(queue).traits.motion)) = {}
  /\ UNCHANGED <<pc, current, slotOf, live, sharedVars, taskVars>>

TakeAddedNoSlot ==
  /\ TakeRegistry("added")
  /\ slotOf[Head(queue).id] = NoSlot
  /\ Exhausted(slotOf, Build)
  /\ UNCHANGED <<pc, current, slotOf, live, sharedVars, taskVars>>

SlotInHand == slotOf[current.id]

PublishName ==
  /\ pc = "name"
  /\ names' = [names EXCEPT ![SlotInHand] = StreamName[current.id]]
  /\ pc' = "populate"
  /\ UNCHANGED <<feedVars, busVars, current, slotOf, live, occupant, taskVars>>

Populate ==
  /\ pc = "populate"
  /\ occupant' = [occupant EXCEPT ![SlotInHand] = current.id]
  /\ pc' = "furnish"
  /\ UNCHANGED <<feedVars, busVars, current, slotOf, live, names, taskVars>>

SeedAlways(s, t) ==
  /\ seeded' = seeded \cup {s}
  /\ seeds' = IF t.video THEN [seeds EXCEPT ![s] = @ + 1] ELSE seeds

(***************************************************************************)
(* The slot counts as seeded whether or not the camera has a profile with  *)
(* a video encoder to seed from.                                           *)
(***************************************************************************)
Seed(s, t) ==
  /\ seeded' = seeded \cup {s}
  /\ seeds' = IF s \notin seeded /\ t.video THEN [seeds EXCEPT ![s] = @ + 1]
                                            ELSE seeds

(***************************************************************************)
(* Inserting the new handle drops an old one, which detaches its task.     *)
(***************************************************************************)
StartPump(s, t) ==
  IF t.motion /\ s \in OccupancyPool(Build)
    THEN /\ pumps' = [pumps EXCEPT ![s] = IF @ = 0 THEN 1 ELSE Several]
         /\ handles' = handles \cup {s}
    ELSE UNCHANGED <<pumps, handles>>

Furnish ==
  /\ pc = "furnish"
  /\ Seed(SlotInHand, current.traits)
  /\ StartPump(SlotInHand, current.traits)
  /\ pc' = "select"
  /\ current' = None
  /\ UNCHANGED <<feedVars, busVars, slotOf, live, sharedVars>>
-----------------------------------------------------------------------------
(***************************************************************************)
(* RegistryEvent::Updated refreshes an endpoint the camera already has.    *)
(***************************************************************************)
TakeUpdated ==
  /\ TakeRegistry("updated")
  /\ LET c == Head(queue).id IN
       occupant' = IF live[c] # NoSlot THEN [occupant EXCEPT ![live[c]] = c]
                                       ELSE occupant
  /\ UNCHANGED <<pc, current, slotOf, live, names, taskVars>>

TakeRemovedNameFirst ==
  /\ TakeRegistry("removed")
  /\ LET c == Head(queue).id IN
       IF live[c] # NoSlot
         THEN /\ live' = [live EXCEPT ![c] = NoSlot]
              /\ names' = [names EXCEPT ![live[c]] = None]
              /\ current' = Head(queue)
              /\ pc' = "unname"
         ELSE UNCHANGED <<live, names, current, pc>>
  /\ UNCHANGED <<slotOf, occupant, taskVars>>

(***************************************************************************)
(* RegistryEvent::Removed: clear the endpoint, then withdraw the stream    *)
(* name and abort the motion pump.  The motion flag keeps its value and    *)
(* the seeded stream stays.                                                *)
(***************************************************************************)
TakeRemoved ==
  /\ TakeRegistry("removed")
  /\ LET c == Head(queue).id IN
       IF live[c] # NoSlot
         THEN /\ live' = [live EXCEPT ![c] = NoSlot]
              /\ occupant' = [occupant EXCEPT ![live[c]] = None]
              /\ current' = Head(queue)
              /\ pc' = "unname"
         ELSE UNCHANGED <<live, occupant, current, pc>>
  /\ UNCHANGED <<slotOf, names, taskVars>>

DropHandle(s) ==
  /\ handles' = handles \ {s}
  /\ UNCHANGED pumps

AbortPump(s) ==
  /\ handles' = handles \ {s}
  /\ \E left \in {0, 1, Several} :
       /\ pumps[s] = Several <=> left # 0
       /\ pumps' = IF s \in handles THEN [pumps EXCEPT ![s] = left] ELSE pumps

Unname ==
  /\ pc = "unname"
  /\ names' = [names EXCEPT ![SlotInHand] = None]
  /\ AbortPump(SlotInHand)
  /\ pc' = "select"
  /\ current' = None
  /\ UNCHANGED <<feedVars, busVars, slotOf, live, occupant, seeded, seeds>>
-----------------------------------------------------------------------------
Loop ==
  \/ TakeDiscovery \/ TakeLagged \/ Panic
  \/ TakeAdded \/ TakeAddedNoSlot \/ PublishName \/ Populate \/ Furnish
  \/ TakeUpdated
  \/ TakeRemoved \/ Unname

Next == (FeedNext /\ UNCHANGED bridgeVars) \/ Loop

Spec == Init /\ [][Next]_vars

(***************************************************************************)
(* The runtime polls the loop whenever something it waits for is ready,    *)
(* and select! picks the first branch to poll at random, so neither branch *)
(* starves the other.  Discovery has no obligation to announce anything.   *)
(***************************************************************************)
RegistryBranch ==
  \/ TakeAdded \/ TakeAddedNoSlot \/ PublishName \/ Populate \/ Furnish
  \/ TakeUpdated \/ TakeRemoved \/ Unname

FairSpec == Spec /\ WF_vars(TakeDiscovery) /\ WF_vars(RegistryBranch)
-----------------------------------------------------------------------------
TypeOK ==
  /\ FeedTypeOK
  /\ registry \in SUBSET Cameras
  /\ queue \in Seq(RegistryEvents) /\ Len(queue) <= RegistryCap
  /\ lagged \in BOOLEAN
  /\ pc \in {"select", "discovery", "name", "populate", "furnish", "unname",
             "panicked"}
  /\ current \in RegistryEvents \cup {None}
  /\ slotOf \in PartialMap(Slots)
  /\ live \in PartialMap(Slots)
  /\ names \in [Slots -> Names \cup {None}]
  /\ occupant \in [Slots -> Cameras \cup {None}]
  /\ seeded \in SUBSET Slots
  /\ seeds \in [Slots -> Nat]
  /\ pumps \in [Slots -> {0, 1, Several}]
  /\ handles \in SUBSET Slots
  /\ overrun \in BOOLEAN

(***************************************************************************)
(* At every instant the Matter thread may look, an endpoint that is        *)
(* reachable has the stream name of the camera it shows: an SDP offer for  *)
(* a reachable camera never fails to find its go2rtc stream.  Rests on the *)
(* order of the lock sections in the Added and Removed handlers.           *)
(***************************************************************************)
ReachableHasStream ==
  \A s \in Slots : occupant[s] # None => names[s] = StreamName[occupant[s]]

(***************************************************************************)
(* A camera never shows on two endpoints, nor two cameras on one, and it   *)
(* shows on the slot the allocator keeps for it.                           *)
(***************************************************************************)
OneEndpointPerCamera ==
  /\ Injective(slotOf)
  /\ \A s \in Slots : occupant[s] # None => slotOf[occupant[s]] = s

(***************************************************************************)
(* The registry is where discovery is, but for the events in the channel.  *)
(***************************************************************************)
RegistryFollowsFeed ==
  \A c \in Cameras : Settles(inbox, c, c \in registry) <=> c \in known

(***************************************************************************)
(* Unless the broadcast overwrote an event, the endpoints are where the    *)
(* registry is, but for the events in the queue: the camera each queue     *)
(* ends with an arrival of is the one that will show.  A camera with no    *)
(* slot while none is free is left out.                                    *)
(***************************************************************************)
Homeless(c) == slotOf[c] = NoSlot /\ Exhausted(slotOf, Build)
Shown(c)    == \E s \in Slots : occupant[s] = c

EndpointsFollowRegistry ==
  ~overrun /\ pc \in {"select", "discovery"} =>
    \A c \in Cameras :
      ~Homeless(c) => (Settles(queue, c, Shown(c)) <=> c \in registry)

(***************************************************************************)
(* Unless an event was overwritten, motion pumps run for shown cameras     *)
(* only, one each: a pump that outlives its camera or a second one would   *)
(* keep writing the motion flag of the endpoint.                           *)
(***************************************************************************)
PumpsAreOwned ==
  ~overrun /\ pc = "select" =>
    \A s \in Slots :
      /\ pumps[s] <= 1
      /\ pumps[s] = 1 => occupant[s] # None /\ s \in OccupancyPool(Build)

(***************************************************************************)
(* Each slot, seen from the Matter thread between any two lock sections,   *)
(* lives the life of SlotLife: also when events were overwritten, traits   *)
(* changed, or a camera was announced twice.  What the Matter-side modules *)
(* show on top of SlotLife thus holds of the bridge.                       *)
(***************************************************************************)
OwnerOf(s) == IF \E c \in Cameras : slotOf[c] = s
                THEN CHOOSE c \in Cameras : slotOf[c] = s
                ELSE None

SlotOf(s) == INSTANCE SlotLife
               WITH owner <- OwnerOf(s), occupant <- occupant[s],
                    name <- names[s], seeds <- seeds[s],
                    pumping <- (pumps[s] > 0),
                    HasOccupancy <- (s \in OccupancyPool(Build))

ImplementsSlotLife ==
  /\ \A s \in Slots : SlotOf(s)!LifeInit
  /\ [][\A s \in Slots : [SlotOf(s)!LifeNext]_(SlotOf(s)!lifeVars)]_vars

(***************************************************************************)
(* The end of static discovery does not end the bridge: its select! goes   *)
(* on with the registry branch, and the bridge thread panics only if the   *)
(* broadcast channel was shorter than the camera list and overwrote an     *)
(* event the loop had not read.                                            *)
(***************************************************************************)
PanicsOnlyIfOverrun == pc = "panicked" => overrun

(***************************************************************************)
(* A camera discovery keeps announced ends up on an endpoint for good, if  *)
(* a slot is left for it and no event was overwritten; and one that stays  *)
(* withdrawn ends up on none.                                              *)
(***************************************************************************)
Converges ==
  \A c \in Cameras :
    /\ <>[](c \in known) => <>[](Shown(c) \/ Homeless(c) \/ overrun)
    /\ <>[](c \notin known) => <>[](~Shown(c) \/ overrun)
-----------------------------------------------------------------------------
(***************************************************************************)
(* hooks.rs:192-193, "We always pre-allocate a single video stream per     *)
(* camera": not for a camera without a video encoder at its first arrival  *)
(* (violation run).                                                        *)
(***************************************************************************)
AlwaysPreallocated ==
  pc = "select" => \A s \in Slots : occupant[s] # None => seeds[s] = 1
=============================================================================
