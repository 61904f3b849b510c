------------------------- MODULE CameraBridge_proof -------------------------
(***************************************************************************)
(* Proofs about CameraBridge, for any cameras, traits, names, build and    *)
(* channel capacities, in this order: its types; that cameras and          *)
(* endpoints are one to one and a reachable endpoint has its stream; that  *)
(* each slot lives the life of SlotLife; that the registry is what         *)
(* discovery announced; and, as long as the broadcast channel overwrote    *)
(* nothing, that the loop does not panic, that the endpoints are the       *)
(* registry's cameras and that each has one motion pump at most.           *)
(***************************************************************************)
EXTENDS CameraBridge, SequenceTheorems, TLAPS

USE TraitsAssumption, FeedAssumption, NoSlotAssumption, BridgeAssumption

LEMMA SlotsAreNat ==
  /\ Slots \subseteq Nat
  /\ OccupancyPool(Build) \subseteq Slots /\ PlainPool(Build) \subseteq Slots
  /\ NoSlot \notin Slots
BY DEF Slots, AllSlots, OccupancyPool, PlainPool, IsBuild, BuildRec

(***************************************************************************)
(* What a registry event is, whatever its kind.                            *)
(***************************************************************************)
LEMMA RegistryEventFacts ==
  ASSUME NEW e \in RegistryEvents
  PROVE  /\ e.id \in Cameras
         /\ e.kind \in {"added", "updated", "removed"}
BY DEF RegistryEvents

LEMMA DiscoveryEventFacts ==
  ASSUME NEW e \in DiscoveryEvents
  PROVE  /\ e.id \in Cameras
         /\ e.kind \in {"found", "lost", "unreachable"}
         /\ e.kind = "found" => e.traits \in Traits
BY DEF DiscoveryEvents

LEMMA EventTypes ==
  ASSUME NEW c \in Cameras
  PROVE  /\ CameraLost(c) \in DiscoveryEvents
         /\ CameraUnreachable(c) \in DiscoveryEvents
         /\ Removed(c) \in RegistryEvents
         /\ \A t \in Traits :
              /\ CameraFound(c, t) \in DiscoveryEvents
              /\ Added(c, t) \in RegistryEvents
              /\ Updated(c, t) \in RegistryEvents
BY DEF CameraFound, CameraLost, CameraUnreachable, DiscoveryEvents,
       Added, Updated, Removed, RegistryEvents
-----------------------------------------------------------------------------
(* The feed keeps its types, whoever takes its events. *)
LEMMA FeedInitTypeOK == FeedInit => FeedTypeOK
BY DEF FeedInit, FeedTypeOK

LEMMA SendTypes ==
  ASSUME FeedTypeOK, NEW e \in DiscoveryEvents, Send(e)
  PROVE  inbox' \in Seq(DiscoveryEvents) /\ Len(inbox') <= ChanCap
BY DEF FeedTypeOK, Send

LEMMA FeedNextTypeOK ==
  ASSUME FeedTypeOK, FeedNext
  PROVE  FeedTypeOK'
<1> USE DEF FeedTypeOK
<1>1. ASSUME NEW c \in Cameras, NEW t \in Traits,
             Announce(c, t) \/ AnnounceStatic(c, t)
      PROVE  FeedTypeOK'
  <2>1. inbox' \in Seq(DiscoveryEvents) /\ Len(inbox') <= ChanCap
    BY <1>1, EventTypes, SendTypes DEF Announce, AnnounceStatic
  <2> QED
    BY <1>1, <2>1 DEF Announce, AnnounceStatic
<1>2. ASSUME NEW c \in Cameras, Withdraw(c) \/ Notice(c) PROVE FeedTypeOK'
  <2>1. inbox' \in Seq(DiscoveryEvents) /\ Len(inbox') <= ChanCap
    BY <1>2, EventTypes, SendTypes DEF Withdraw, Notice
  <2> QED
    BY <1>2, <2>1 DEF Withdraw, Notice
<1>3. CASE FailStatic \/ CloseStatic
  BY <1>3 DEF FailStatic, CloseStatic
<1> QED
  BY <1>1, <1>2, <1>3 DEF FeedNext

LEMMA TakeTypeOK ==
  ASSUME FeedTypeOK, Take
  PROVE  FeedTypeOK' /\ Head(inbox) \in DiscoveryEvents
BY DEF FeedTypeOK, Take
-----------------------------------------------------------------------------
(* The broadcast channel never holds more than its capacity. *)
LEMMA BroadcastTypes ==
  ASSUME TypeOK, NEW e \in RegistryEvents, Broadcast(e)
  PROVE  /\ queue' \in Seq(RegistryEvents) /\ Len(queue') <= RegistryCap
         /\ lagged' \in BOOLEAN /\ overrun' \in BOOLEAN
<1>1. CASE Len(queue) < RegistryCap
  <2>1. queue' = Append(queue, e) /\ UNCHANGED <<lagged, overrun>>
    BY <1>1 DEF Broadcast
  <2> QED
    BY <1>1, <2>1, AppendProperties DEF TypeOK
<1>2. CASE ~(Len(queue) < RegistryCap)
  <2>1. queue' = Append(Tail(queue), e) /\ lagged' = TRUE /\ overrun' = TRUE
    BY <1>2 DEF Broadcast
  <2>2. Tail(queue) \in Seq(RegistryEvents) /\ Len(Tail(queue)) = Len(queue) - 1
    BY <1>2 DEF TypeOK
  <2> QED
    BY <1>2, <2>1, <2>2, AppendProperties DEF TypeOK
<1> QED
  BY <1>1, <1>2

LEMMA HandleDiscoveryTypes ==
  ASSUME TypeOK, NEW e \in DiscoveryEvents, HandleDiscovery(e)
  PROVE  /\ registry' \in SUBSET Cameras
         /\ queue' \in Seq(RegistryEvents) /\ Len(queue') <= RegistryCap
         /\ lagged' \in BOOLEAN /\ overrun' \in BOOLEAN
<1>1. CASE e.kind = "found"
  <2>1. AddCamera(e.id, e.traits) /\ e.id \in Cameras /\ e.traits \in Traits
    BY <1>1, DiscoveryEventFacts DEF HandleDiscovery
  <2> QED
    BY <2>1, EventTypes, BroadcastTypes DEF AddCamera, TypeOK
<1>2. CASE e.kind = "lost"
  <2>1. RemoveCamera(e.id) /\ e.id \in Cameras
    BY <1>2, DiscoveryEventFacts DEF HandleDiscovery
  <2> QED
    BY <2>1, EventTypes, BroadcastTypes DEF RemoveCamera, TypeOK
<1>3. CASE e.kind \notin {"found", "lost"}
  BY <1>3 DEF HandleDiscovery, busVars, TypeOK
<1> QED
  BY <1>1, <1>2, <1>3
-----------------------------------------------------------------------------
(***************************************************************************)
(* The handlers of the loop, each with the camera it is about: what a step *)
(* takes from the queue or goes on with.                                   *)
(***************************************************************************)
LEMMA TakeRegistryFacts ==
  ASSUME TypeOK, NEW kind, TakeRegistry(kind)
  PROVE  /\ Head(queue) \in RegistryEvents
         /\ Head(queue).id \in Cameras
         /\ queue' \in Seq(RegistryEvents) /\ Len(queue') <= RegistryCap
<1>1. /\ Head(queue) \in RegistryEvents
      /\ queue' \in Seq(RegistryEvents) /\ Len(queue') = Len(queue) - 1
  BY HeadTailProperties DEF TakeRegistry, TypeOK
<1> QED
  BY <1>1, RegistryEventFacts DEF TypeOK

(* The slot a camera is given: its own, or one that no camera has.         *)
LEMMA AssignSlotFacts ==
  ASSUME NEW c \in Cameras, NEW wants, AssignSlot(c, wants)
  PROVE  \E s \in Slots :
           /\ \/ slotOf[c] = s
              \/ slotOf[c] = NoSlot /\ s \in Free(slotOf, AllSlots(Build))
           /\ slotOf' = [slotOf EXCEPT ![c] = s]
           /\ live' = [live EXCEPT ![c] = s]
<1>1. PICK s \in Slots :
        /\ IF slotOf[c] # NoSlot THEN s = slotOf[c]
                                 ELSE Chosen(slotOf, Build, wants, s)
        /\ slotOf' = [slotOf EXCEPT ![c] = s]
        /\ live' = [live EXCEPT ![c] = s]
  BY DEF AssignSlot
<1>2. Chosen(slotOf, Build, wants, s) => s \in Free(slotOf, AllSlots(Build))
  BY DEF Chosen, First, Free, Slots
<1> QED
  BY <1>1, <1>2

(***************************************************************************)
(* Whatever the loop goes on with, it was handed an event to start with,   *)
(* and the camera of an Added event has its slot from the first step.      *)
(***************************************************************************)
Arriving == pc \in {"name", "populate"}
Bringing == pc \in {"name", "populate", "furnish"}
Busy     == Bringing \/ pc = "unname"

TypeInv ==
  /\ TypeOK
  /\ Busy => current \in RegistryEvents
  /\ Bringing => SlotInHand \in Slots

LEMMA InitTypeInv == Init => TypeInv
<1> SUFFICES ASSUME Init PROVE TypeInv
  OBVIOUS
<1>1. FeedTypeOK
  BY FeedInitTypeOK DEF Init
<1>2. slotOf \in PartialMap(Slots) /\ live \in PartialMap(Slots)
  BY DEF Init, BridgeInit, EmptyMap, PartialMap
<1>3. seeds \in [Slots -> Nat] /\ pumps \in [Slots -> {0, 1, Several}]
  BY DEF Init, BridgeInit
<1>4. /\ registry = {} /\ queue \in Seq(RegistryEvents) /\ Len(queue) = 0
      /\ names \in [Slots -> Names \cup {None}]
      /\ occupant \in [Slots -> Cameras \cup {None}]
  BY DEF Init, BridgeInit
<1>5. lagged \in BOOLEAN /\ overrun \in BOOLEAN
  BY DEF Init, BridgeInit
<1>6. pc = "select" /\ current = None /\ seeded = {} /\ handles = {}
  BY DEF Init, BridgeInit
<1> QED
  BY <1>1, <1>2, <1>3, <1>4, <1>5, <1>6 DEF TypeInv, TypeOK, Busy, Bringing

LEMMA NextTypeInv == TypeInv /\ [Next]_vars => TypeInv'
<1> SUFFICES ASSUME TypeInv, [Next]_vars PROVE TypeInv'
  OBVIOUS
<1> USE DEF TypeInv, TypeOK, Busy, Bringing, busVars, sharedVars, taskVars
<1>0. UNCHANGED feedVars => FeedTypeOK'
  BY DEF FeedTypeOK, feedVars
<1>00. UNCHANGED <<slotOf, current>> => SlotInHand' = SlotInHand
  BY DEF SlotInHand
<1>1. CASE FeedNext /\ UNCHANGED bridgeVars
  BY <1>00, <1>1, FeedNextTypeOK DEF bridgeVars
<1>2. CASE TakeDiscovery
  <2>1. FeedTypeOK' /\ Head(inbox) \in DiscoveryEvents
    BY <1>2, TakeTypeOK DEF TakeDiscovery
  <2>2. /\ registry' \in SUBSET Cameras
        /\ queue' \in Seq(RegistryEvents) /\ Len(queue') <= RegistryCap
        /\ lagged' \in BOOLEAN /\ overrun' \in BOOLEAN
    BY <1>2, <2>1, HandleDiscoveryTypes DEF TakeDiscovery
  <2> QED
    BY <1>2, <2>1, <2>2 DEF TakeDiscovery
<1>3. CASE TakeLagged \/ Panic
  BY <1>0, <1>00, <1>3 DEF TakeLagged, Panic
<1>4. CASE TakeAdded
  <2>1. PICK c \in Cameras, s \in Slots :
          /\ current' = Head(queue) /\ c = current'.id
          /\ slotOf' = [slotOf EXCEPT ![c] = s]
          /\ live' = [live EXCEPT ![c] = s]
    BY <1>4, TakeRegistryFacts, AssignSlotFacts DEF TakeAdded
  <2>2. slotOf' \in PartialMap(Slots) /\ live' \in PartialMap(Slots)
    BY <2>1 DEF PartialMap
  <2>3. SlotInHand' = s
    BY <2>1 DEF SlotInHand, PartialMap
  <2> QED
    BY <1>0, <1>4, <2>1, <2>2, <2>3, TakeRegistryFacts DEF TakeAdded, TakeRegistry
<1>5. CASE TakeAddedNoSlot
  BY <1>0, <1>00, <1>5, TakeRegistryFacts DEF TakeAddedNoSlot, TakeRegistry
<1>6. CASE PublishName \/ Populate
  <2>1. current.id \in Cameras
    BY <1>6, RegistryEventFacts DEF PublishName, Populate
  <2>2. /\ names' \in [Slots -> Names \cup {None}]
        /\ occupant' \in [Slots -> Cameras \cup {None}]
    BY <1>6, <2>1 DEF PublishName, Populate
  <2> QED
    BY <1>0, <1>00, <1>6, <2>2 DEF PublishName, Populate
<1>7. CASE Furnish
  <2>1. seeds' \in [Slots -> Nat]
    <3>1. seeds' = seeds \/ seeds' = [seeds EXCEPT ![SlotInHand] = seeds[SlotInHand] + 1]
      BY <1>7 DEF Furnish, Seed
    <3> QED
      BY <3>1
  <2>2. pumps' \in [Slots -> {0, 1, Several}]
    BY <1>7 DEF Furnish, StartPump
  <2>3. seeded' \subseteq Slots /\ handles' \subseteq Slots
    BY <1>7 DEF Furnish, Seed, StartPump
  <2> QED
    BY <1>0, <1>7, <2>1, <2>2, <2>3 DEF Furnish
<1>8. CASE TakeUpdated
  <2>1. occupant' \in [Slots -> Cameras \cup {None}]
    BY <1>8, TakeRegistryFacts DEF TakeUpdated
  <2> QED
    BY <1>0, <1>00, <1>8, <2>1, TakeRegistryFacts DEF TakeUpdated, TakeRegistry
<1>9. CASE TakeRemoved
  <2>1. /\ occupant' \in [Slots -> Cameras \cup {None}]
        /\ current' \in {current, Head(queue)}
        /\ pc' # pc => pc' = "unname" /\ current' = Head(queue)
    BY <1>9 DEF TakeRemoved
  <2>2. live' \in PartialMap(Slots)
    BY <1>9 DEF TakeRemoved, PartialMap
  <2> QED
    BY <1>0, <1>00, <1>9, <2>1, <2>2, TakeRegistryFacts DEF TakeRemoved, TakeRegistry
<1>10. CASE Unname
  <2>1. names' \in [Slots -> Names \cup {None}]
    BY <1>10 DEF Unname
  <2>2. pumps' \in [Slots -> {0, 1, Several}] /\ handles' \subseteq Slots
    BY <1>10 DEF Unname, AbortPump
  <2> QED
    BY <1>0, <1>00, <1>10, <2>1, <2>2 DEF Unname
<1>11. CASE UNCHANGED vars
  BY <1>0, <1>00, <1>11 DEF vars, bridgeVars
<1> QED
  BY <1>1, <1>2, <1>3, <1>4, <1>5, <1>6, <1>7, <1>8, <1>9, <1>10, <1>11
     DEF Next, Loop

LEMMA TypeInvHolds == Spec => []TypeInv
BY InitTypeInv, NextTypeInv, PTL DEF Spec

(***************************************************************************)
(* onvif_bridge.rs:157-302, registry.rs: the loop and the registry keep    *)
(* their types, the broadcast channel its capacity.                        *)
(***************************************************************************)
THEOREM BridgeTypes == Spec => []TypeOK
<1>1. TypeInv => TypeOK
  BY DEF TypeInv
<1> QED
  BY <1>1, TypeInvHolds, PTL
-----------------------------------------------------------------------------
(***************************************************************************)
(* Cameras and endpoints.  A live camera is on the slot the allocator      *)
(* keeps for it; it shows there under its stream name, but for the one the *)
(* loop is bringing; and nothing shows that is not live.                   *)
(***************************************************************************)
EndpointInv ==
  /\ Injective(slotOf)
  /\ \A c \in Cameras : live[c] # NoSlot =>
       /\ live[c] = slotOf[c]
       /\ occupant[live[c]] = c \/ (Arriving /\ current.id = c)
       /\ names[live[c]] = StreamName[c] \/ (pc = "name" /\ current.id = c)
  /\ \A s \in Slots : occupant[s] # None =>
       live[occupant[s]] = s /\ names[s] = StreamName[occupant[s]]

(* How far the handler in hand is. *)
HandInv ==
  /\ Bringing => live[current.id] = SlotInHand
  /\ pc \in {"populate", "furnish"} => names[SlotInHand] = StreamName[current.id]
  /\ pc = "furnish" => occupant[SlotInHand] = current.id
  /\ pc = "unname" => live[current.id] = NoSlot

BridgeInv == TypeInv /\ EndpointInv /\ HandInv

LEMMA InitBridgeInv == Init => EndpointInv /\ HandInv
BY DEF Init, BridgeInit, EndpointInv, HandInv, EmptyMap, Bringing

(* The slot in hand, while a camera is brought or withdrawn. *)
LEMMA HandFacts ==
  ASSUME BridgeInv, Busy
  PROVE  /\ current.id \in Cameras
         /\ SlotInHand \in Slots \cup {NoSlot}
         /\ \A s \in Slots : s = SlotInHand /\ occupant[s] # None =>
              occupant[s] = current.id
         /\ \A c \in Cameras : live[c] # NoSlot /\ live[c] = SlotInHand =>
              c = current.id
<1> DEFINE d == current.id
<1>1. d \in Cameras /\ SlotInHand = slotOf[d]
  BY RegistryEventFacts DEF BridgeInv, TypeInv, SlotInHand
<1> HIDE DEF d
<1>2. slotOf \in PartialMap(Slots) /\ occupant \in [Slots -> Cameras \cup {None}]
  BY DEF BridgeInv, TypeInv, TypeOK
<1>3. \A c \in Cameras : live[c] # NoSlot /\ live[c] = slotOf[d] => c = d
  BY <1>1, <1>2 DEF BridgeInv, EndpointInv, Injective, Bound, PartialMap
<1>4. \A s \in Slots : s = slotOf[d] /\ occupant[s] # None => occupant[s] = d
  BY <1>1, <1>2, <1>3, SlotsAreNat DEF BridgeInv, EndpointInv
<1> QED
  BY <1>1, <1>2, <1>3, <1>4 DEF d, PartialMap

(* An update finds the camera on its endpoint. *)
LEMMA UpdatedKeepsOccupant ==
  ASSUME BridgeInv, TakeUpdated
  PROVE  occupant' = occupant
<1>1. TypeOK
  BY DEF BridgeInv, TypeInv
<1>2. PICK c \in Cameras : c = Head(queue).id
  BY <1>1, TakeRegistryFacts DEF TakeUpdated
<1>3. /\ pc = "select"
      /\ occupant' = IF live[c] # NoSlot THEN [occupant EXCEPT ![live[c]] = c]
                                         ELSE occupant
  BY <1>2 DEF TakeUpdated, TakeRegistry
<1> QED
  BY <1>1, <1>2, <1>3 DEF BridgeInv, EndpointInv, Arriving, TypeOK, PartialMap

LEMMA NextBridgeInv ==
  ASSUME BridgeInv, [Next]_vars
  PROVE  EndpointInv' /\ HandInv'
<1> USE DEF EndpointInv, HandInv, Arriving, Bringing, Busy
<1>0. TypeOK /\ TypeInv'
  BY NextTypeInv DEF BridgeInv, TypeInv
<1>1. ASSUME UNCHANGED <<slotOf, live, names, occupant>>, ~Busy, ~Busy'
      PROVE  EndpointInv' /\ HandInv'
  BY <1>1 DEF BridgeInv, SlotInHand
<1>2. CASE UNCHANGED bridgeVars
  BY <1>2 DEF BridgeInv, bridgeVars, SlotInHand, sharedVars
<1>3. CASE TakeDiscovery \/ TakeLagged \/ Panic \/ TakeAddedNoSlot
  BY <1>1, <1>3 DEF TakeDiscovery, TakeLagged, Panic, TakeAddedNoSlot,
     TakeRegistry, Selecting, sharedVars
<1>4. CASE TakeAdded
  <2>1. PICK c \in Cameras, s \in Slots :
          /\ current'.id = c
          /\ slotOf[c] = s \/ (slotOf[c] = NoSlot /\ s \in Free(slotOf, Slots))
          /\ slotOf' = [slotOf EXCEPT ![c] = s]
          /\ live' = [live EXCEPT ![c] = s]
    BY <1>0, <1>4, TakeRegistryFacts, AssignSlotFacts DEF TakeAdded, Slots
  <2>2. pc = "select" /\ pc' = "name" /\ UNCHANGED <<names, occupant>>
    BY <1>4 DEF TakeAdded, TakeRegistry, sharedVars
  <2>3. Injective(slotOf')
    BY <1>0, <2>1 DEF BridgeInv, TypeOK, PartialMap, Injective, Bound, Free, Used
  <2>4. SlotInHand' = s
    BY <1>0, <2>1 DEF SlotInHand, TypeOK, PartialMap
  <2> QED
    BY <1>0, <2>1, <2>2, <2>3, <2>4, SlotsAreNat DEF BridgeInv, TypeOK, PartialMap
<1>5. CASE PublishName
  <2>1. PICK c \in Cameras, s \in Slots : c = current.id /\ s = SlotInHand
    BY <1>5, HandFacts DEF PublishName, BridgeInv, TypeInv
  <2>2. names' = [names EXCEPT ![s] = StreamName[c]]
    BY <1>5, <2>1 DEF PublishName
  <2>3. /\ pc = "name" /\ pc' = "populate"
        /\ UNCHANGED <<current, slotOf, live, occupant, SlotInHand>>
    BY <1>5 DEF PublishName, SlotInHand
  <2> QED
    BY <1>0, <2>1, <2>2, <2>3, HandFacts, SlotsAreNat DEF BridgeInv, TypeOK, PartialMap
<1>6. CASE Populate
  <2>1. PICK c \in Cameras, s \in Slots : c = current.id /\ s = SlotInHand
    BY <1>6, HandFacts DEF Populate, BridgeInv, TypeInv
  <2>2. occupant' = [occupant EXCEPT ![s] = c]
    BY <1>6, <2>1 DEF Populate
  <2>3. /\ pc = "populate" /\ pc' = "furnish"
        /\ UNCHANGED <<current, slotOf, live, names, SlotInHand>>
    BY <1>6 DEF Populate, SlotInHand
  <2> QED
    BY <1>0, <2>1, <2>2, <2>3, HandFacts, SlotsAreNat DEF BridgeInv, TypeOK, PartialMap
<1>7. CASE Furnish
  BY <1>7 DEF Furnish, BridgeInv, sharedVars
<1>8. CASE TakeUpdated
  BY <1>1, <1>8, UpdatedKeepsOccupant DEF TakeUpdated, TakeRegistry
<1>9. CASE TakeRemoved
  <2>1. PICK c \in Cameras : c = Head(queue).id
    BY <1>0, <1>9, TakeRegistryFacts DEF TakeRemoved
  <2>2. CASE live[c] = NoSlot
    BY <1>1, <1>9, <2>1, <2>2 DEF TakeRemoved, TakeRegistry
  <2>3. CASE live[c] # NoSlot
    <3>1. PICK s \in Slots : s = live[c]
      BY <1>0, <2>3 DEF TypeOK, PartialMap
    <3>2. /\ pc = "select" /\ pc' = "unname" /\ current'.id = c
          /\ live' = [live EXCEPT ![c] = NoSlot]
          /\ occupant' = [occupant EXCEPT ![s] = None]
          /\ UNCHANGED <<slotOf, names>>
      BY <1>9, <2>1, <2>3, <3>1 DEF TakeRemoved, TakeRegistry
    <3>3. \A d \in Cameras : live[d] = s => d = c
      BY <1>0, <3>1, <3>2, SlotsAreNat DEF BridgeInv, Injective, Bound, TypeOK
    <3> QED
      BY <1>0, <3>1, <3>2, <3>3, SlotsAreNat DEF BridgeInv, TypeOK, PartialMap
  <2> QED
    BY <2>2, <2>3
<1>10. CASE Unname
  <2>1. PICK c \in Cameras, s \in Slots \cup {NoSlot} : c = current.id /\ s = SlotInHand
    BY <1>10, HandFacts DEF Unname
  <2>2. names' = [names EXCEPT ![s] = None]
    BY <1>10, <2>1 DEF Unname
  <2>3. pc = "unname" /\ pc' = "select" /\ UNCHANGED <<slotOf, live, occupant>>
    BY <1>10 DEF Unname
  <2>4. /\ \A d \in Cameras : live[d] # NoSlot => live[d] # s
        /\ \A t \in Slots : occupant[t] # None => t # s
    BY <1>0, <2>1, <2>3, HandFacts, SlotsAreNat DEF BridgeInv, TypeOK
  <2> QED
    BY <1>0, <2>2, <2>3, <2>4 DEF BridgeInv, TypeOK, PartialMap
<1>11. CASE UNCHANGED vars
  BY <1>2, <1>11 DEF vars
<1> QED
  BY <1>2, <1>3, <1>4, <1>5, <1>6, <1>7, <1>8, <1>9, <1>10, <1>11 DEF Next, Loop

LEMMA BridgeInvHolds == Spec => []BridgeInv
<1>1. Init => BridgeInv
  BY InitTypeInv, InitBridgeInv DEF BridgeInv
<1>2. BridgeInv /\ [Next]_vars => BridgeInv'
  BY NextTypeInv, NextBridgeInv DEF BridgeInv
<1> QED
  BY <1>1, <1>2, PTL DEF Spec

LEMMA OccupantFacts ==
  ASSUME BridgeInv, NEW s \in Slots, occupant[s] # None
  PROVE  /\ occupant[s] \in Cameras /\ s # NoSlot
         /\ live[occupant[s]] = s /\ slotOf[occupant[s]] = s
<1>1. occupant \in [Slots -> Cameras \cup {None}]
  BY DEF BridgeInv, TypeInv, TypeOK
<1>2. occupant[s] \in Cameras
  BY <1>1
<1>3. live[occupant[s]] = s /\ s # NoSlot
  BY SlotsAreNat DEF BridgeInv, EndpointInv
<1>4. slotOf[occupant[s]] = s
  BY <1>2, <1>3 DEF BridgeInv, EndpointInv
<1> QED
  BY <1>2, <1>3, <1>4

(***************************************************************************)
(* onvif_bridge.rs:184-298: no camera shows twice, no two share an         *)
(* endpoint, and a camera shows on the slot the allocator keeps for it.    *)
(***************************************************************************)
THEOREM OneEndpointEach == Spec => []OneEndpointPerCamera
<1>1. BridgeInv => OneEndpointPerCamera
  BY OccupantFacts DEF BridgeInv, EndpointInv, OneEndpointPerCamera
<1> QED
  BY <1>1, BridgeInvHolds, PTL

(***************************************************************************)
(* onvif_bridge.rs:191-206 and 272-282: whenever the Matter thread looks,  *)
(* a reachable endpoint has the stream name of its camera.                 *)
(***************************************************************************)
THEOREM ReachableIsStreamed == Spec => []ReachableHasStream
<1>1. BridgeInv => ReachableHasStream
  BY DEF BridgeInv, EndpointInv, ReachableHasStream
<1> QED
  BY <1>1, BridgeInvHolds, PTL
-----------------------------------------------------------------------------
(***************************************************************************)
(* The refinement of SlotLife, for one slot s at a time.                   *)
(***************************************************************************)
OwnerIn(m, s) == IF \E c \in Cameras : m[c] = s
                   THEN CHOOSE c \in Cameras : m[c] = s
                   ELSE None

LEMMA OwnerFacts ==
  ASSUME NEW m \in PartialMap(Slots), Injective(m), NEW s \in Slots
  PROVE  /\ OwnerIn(m, s) \in Cameras \cup {None}
         /\ \A c \in Cameras : OwnerIn(m, s) = c <=> m[c] = s
<1>1. \A c, d \in Cameras : m[c] = s /\ m[d] = s => c = d
  BY SlotsAreNat DEF Injective, Bound
<1>2. CASE \E c \in Cameras : m[c] = s
  <2>1. OwnerIn(m, s) \in Cameras /\ m[OwnerIn(m, s)] = s
    BY <1>2 DEF OwnerIn
  <2> QED
    BY <1>1, <2>1
<1>3. CASE ~\E c \in Cameras : m[c] = s
  BY <1>3 DEF OwnerIn
<1> QED
  BY <1>2, <1>3

LEMMA OwnerNow == \A s \in Slots : OwnerOf(s) = OwnerIn(slotOf, s)
                                 /\ OwnerOf(s)' = OwnerIn(slotOf', s)
BY DEF OwnerOf, OwnerIn

(* A slot is seeded at most once. *)
SeedInv == \A s \in Slots : seeds[s] \in {0, 1} /\ (s \notin seeded => seeds[s] = 0)

LEMMA NextSeedInv ==
  ASSUME TypeInv, SeedInv, [Next]_vars
  PROVE  SeedInv'
<1>1. CASE Furnish
  <2>1. PICK h \in Slots : h = SlotInHand
    BY <1>1 DEF Furnish, TypeInv, Bringing
  <2>2. /\ seeded' = seeded \cup {h}
        /\ seeds' = seeds \/ (h \notin seeded /\ seeds' = [seeds EXCEPT ![h] = @ + 1])
    BY <1>1, <2>1 DEF Furnish, Seed
  <2> QED
    BY <2>2 DEF SeedInv, TypeInv, TypeOK
<1>2. CASE ~Furnish
  <2>1. UNCHANGED <<seeded, seeds>>
    BY <1>2 DEF Next, Loop, vars, bridgeVars, taskVars, TakeDiscovery, TakeLagged,
       Panic, TakeAdded, TakeAddedNoSlot, PublishName, Populate, TakeUpdated,
       TakeRemoved, Unname
  <2> QED
    BY <2>1 DEF SeedInv
<1> QED
  BY <1>1, <1>2

(* What each step of the loop is to a slot. *)
LEMMA SlotStep ==
  ASSUME BridgeInv, BridgeInv', SeedInv, [Next]_vars, NEW s \in Slots
  PROVE  [SlotOf(s)!LifeNext]_(SlotOf(s)!lifeVars)
<1> USE DEF TypeInv, TypeOK
<1>0. TypeInv /\ TypeInv' /\ Injective(slotOf) /\ Injective(slotOf')
  BY DEF BridgeInv, EndpointInv
<1>1. slotOf' = slotOf => OwnerOf(s)' = OwnerOf(s)
  BY DEF OwnerOf
<1>2. ASSUME UNCHANGED <<slotOf, occupant, names, seeds, pumps>>
      PROVE  UNCHANGED SlotOf(s)!lifeVars
  BY <1>1, <1>2 DEF SlotOf!lifeVars
<1>3. CASE UNCHANGED bridgeVars
  BY <1>2, <1>3 DEF bridgeVars, sharedVars, taskVars
<1>4. CASE TakeDiscovery \/ TakeLagged \/ Panic \/ TakeAddedNoSlot
  BY <1>2, <1>4 DEF TakeDiscovery, TakeLagged, Panic, TakeAddedNoSlot,
     sharedVars, taskVars
<1>5. CASE TakeAdded
  <2>1. PICK c \in Cameras, h \in Slots :
          /\ slotOf[c] = h \/ (slotOf[c] = NoSlot /\ h \in Free(slotOf, Slots))
          /\ slotOf' = [slotOf EXCEPT ![c] = h]
    BY <1>0, <1>5, TakeRegistryFacts, AssignSlotFacts DEF TakeAdded, Slots
  <2>2. UNCHANGED <<occupant, names, seeds, pumps>>
    BY <1>5 DEF TakeAdded, sharedVars, taskVars
  <2>3. CASE slotOf[c] = h
    <3>1. slotOf' = slotOf
      BY <1>0, <2>1, <2>3 DEF PartialMap
    <3> QED
      BY <1>2, <2>2, <3>1
  <2>4. CASE slotOf[c] = NoSlot /\ h \in Free(slotOf, Slots)
    <3>1. \A d \in Cameras : slotOf[d] # h
      BY <2>4, SlotsAreNat DEF Free, Used, Bound
    <3>2. CASE s = h
      <4>1. OwnerOf(s) = None
        <5>1. /\ OwnerIn(slotOf, s) \in Cameras \cup {None}
              /\ \A d \in Cameras : OwnerIn(slotOf, s) = d <=> slotOf[d] = s
          BY <1>0, OwnerFacts
        <5> QED
          BY <3>1, <3>2, <5>1, OwnerNow
      <4>2. slotOf'[c] = s
        <5>1. slotOf \in [Cameras -> Slots \cup {NoSlot}]
          BY <1>0 DEF PartialMap
        <5> QED
          BY <2>1, <3>2, <5>1
      <4>3. OwnerOf(s)' = c
        BY <1>0, <4>2, OwnerNow, OwnerFacts
      <4> QED
        BY <2>2, <4>1, <4>3 DEF SlotOf!LifeNext, SlotOf!Bind
    <3>3. CASE s # h
      <4>1. \A d \in Cameras : slotOf'[d] = s <=> slotOf[d] = s
        BY <1>0, <2>1, <2>4, <3>3, SlotsAreNat DEF PartialMap
      <4>2. OwnerOf(s)' = OwnerOf(s)
        BY <1>0, <4>1, OwnerNow, OwnerFacts
      <4> QED
        BY <2>2, <4>2 DEF SlotOf!lifeVars
    <3> QED
      BY <3>2, <3>3
  <2> QED
    BY <2>1, <2>3, <2>4
<1>6. CASE PublishName
  <2>1. PICK c \in Cameras, h \in Slots : c = current.id /\ h = SlotInHand
    BY <1>0, <1>6, HandFacts DEF PublishName, Busy, Bringing
  <2>2. names' = [names EXCEPT ![h] = StreamName[c]]
    BY <1>6, <2>1 DEF PublishName
  <2>3. UNCHANGED <<slotOf, occupant, seeds, pumps>>
    BY <1>6 DEF PublishName, taskVars
  <2>4. CASE s = h
    <3>1. OwnerOf(s) = c
      BY <1>0, <2>1, <2>4, OwnerNow, OwnerFacts DEF SlotInHand
    <3>2. names'[s] = StreamName[c]
      BY <1>0, <2>2, <2>4
    <3> QED
      BY <1>1, <2>3, <3>1, <3>2 DEF SlotOf!LifeNext, SlotOf!PublishName
  <2>5. CASE s # h
    <3>1. names'[s] = names[s]
      BY <1>0, <2>2, <2>5
    <3> QED
      BY <1>1, <2>3, <3>1 DEF SlotOf!lifeVars
  <2> QED
    BY <2>4, <2>5
<1>7. CASE Populate
  <2>1. PICK c \in Cameras, h \in Slots : c = current.id /\ h = SlotInHand
    BY <1>0, <1>7, HandFacts DEF Populate, Busy, Bringing
  <2>2. occupant' = [occupant EXCEPT ![h] = c]
    BY <1>7, <2>1 DEF Populate
  <2>3. UNCHANGED <<slotOf, names, seeds, pumps>>
    BY <1>7 DEF Populate, taskVars
  <2>4. CASE s = h
    <3>1. OwnerOf(s) = c
      BY <1>0, <2>1, <2>4, OwnerNow, OwnerFacts DEF SlotInHand
    <3>2. names[s] = StreamName[c]
      BY <1>7, <2>1, <2>4 DEF BridgeInv, HandInv, Populate
    <3>3. occupant'[s] = c
      BY <1>0, <2>2, <2>4
    <3> QED
      BY <1>1, <2>3, <3>1, <3>2, <3>3 DEF SlotOf!LifeNext, SlotOf!Show
  <2>5. CASE s # h
    <3>1. occupant'[s] = occupant[s]
      BY <1>0, <2>2, <2>5
    <3> QED
      BY <1>1, <2>3, <3>1 DEF SlotOf!lifeVars
  <2> QED
    BY <2>4, <2>5
<1>8. CASE Furnish
  <2>1. PICK h \in Slots : h = SlotInHand
    BY <1>0, <1>8 DEF Furnish, Bringing
  <2>2. UNCHANGED <<slotOf, names, occupant>>
    BY <1>8 DEF Furnish, sharedVars
  <2>3. CASE s = h
    <3>1. occupant[s] # None
      BY <1>0, <1>8, <2>1, <2>3, HandFacts
         DEF BridgeInv, HandInv, Furnish, Busy, Bringing
    <3>2. seeds'[s] \in {seeds[s], 1}
      BY <1>0, <1>8, <2>1, <2>3 DEF Furnish, Seed, SeedInv
    <3>3. \/ pumps'[s] = pumps[s]
          \/ pumps'[s] \in {1, 2} /\ s \in OccupancyPool(Build)
      BY <1>0, <1>8, <2>1, <2>3 DEF Furnish, StartPump, Several
    <3>4. \/ (pumps'[s] > 0) = (pumps[s] > 0)
          \/ (pumps'[s] > 0) = TRUE /\ (s \in OccupancyPool(Build)) = TRUE
      BY <3>3
    <3> QED
      BY <1>1, <2>2, <3>1, <3>2, <3>4 DEF SlotOf!LifeNext, SlotOf!Furnish
  <2>4. CASE s # h
    <3>1. seeds'[s] = seeds[s] /\ pumps'[s] = pumps[s]
      BY <1>0, <1>8, <2>1, <2>4 DEF Furnish, Seed, StartPump
    <3> QED
      BY <1>1, <2>2, <3>1 DEF SlotOf!lifeVars
  <2> QED
    BY <2>3, <2>4
<1>9. CASE TakeUpdated
  BY <1>2, <1>9, UpdatedKeepsOccupant DEF TakeUpdated, taskVars
<1>10. CASE TakeRemoved
  <2>1. /\ UNCHANGED <<slotOf, names, seeds, pumps>>
        /\ \/ occupant' = occupant
           \/ \E h : occupant' = [occupant EXCEPT ![h] = None]
    BY <1>10 DEF TakeRemoved, taskVars
  <2>2. occupant'[s] \in {occupant[s], None}
    BY <1>0, <2>1
  <2> QED
    BY <1>1, <2>1, <2>2 DEF SlotOf!LifeNext, SlotOf!Clear, SlotOf!lifeVars
<1>11. CASE Unname
  <2>1. PICK h \in Slots \cup {NoSlot} : h = SlotInHand
    BY <1>11, HandFacts DEF Unname, Busy
  <2>2. /\ names' = [names EXCEPT ![h] = None] /\ AbortPump(h)
        /\ UNCHANGED <<slotOf, occupant, seeds>>
    BY <1>11, <2>1 DEF Unname
  <2>3. CASE s = h
    <3>1. occupant[s] = None
      BY <1>0, <1>11, <2>1, <2>3, HandFacts, SlotsAreNat
         DEF BridgeInv, EndpointInv, HandInv, Unname, Busy
    <3>2. names'[s] = None
      BY <1>0, <2>2, <2>3
    <3>3. pumps'[s] = pumps[s] \/ (pumps[s] = 2 <=> pumps'[s] # 0)
      BY <1>0, <2>2, <2>3 DEF AbortPump, Several
    <3>4. \/ (pumps'[s] > 0) = (pumps[s] > 0)
          \/ (pumps'[s] > 0) = FALSE
      BY <1>0, <3>3 DEF Several
    <3> QED
      BY <1>1, <2>2, <3>1, <3>2, <3>4 DEF SlotOf!LifeNext, SlotOf!Unname
  <2>4. CASE s # h
    <3>1. names'[s] = names[s] /\ pumps'[s] = pumps[s]
      BY <1>0, <2>2, <2>4 DEF AbortPump
    <3> QED
      BY <1>1, <2>2, <3>1 DEF SlotOf!lifeVars
  <2> QED
    BY <2>3, <2>4
<1>12. CASE UNCHANGED vars
  BY <1>3, <1>12 DEF vars
<1> QED
  BY <1>3, <1>4, <1>5, <1>6, <1>7, <1>8, <1>9, <1>10, <1>11, <1>12 DEF Next, Loop

(***************************************************************************)
(* onvif_bridge.rs:157-302: what the loop does to the slots, seen between  *)
(* any two lock sections, is the life SlotLife describes, whatever cameras *)
(* do and whichever events are overwritten: all that is proved of an       *)
(* endpoint over SlotLife holds of the bridge.                             *)
(***************************************************************************)
THEOREM BridgeImplementsSlotLife == Spec => ImplementsSlotLife
<1>1. Init => \A s \in Slots : SlotOf(s)!LifeInit
  <2> SUFFICES ASSUME Init, NEW s \in Slots PROVE SlotOf(s)!LifeInit
    OBVIOUS
  <2>1. OwnerOf(s) \in Cameras \cup {None}
    BY OwnerNow, OwnerFacts DEF Init, BridgeInit
  <2>2. /\ occupant[s] = None /\ names[s] = None /\ seeds[s] = 0
        /\ (pumps[s] > 0) = FALSE
    BY DEF Init, BridgeInit
  <2> QED
    BY <2>1, <2>2 DEF SlotOf!LifeInit
<1>2. Init => SeedInv
  BY DEF Init, BridgeInit, SeedInv
<1>3. SeedInv /\ BridgeInv /\ [Next]_vars => SeedInv'
  BY NextSeedInv DEF BridgeInv
<1>4. BridgeInv /\ BridgeInv' /\ SeedInv /\ [Next]_vars
        => [\A s \in Slots : [SlotOf(s)!LifeNext]_(SlotOf(s)!lifeVars)]_vars
  BY SlotStep
<1> QED
  BY <1>1, <1>2, <1>3, <1>4, BridgeInvHolds, PTL DEF Spec, ImplementsSlotLife
-----------------------------------------------------------------------------
(***************************************************************************)
(* What a queue of events settles, as events enter and leave it.           *)
(***************************************************************************)
Tells(e, c)     == e.id = c /\ e.kind \in Arrivals \cup Departures
After(e, c, was) == IF Tells(e, c) THEN e.kind \in Arrivals ELSE was

LEMMA SettlesEmpty ==
  ASSUME NEW c, NEW was \in BOOLEAN
  PROVE  Settles(<<>>, c, was) <=> was
BY DEF Settles, About

LEMMA SettlesAppend ==
  ASSUME NEW S, NEW q \in Seq(S), NEW e \in S, NEW c, NEW was \in BOOLEAN
  PROVE  Settles(Append(q, e), c, was) <=> After(e, c, Settles(q, c, was))
<1> DEFINE n == Len(q) + 1
<1>1. /\ DOMAIN q = 1 .. Len(q) /\ DOMAIN Append(q, e) = 1 .. n
      /\ \A i \in 1 .. Len(q) : Append(q, e)[i] = q[i] /\ i < n /\ i # n
      /\ Append(q, e)[n] = e /\ n \in 1 .. n
      /\ 1 .. n = (1 .. Len(q)) \cup {n}
  BY AppendProperties
<1> HIDE DEF n
<1>2. About(q, c) \subseteq 1 .. Len(q) /\ About(q, c) \subseteq Nat
  BY <1>1 DEF About
<1>3. CASE Tells(e, c)
  <2>1. About(Append(q, e), c) = About(q, c) \cup {n}
    BY <1>1, <1>3 DEF About, Tells
  <2>2. n \in About(Append(q, e), c)
    BY <2>1
  <2>3. \A j \in About(Append(q, e), c) : j <= n
    BY <1>1, <1>2, <2>1 DEF n
  <2>4. \A i \in About(Append(q, e), c) :
          (\A j \in About(Append(q, e), c) : j <= i) => i = n
    BY <1>1, <1>2, <2>1 DEF n
  <2> QED
    BY <1>1, <1>3, <2>2, <2>3, <2>4 DEF Settles, After
<1>4. CASE ~Tells(e, c)
  <2>1. About(Append(q, e), c) = About(q, c)
    BY <1>1, <1>4 DEF About, Tells
  <2>2. \A i \in About(q, c) : Append(q, e)[i] = q[i]
    BY <1>1, <1>2
  <2> QED
    BY <1>4, <2>1, <2>2 DEF Settles, After
<1> QED
  BY <1>3, <1>4

LEMMA SettlesTail ==
  ASSUME NEW S, NEW q \in Seq(S), q # <<>>, NEW c, NEW was \in BOOLEAN
  PROVE  Settles(q, c, was) <=> Settles(Tail(q), c, After(Head(q), c, was))
<1> DEFINE t == Tail(q)
<1>1. /\ t \in Seq(S) /\ Len(t) = Len(q) - 1 /\ Head(q) = q[1]
      /\ Len(q) \in Nat /\ Len(t) \in Nat
      /\ DOMAIN q = 1 .. Len(q) /\ DOMAIN t = 1 .. Len(t)
      /\ \A i \in 1 .. Len(t) : t[i] = q[i + 1]
  BY HeadTailProperties
<1> HIDE DEF t
<1>2. \A i \in Nat : i + 1 \in About(q, c) /\ i # 0 <=> i \in About(t, c)
  BY <1>1 DEF About
<1>3. 1 \in About(q, c) <=> Tells(Head(q), c)
  BY <1>1 DEF About, Tells
<1>4. /\ \A i \in About(q, c) : i \in Nat /\ i # 0 /\ i - 1 \in Nat
      /\ \A i \in About(t, c) : i \in Nat /\ i # 0 /\ t[i] = q[i + 1]
  BY <1>1 DEF About
<1>5. CASE About(t, c) = {}
  <2>1. \A i \in About(q, c) : i = 1 /\ i \in Nat
    <3> SUFFICES ASSUME NEW i \in About(q, c), i # 1 PROVE FALSE
      BY <1>4
    <3>1. i - 1 \in Nat /\ i - 1 # 0 /\ (i - 1) + 1 = i
      BY <1>4
    <3> QED
      BY <1>2, <1>5, <3>1
  <2>2. CASE Tells(Head(q), c)
    <3>1. About(q, c) = {1}
      BY <1>3, <2>1, <2>2
    <3> QED
      BY <1>1, <1>5, <2>2, <3>1 DEF Settles, After, t
  <2>3. CASE ~Tells(Head(q), c)
    <3>1. About(q, c) = {}
      BY <1>3, <2>1, <2>3
    <3> QED
      BY <1>5, <2>3, <3>1 DEF Settles, After, t
  <2> QED
    BY <2>2, <2>3
<1>6. CASE About(t, c) # {}
  <2>1. \A i \in About(t, c) :
          (\A j \in About(t, c) : j <= i) => \A j \in About(q, c) : j <= i + 1
    <3> SUFFICES ASSUME NEW i \in About(t, c), \A j \in About(t, c) : j <= i,
                        NEW j \in About(q, c), j # 1
                 PROVE  j <= i + 1
      BY <1>4
    <3>1. j - 1 \in Nat /\ j - 1 # 0 /\ (j - 1) + 1 = j
      BY <1>4
    <3>2. j - 1 \in About(t, c)
      BY <1>2, <3>1
    <3>3. j - 1 <= i
      BY <3>2
    <3> QED
      BY <1>4, <3>1, <3>3
  <2>2. \A i \in About(q, c) : (\A j \in About(q, c) : j <= i) =>
          /\ i - 1 \in About(t, c) /\ t[i - 1] = q[i]
          /\ \A j \in About(t, c) : j <= i - 1
    <3> SUFFICES ASSUME NEW i \in About(q, c), \A j \in About(q, c) : j <= i
                 PROVE  /\ i - 1 \in About(t, c) /\ t[i - 1] = q[i]
                        /\ \A j \in About(t, c) : j <= i - 1
      OBVIOUS
    <3>1. PICK k \in About(t, c) : TRUE
      BY <1>6
    <3>2. \A j \in About(t, c) : j + 1 <= i /\ j \in Nat /\ j # 0
      BY <1>2, <1>4
    <3>3. i \in Nat /\ i - 1 \in Nat /\ i - 1 # 0 /\ (i - 1) + 1 = i
      BY <1>4, <3>1, <3>2
    <3>4. i - 1 \in About(t, c)
      BY <1>2, <3>3
    <3>5. \A j \in About(t, c) : j <= i - 1
      BY <3>2, <3>3
    <3>6. t[i - 1] = q[i]
      BY <1>4, <3>3, <3>4
    <3> QED
      BY <3>4, <3>5, <3>6
  <2>3. About(q, c) # {}
    BY <1>2, <1>4, <1>6
  <2>4. \A i \in About(t, c) : i + 1 \in About(q, c) /\ q[i + 1] = t[i]
    BY <1>2, <1>4
  <2> QED
    BY <1>6, <2>1, <2>2, <2>3, <2>4 DEF Settles, t
<1> QED
  BY <1>5, <1>6
-----------------------------------------------------------------------------
(* Each event the feed sends says where its camera now is. *)
LEMMA FeedNextFollows ==
  ASSUME TypeOK, RegistryFollowsFeed, FeedNext, registry' = registry
  PROVE  RegistryFollowsFeed'
<1> SUFFICES ASSUME NEW d \in Cameras
             PROVE  Settles(inbox', d, d \in registry) <=> d \in known'
  BY DEF RegistryFollowsFeed
<1>1. /\ inbox \in Seq(DiscoveryEvents)
      /\ (d \in registry) \in BOOLEAN
      /\ Settles(inbox, d, d \in registry) <=> d \in known
  BY DEF TypeOK, FeedTypeOK, RegistryFollowsFeed
<1>2. ASSUME NEW e \in DiscoveryEvents, inbox' = Append(inbox, e)
      PROVE  /\ e.id = d /\ e.kind = "found" => Settles(inbox', d, d \in registry)
             /\ e.id = d /\ e.kind = "lost" => ~Settles(inbox', d, d \in registry)
             /\ e.id # d \/ e.kind = "unreachable" =>
                  (Settles(inbox', d, d \in registry) <=> d \in known)
  <2> DEFINE w == d \in registry
  <2>1. w \in BOOLEAN
    OBVIOUS
  <2> HIDE DEF w
  <2>2. Settles(inbox', d, w) <=> After(e, d, Settles(inbox, d, w))
    BY <1>1, <1>2, <2>1, SettlesAppend
  <2>3. Settles(inbox, d, w) <=> d \in known
    BY <1>1 DEF w
  <2>4. /\ e.id = d /\ e.kind = "found" => Settles(inbox', d, w)
        /\ e.id = d /\ e.kind = "lost" => ~Settles(inbox', d, w)
        /\ e.id # d \/ e.kind = "unreachable" => (Settles(inbox', d, w) <=> d \in known)
    BY <2>2, <2>3 DEF After, Tells, Arrivals, Departures
  <2> QED
    BY <2>4 DEF w
<1>3. ASSUME NEW c \in Cameras, NEW t \in Traits,
             Announce(c, t) \/ AnnounceStatic(c, t)
      PROVE  Settles(inbox', d, d \in registry) <=> d \in known'
  <2>1. /\ CameraFound(c, t) \in DiscoveryEvents
        /\ CameraFound(c, t).id = c /\ CameraFound(c, t).kind = "found"
    BY EventTypes DEF CameraFound
  <2>2. inbox' = Append(inbox, CameraFound(c, t)) /\ known' = known \cup {c}
    BY <1>3 DEF Announce, AnnounceStatic, Send
  <2> QED
    BY <1>2, <2>1, <2>2
<1>4. ASSUME NEW c \in Cameras, Withdraw(c)
      PROVE  Settles(inbox', d, d \in registry) <=> d \in known'
  <2>1. /\ CameraLost(c) \in DiscoveryEvents
        /\ CameraLost(c).id = c /\ CameraLost(c).kind = "lost"
    BY EventTypes DEF CameraLost
  <2>2. inbox' = Append(inbox, CameraLost(c)) /\ known' = known \ {c}
    BY <1>4 DEF Withdraw, Send
  <2> QED
    BY <1>2, <2>1, <2>2
<1>5. ASSUME NEW c \in Cameras, Notice(c)
      PROVE  Settles(inbox', d, d \in registry) <=> d \in known'
  <2>1. /\ CameraUnreachable(c) \in DiscoveryEvents
        /\ CameraUnreachable(c).kind = "unreachable"
    BY EventTypes DEF CameraUnreachable
  <2>2. inbox' = Append(inbox, CameraUnreachable(c)) /\ known' = known
    BY <1>5 DEF Notice, Send
  <2> QED
    BY <1>2, <2>1, <2>2
<1>6. CASE FailStatic \/ CloseStatic
  BY <1>1, <1>6 DEF FailStatic, CloseStatic
<1> QED
  BY <1>3, <1>4, <1>5, <1>6 DEF FeedNext

(* The registry after one discovery event is where the event says. *)
LEMMA HandledDiscovery ==
  ASSUME NEW e \in DiscoveryEvents, HandleDiscovery(e), NEW d \in Cameras
  PROVE  d \in registry' <=> After(e, d, d \in registry)
<1>1. CASE e.kind = "found"
  BY <1>1 DEF HandleDiscovery, AddCamera, After, Tells, Arrivals
<1>2. CASE e.kind = "lost"
  BY <1>2 DEF HandleDiscovery, RemoveCamera, After, Tells, Arrivals, Departures
<1>3. CASE e.kind \notin {"found", "lost"}
  <2>1. ~Tells(e, d)
    BY <1>3, DiscoveryEventFacts DEF Tells, Arrivals, Departures
  <2> QED
    BY <1>3, <2>1 DEF HandleDiscovery, busVars, After
<1> QED
  BY <1>1, <1>2, <1>3

(* The steps that neither the feed nor the registry sees. *)
LEMMA OtherSteps ==
  ASSUME [Next]_vars, ~(FeedNext /\ UNCHANGED bridgeVars), ~TakeDiscovery
  PROVE  UNCHANGED <<feedVars, registry>>
BY DEF Next, Loop, vars, bridgeVars, busVars, TakeLagged, Panic, TakeAdded,
   TakeAddedNoSlot, PublishName, Populate, Furnish, TakeUpdated, TakeRemoved,
   Unname, TakeRegistry

LEMMA NextFollows ==
  ASSUME TypeOK, RegistryFollowsFeed, [Next]_vars
  PROVE  RegistryFollowsFeed'
<1>1. CASE FeedNext /\ UNCHANGED bridgeVars
  BY <1>1, FeedNextFollows DEF bridgeVars, busVars
<1>2. CASE TakeDiscovery
  <2> SUFFICES ASSUME NEW d \in Cameras
               PROVE  Settles(inbox', d, d \in registry') <=> d \in known'
    BY DEF RegistryFollowsFeed
  <2>1. /\ Head(inbox) \in DiscoveryEvents /\ HandleDiscovery(Head(inbox))
        /\ inbox # <<>> /\ inbox' = Tail(inbox) /\ known' = known
        /\ inbox \in Seq(DiscoveryEvents)
    BY <1>2, TakeTypeOK DEF TakeDiscovery, Take, TypeOK, FeedTypeOK
  <2> DEFINE w == d \in registry
             v == d \in registry'
  <2>2. w \in BOOLEAN /\ v \in BOOLEAN /\ (v <=> After(Head(inbox), d, w))
    BY <2>1, HandledDiscovery
  <2>3. Settles(inbox, d, w) <=> d \in known
    BY DEF RegistryFollowsFeed
  <2> HIDE DEF w, v
  <2>4. v = After(Head(inbox), d, w)
    BY <2>2 DEF After
  <2>5. Settles(inbox, d, w) <=> Settles(inbox', d, v)
    BY <2>1, <2>2, <2>4, SettlesTail
  <2>6. Settles(inbox', d, v) <=> d \in known'
    BY <2>1, <2>3, <2>5
  <2> QED
    BY <2>6 DEF v
<1>3. CASE ~(FeedNext /\ UNCHANGED bridgeVars) /\ ~TakeDiscovery
  BY <1>3, OtherSteps DEF RegistryFollowsFeed, feedVars
<1> QED
  BY <1>1, <1>2, <1>3

(***************************************************************************)
(* registry.rs:43-87 and onvif_bridge.rs:165-183: once the loop has read   *)
(* what discovery sent, the registry holds the cameras discovery knows.    *)
(***************************************************************************)
THEOREM RegistryIsTheFeed == Spec => []RegistryFollowsFeed
<1>1. Init => RegistryFollowsFeed
  <2>1. \A d \in Cameras : ~Settles(<<>>, d, FALSE)
    BY SettlesEmpty
  <2>2. Init => known = {} /\ registry = {} /\ inbox = <<>>
    BY DEF Init, FeedInit, BridgeInit
  <2>3. Init => \A d \in Cameras : (d \in registry) = FALSE /\ (d \in known) = FALSE
    BY <2>2
  <2> QED
    BY <2>1, <2>2, <2>3 DEF RegistryFollowsFeed
<1> QED
  BY <1>1, NextFollows, BridgeTypes, PTL DEF Spec
-----------------------------------------------------------------------------
(***************************************************************************)
(* Prefixes of a queue, as events enter and leave it.                      *)
(***************************************************************************)
Prefix(q, n) == SubSeq(q, 1, n)

LEMMA PrefixFacts ==
  ASSUME NEW S, NEW q \in Seq(S), NEW n \in 0 .. Len(q)
  PROVE  /\ Prefix(q, n) \in Seq(S) /\ Len(Prefix(q, n)) = n
         /\ \A i \in 1 .. n : Prefix(q, n)[i] = q[i]
<1>1. \A i \in 1 .. n : q[i] \in S
  BY ElementOfSeq
<1>2. /\ SubSeq(q, 1, n) \in Seq(S)
      /\ Len(SubSeq(q, 1, n)) = IF 1 <= n THEN n - 1 + 1 ELSE 0
      /\ \A i \in 1 .. n - 1 + 1 : SubSeq(q, 1, n)[i] = q[1 + i - 1]
  BY <1>1, SubSeqProperties
<1> QED
  BY <1>2 DEF Prefix

LEMMA PrefixOfAppend ==
  ASSUME NEW S, NEW q \in Seq(S), NEW e \in S, NEW n \in 0 .. Len(q)
  PROVE  Prefix(Append(q, e), n) = Prefix(q, n)
<1> DEFINE a == Append(q, e)
           p == Prefix(q, n)
           r == Prefix(a, n)
<1>1. /\ a \in Seq(S) /\ n \in 0 .. Len(a)
      /\ \A i \in 1 .. n : a[i] = q[i]
  BY AppendProperties
<1>2. p \in Seq(S) /\ Len(p) = n /\ \A i \in 1 .. n : p[i] = q[i]
  BY PrefixFacts
<1> HIDE DEF a, p
<1>3. r \in Seq(S) /\ Len(r) = n /\ \A i \in 1 .. n : r[i] = a[i]
  BY <1>1, PrefixFacts
<1> HIDE DEF r
<1>4. r = p
  BY <1>1, <1>2, <1>3, SeqEqual
<1> QED
  BY <1>4 DEF a, p, r

LEMMA PrefixOfTail ==
  ASSUME NEW S, NEW q \in Seq(S), q # <<>>, NEW n \in 1 .. Len(q)
  PROVE  /\ Prefix(q, n) # <<>> /\ Head(Prefix(q, n)) = Head(q)
         /\ Tail(Prefix(q, n)) = Prefix(Tail(q), n - 1)
<1> DEFINE p == Prefix(q, n)
           r == Prefix(Tail(q), n - 1)
<1>1. /\ Tail(q) \in Seq(S) /\ n - 1 \in 0 .. Len(Tail(q))
      /\ \A i \in 1 .. n - 1 : Tail(q)[i] = q[i + 1]
  BY HeadTailProperties
<1>2. p \in Seq(S) /\ Len(p) = n /\ \A i \in 1 .. n : p[i] = q[i]
  BY PrefixFacts
<1>3. r \in Seq(S) /\ Len(r) = n - 1 /\ \A i \in 1 .. n - 1 : r[i] = q[i + 1]
  BY <1>1, PrefixFacts
<1> HIDE DEF p, r
<1>4. p # <<>> /\ Head(p) = q[1] /\ Head(q) = q[1]
  BY <1>2
<1>5. /\ Tail(p) \in Seq(S) /\ Len(Tail(p)) = n - 1
      /\ \A i \in 1 .. n - 1 : Tail(p)[i] = q[i + 1]
  BY <1>2, <1>4, HeadTailProperties
<1>6. Tail(p) = r
  BY <1>3, <1>5, SeqEqual
<1> QED
  BY <1>4, <1>6 DEF p, r

(***************************************************************************)
(* A queue is orderly for a camera that is here or not when an arrival is  *)
(* announced as new iff the camera is away by then, and what concerns a    *)
(* camera that is here comes while it is.                                  *)
(***************************************************************************)
Orderly(q, c, here) ==
  \A i \in DOMAIN q : q[i].id = c =>
    (q[i].kind = "added" <=> ~Settles(Prefix(q, i - 1), c, here))

LEMMA OrderlyAppend ==
  ASSUME NEW q \in Seq(RegistryEvents), NEW e \in RegistryEvents,
         NEW c \in Cameras, NEW here \in BOOLEAN,
         Orderly(q, c, here),
         e.id = c => (e.kind = "added" <=> ~Settles(q, c, here))
  PROVE  Orderly(Append(q, e), c, here)
<1>1. SUFFICES ASSUME NEW i \in 1 .. Len(q) + 1, Append(q, e)[i].id = c
               PROVE  Append(q, e)[i].kind = "added"
                        <=> ~Settles(Prefix(Append(q, e), i - 1), c, here)
  BY AppendProperties DEF Orderly
<1>2. i - 1 \in 0 .. Len(q)
  OBVIOUS
<1>3. Prefix(Append(q, e), i - 1) = Prefix(q, i - 1)
  BY <1>2, PrefixOfAppend
<1>4. CASE i \in 1 .. Len(q)
  BY <1>1, <1>3, <1>4, AppendProperties DEF Orderly
<1>5. CASE i = Len(q) + 1
  <2>1. Append(q, e)[i] = e
    BY <1>5, AppendProperties
  <2>2. Prefix(q, i - 1) = q
    BY <1>5, SubSeqFull DEF Prefix
  <2> QED
    BY <1>1, <1>3, <2>1, <2>2
<1> QED
  BY <1>4, <1>5

LEMMA OrderlyTail ==
  ASSUME NEW q \in Seq(RegistryEvents), q # <<>>,
         NEW c \in Cameras, NEW here \in BOOLEAN, Orderly(q, c, here)
  PROVE  /\ Head(q).id = c => (Head(q).kind = "added" <=> ~here)
         /\ Orderly(Tail(q), c, After(Head(q), c, here))
<1>1. Head(q).id = c => (Head(q).kind = "added" <=> ~here)
  <2>1. Head(q) = q[1] /\ 1 \in DOMAIN q
    OBVIOUS
  <2>2. Prefix(q, 0) = <<>>
    BY SubSeqEmpty DEF Prefix
  <2> QED
    BY <2>1, <2>2, SettlesEmpty DEF Orderly
<1>2. Orderly(Tail(q), c, After(Head(q), c, here))
  <2>0. SUFFICES ASSUME NEW i \in 1 .. Len(Tail(q)), Tail(q)[i].id = c
                 PROVE  Tail(q)[i].kind = "added" <=>
                   ~Settles(Prefix(Tail(q), i - 1), c, After(Head(q), c, here))
    BY HeadTailProperties DEF Orderly
  <2>1. /\ i \in 1 .. Len(q) /\ i + 1 \in DOMAIN q /\ Tail(q)[i] = q[i + 1]
        /\ (i + 1) - 1 = i
    BY HeadTailProperties
  <2>2. Tail(q)[i].kind = "added" <=> ~Settles(Prefix(q, i), c, here)
    BY <2>0, <2>1 DEF Orderly
  <2> DEFINE p == Prefix(q, i)
  <2>3. p # <<>> /\ Head(p) = Head(q) /\ Tail(p) = Prefix(Tail(q), i - 1)
    BY <2>1, PrefixOfTail
  <2>4. p \in Seq(RegistryEvents)
    BY <2>1, PrefixFacts
  <2> HIDE DEF p
  <2>5. Settles(p, c, here) <=> Settles(Tail(p), c, After(Head(p), c, here))
    BY <2>3, <2>4, SettlesTail
  <2> QED
    BY <2>2, <2>3, <2>5 DEF p
<1> QED
  BY <1>1, <1>2
-----------------------------------------------------------------------------
(***************************************************************************)
(* Where a camera is for the loop, between two events: it has an endpoint. *)
(* The events in the queue are orderly, and lead to where the registry is. *)
(***************************************************************************)
At(c) == live[c] # NoSlot

BusOf(c) ==
  /\ Orderly(queue, c, At(c))
  /\ Settles(queue, c, At(c)) <=> c \in registry

(* Slots are never given back: who finds none left never gets one. *)
LEMMA HomelessStays ==
  ASSUME BridgeInv, [Next]_vars, NEW c \in Cameras, Homeless(c)
  PROVE  Homeless(c)'
<1>1. CASE TakeAdded
  <2>1. TypeOK
    BY DEF BridgeInv, TypeInv
  <2>2. PICK d \in Cameras, h \in Slots :
          /\ slotOf[d] = h \/ (slotOf[d] = NoSlot /\ h \in Free(slotOf, Slots))
          /\ slotOf' = [slotOf EXCEPT ![d] = h]
    BY <1>1, <2>1, TakeRegistryFacts, AssignSlotFacts DEF TakeAdded, Slots
  <2>3. slotOf' = slotOf
    BY <2>1, <2>2 DEF Homeless, Exhausted, Slots, TypeOK, PartialMap
  <2> QED
    BY <2>3 DEF Homeless, Exhausted
<1>2. CASE ~TakeAdded
  <2>1. slotOf' = slotOf
    BY <1>2 DEF Next, Loop, vars, bridgeVars, TakeDiscovery, TakeLagged, Panic,
       TakeAddedNoSlot, PublishName, Populate, Furnish, TakeUpdated, TakeRemoved,
       Unname
  <2> QED
    BY <2>1 DEF Homeless, Exhausted
<1> QED
  BY <1>1, <1>2

(* Who shows is live, and who is live shows or is being brought. *)
LEMMA ShownIsLive ==
  ASSUME BridgeInv, NEW c \in Cameras
  PROVE  /\ Shown(c) => At(c)
         /\ At(c) /\ ~Arriving => Shown(c)
         /\ \A s \in Slots : occupant[s] # None =>
              occupant[s] \in Cameras /\ slotOf[occupant[s]] = s /\ At(occupant[s])
<1>1. /\ live \in PartialMap(Slots)
      /\ occupant \in [Slots -> Cameras \cup {None}]
  BY DEF BridgeInv, TypeInv, TypeOK
<1>2. \A s \in Slots : occupant[s] # None =>
        occupant[s] \in Cameras /\ live[occupant[s]] = s /\ s # NoSlot
  BY OccupantFacts
<1>3. \A d \in Cameras : live[d] # NoSlot =>
        /\ live[d] \in Slots /\ slotOf[d] = live[d]
        /\ ~Arriving => occupant[live[d]] = d
  BY <1>1 DEF BridgeInv, EndpointInv, PartialMap
<1>4. Shown(c) => At(c)
  BY <1>2 DEF Shown, At
<1>5. At(c) /\ ~Arriving => Shown(c)
  BY <1>3 DEF Shown, At
<1> QED
  BY <1>2, <1>3, <1>4, <1>5 DEF At

(* The loop's own steps move a camera as the event it takes says. *)
LEMMA TakenEvent ==
  ASSUME BridgeInv, NEW c \in Cameras, ~Homeless(c), BusOf(c),
         TakeAdded \/ TakeAddedNoSlot \/ TakeUpdated \/ TakeRemoved
  PROVE  /\ queue \in Seq(RegistryEvents) /\ queue # <<>>
         /\ queue' = Tail(queue) /\ registry' = registry
         /\ Head(queue).id = c => (Head(queue).kind = "added" <=> ~At(c))
         /\ At(c)' <=> After(Head(queue), c, At(c))
<1> DEFINE e == Head(queue)
<1>0. /\ TypeOK
      /\ queue # <<>> /\ queue' = Tail(queue) /\ registry' = registry
      /\ queue \in Seq(RegistryEvents)
      /\ e \in RegistryEvents /\ e.id \in Cameras
      /\ live \in PartialMap(Slots)
  BY TakeRegistryFacts DEF BridgeInv, TypeInv, TypeOK, TakeAdded,
     TakeAddedNoSlot, TakeUpdated, TakeRemoved, TakeRegistry
<1>1. Tells(e, c) <=> e.id = c
  BY <1>0, RegistryEventFacts DEF Tells, Arrivals, Departures
<1>2. e.id = c => (e.kind = "added" <=> ~At(c))
  <2> DEFINE w == At(c)
  <2>1. w \in BOOLEAN /\ Orderly(queue, c, w)
    BY DEF BusOf, At
  <2> HIDE DEF w
  <2>2. e.id = c => (e.kind = "added" <=> ~w)
    BY <1>0, <2>1, OrderlyTail
  <2> QED
    BY <2>2 DEF w
<1>3. CASE TakeAdded
  <2>1. e.kind = "added" /\ \E h \in Slots : live' = [live EXCEPT ![e.id] = h]
    BY <1>0, <1>3, AssignSlotFacts DEF TakeAdded, TakeRegistry
  <2>2. At(c)' <=> After(e, c, At(c))
    BY <1>0, <1>1, <2>1, SlotsAreNat DEF At, After, Arrivals, PartialMap
  <2> QED
    BY <1>0, <1>2, <2>2
<1>4. CASE TakeAddedNoSlot
  <2>1. e.id # c /\ live' = live
    BY <1>4 DEF TakeAddedNoSlot, Homeless
  <2> QED
    BY <1>0, <1>1, <1>2, <2>1 DEF At, After
<1>5. CASE TakeUpdated
  <2>1. e.kind = "updated" /\ live' = live
    BY <1>5 DEF TakeUpdated, TakeRegistry
  <2> QED
    BY <1>0, <1>1, <1>2, <2>1 DEF At, After, Arrivals
<1>6. CASE TakeRemoved
  <2>1. /\ e.kind = "removed"
        /\ live' = IF live[e.id] # NoSlot THEN [live EXCEPT ![e.id] = NoSlot] ELSE live
    BY <1>6 DEF TakeRemoved, TakeRegistry
  <2>2. At(c)' <=> After(e, c, At(c))
    BY <1>0, <1>1, <2>1 DEF At, After, Arrivals, PartialMap
  <2> QED
    BY <1>0, <1>2, <2>2
<1> QED
  BY <1>3, <1>4, <1>5, <1>6

(* What an event about c that follows the registry does to its camera. *)
LEMMA BusAfterEvent ==
  ASSUME NEW q \in Seq(RegistryEvents), NEW e \in RegistryEvents,
         NEW c \in Cameras, NEW here \in BOOLEAN, NEW known0 \in BOOLEAN,
         Orderly(q, c, here), Settles(q, c, here) <=> known0,
         e.id = c => (e.kind = "added" <=> ~known0)
  PROVE  /\ Orderly(Append(q, e), c, here)
         /\ Settles(Append(q, e), c, here) <=> After(e, c, known0)
BY OrderlyAppend, SettlesAppend DEF After

(***************************************************************************)
(* A step that overwrites nothing broadcasts at most one event, which says *)
(* what the registry does.                                                 *)
(***************************************************************************)
LEMMA BroadcastEvent ==
  ASSUME TypeOK, TakeDiscovery, ~overrun', NEW c \in Cameras
  PROVE  \/ queue' = queue /\ (c \in registry' <=> c \in registry)
         \/ \E e \in RegistryEvents :
              /\ queue' = Append(queue, e)
              /\ e.id = c => (e.kind = "added" <=> c \notin registry)
              /\ c \in registry' <=> After(e, c, c \in registry)
<1> DEFINE d == Head(inbox)
<1>1. d \in DiscoveryEvents /\ HandleDiscovery(d) /\ d.id \in Cameras
  BY TakeTypeOK, DiscoveryEventFacts DEF TakeDiscovery, TypeOK
<1>2. ASSUME NEW e, Broadcast(e) PROVE queue' = Append(queue, e)
  BY <1>2 DEF Broadcast
<1>3. CASE d.kind = "found"
  <2>1. AddCamera(d.id, d.traits) /\ d.traits \in Traits
    BY <1>1, <1>3, DiscoveryEventFacts DEF HandleDiscovery
  <2> DEFINE e == IF d.id \in registry THEN Updated(d.id, d.traits)
                                       ELSE Added(d.id, d.traits)
  <2>2. queue' = Append(queue, e) /\ registry' = registry \cup {d.id}
    BY <1>2, <2>1 DEF AddCamera
  <2>3. /\ e \in RegistryEvents /\ e.id = d.id
        /\ e.kind = IF d.id \in registry THEN "updated" ELSE "added"
    BY <1>1, <2>1, EventTypes DEF Updated, Added
  <2> HIDE DEF e
  <2>4. c \in registry' <=> After(e, c, c \in registry)
    BY <2>2, <2>3 DEF After, Tells, Arrivals
  <2> QED
    BY <2>2, <2>3, <2>4
<1>4. CASE d.kind = "lost"
  <2>1. RemoveCamera(d.id)
    BY <1>1, <1>4 DEF HandleDiscovery
  <2>2. CASE d.id \in registry
    <3> DEFINE e == Removed(d.id)
    <3>1. queue' = Append(queue, e) /\ registry' = registry \ {d.id}
      BY <1>2, <2>1, <2>2 DEF RemoveCamera
    <3>2. e \in RegistryEvents /\ e.id = d.id /\ e.kind = "removed"
      BY <1>1, EventTypes DEF Removed
    <3> HIDE DEF e
    <3>3. c \in registry' <=> After(e, c, c \in registry)
      BY <3>1, <3>2 DEF After, Tells, Arrivals, Departures
    <3> QED
      BY <2>2, <3>1, <3>2, <3>3
  <2>3. CASE d.id \notin registry
    BY <2>1, <2>3 DEF RemoveCamera
  <2> QED
    BY <2>2, <2>3
<1>5. CASE d.kind \notin {"found", "lost"}
  BY <1>1, <1>5 DEF HandleDiscovery, busVars
<1> QED
  BY <1>3, <1>4, <1>5

(* The loop is told of an overwritten event, and panics for no other. *)
OverrunInv == lagged \/ pc \in {"discovery", "panicked"} => overrun

LEMMA NextOverrun ==
  ASSUME TypeOK, OverrunInv, [Next]_vars
  PROVE  OverrunInv' /\ (overrun => overrun')
<1>1. CASE TakeDiscovery
  <2>1. (overrun' = overrun /\ lagged' = lagged) \/ overrun' = TRUE
    BY <1>1 DEF TakeDiscovery, HandleDiscovery, AddCamera, RemoveCamera,
       Broadcast, busVars
  <2> QED
    BY <1>1, <2>1 DEF TakeDiscovery, OverrunInv
<1>2. CASE TakeLagged \/ Panic
  BY <1>2 DEF TakeLagged, Panic, OverrunInv, busVars
<1>3. CASE ~TakeDiscovery /\ ~TakeLagged /\ ~Panic
  <2>1. UNCHANGED <<lagged, overrun>> /\ (pc' = pc \/ pc' \notin {"discovery", "panicked"})
    BY <1>3 DEF Next, Loop, vars, bridgeVars, busVars, TakeAdded, TakeAddedNoSlot,
       PublishName, Populate, Furnish, TakeUpdated, TakeRemoved, Unname, TakeRegistry
  <2> QED
    BY <2>1 DEF OverrunInv
<1> QED
  BY <1>1, <1>2, <1>3

(***************************************************************************)
(* onvif_bridge.rs:157-183: the bridge thread panics only after the        *)
(* broadcast channel has overwritten an event.                             *)
(***************************************************************************)
THEOREM NoOtherPanic == Spec => []PanicsOnlyIfOverrun
<1>1. Init => OverrunInv
  BY DEF Init, BridgeInit, OverrunInv
<1>2. OverrunInv => PanicsOnlyIfOverrun
  BY DEF OverrunInv, PanicsOnlyIfOverrun
<1> QED
  BY <1>1, <1>2, NextOverrun, BridgeTypes, PTL DEF Spec
-----------------------------------------------------------------------------
BusInv == ~overrun => \A c \in Cameras : ~Homeless(c) => BusOf(c)

LEMMA NextBusInv ==
  ASSUME BridgeInv, OverrunInv, BusInv, [Next]_vars
  PROVE  BusInv'
<1> SUFFICES ASSUME ~overrun', NEW c \in Cameras, ~Homeless(c)'
             PROVE  BusOf(c)'
  BY DEF BusInv
<1>0. TypeOK /\ queue \in Seq(RegistryEvents)
  BY DEF BridgeInv, TypeInv, TypeOK
<1>1. ~overrun /\ ~Homeless(c) /\ BusOf(c)
  BY <1>0, NextOverrun, HomelessStays DEF BusInv
<1> DEFINE here  == At(c)
           there == c \in registry
<1>2. /\ here \in BOOLEAN /\ there \in BOOLEAN
      /\ Orderly(queue, c, here) /\ (Settles(queue, c, here) <=> there)
  BY <1>1 DEF BusOf, At
<1>3. CASE TakeAdded \/ TakeAddedNoSlot \/ TakeUpdated \/ TakeRemoved
  <2>1. /\ queue # <<>> /\ queue' = Tail(queue) /\ registry' = registry
        /\ At(c)' <=> After(Head(queue), c, At(c))
    BY <1>1, <1>3, TakenEvent
  <2>2. At(c)' = After(Head(queue), c, here)
    BY <2>1 DEF At, After
  <2> HIDE DEF here, there
  <2>3. Orderly(Tail(queue), c, After(Head(queue), c, here))
    BY <1>0, <1>2, <2>1, OrderlyTail
  <2>4. Settles(Tail(queue), c, After(Head(queue), c, here)) <=> there
    BY <1>0, <1>2, <2>1, SettlesTail
  <2> QED
    BY <2>1, <2>2, <2>3, <2>4 DEF BusOf, there
<1>4. CASE TakeDiscovery
  <2>1. At(c)' = here
    BY <1>4 DEF TakeDiscovery, At
  <2>2. CASE queue' = queue /\ (c \in registry' <=> c \in registry)
    BY <1>2, <2>1, <2>2 DEF BusOf
  <2>3. ASSUME NEW e \in RegistryEvents,
               queue' = Append(queue, e),
               e.id = c => (e.kind = "added" <=> c \notin registry),
               c \in registry' <=> After(e, c, c \in registry)
        PROVE  BusOf(c)'
    <3> HIDE DEF here
    <3>1. /\ e.id = c => (e.kind = "added" <=> ~there)
          /\ c \in registry' <=> After(e, c, there)
      BY <2>3
    <3> HIDE DEF there
    <3>2. /\ Orderly(Append(queue, e), c, here)
          /\ Settles(Append(queue, e), c, here) <=> After(e, c, there)
      BY <1>0, <1>2, <3>1, BusAfterEvent
    <3> QED
      BY <2>1, <2>3, <3>1, <3>2 DEF BusOf
  <2> QED
    BY <1>0, <1>4, <2>2, <2>3, BroadcastEvent
<1>5. CASE UNCHANGED <<queue, registry, live>>
  BY <1>1, <1>5 DEF BusOf, At
<1> QED
  <2>1. CASE \/ TakeAdded \/ TakeAddedNoSlot \/ TakeUpdated \/ TakeRemoved
             \/ TakeDiscovery
    BY <1>3, <1>4, <2>1
  <2>2. CASE ~(\/ TakeAdded \/ TakeAddedNoSlot \/ TakeUpdated \/ TakeRemoved
               \/ TakeDiscovery)
    BY <1>5, <2>2 DEF Next, Loop, vars, bridgeVars, busVars, TakeLagged, Panic,
       PublishName, Populate, Furnish, Unname
  <2> QED
    BY <2>1, <2>2
-----------------------------------------------------------------------------
(***************************************************************************)
(* While no event was overwritten, each handle is the one pump of a slot   *)
(* with the occupancy cluster that a camera shows on, but for the one the  *)
(* loop is withdrawing; a camera being brought has none yet.               *)
(***************************************************************************)
PumpOf(s) ==
  /\ pumps[s] = IF s \in handles THEN 1 ELSE 0
  /\ s \in handles =>
       /\ s \in OccupancyPool(Build)
       /\ occupant[s] # None \/ (pc = "unname" /\ s = SlotInHand)

PumpInv ==
  ~overrun => /\ \A s \in Slots : PumpOf(s)
              /\ Bringing => SlotInHand \notin handles

LEMMA NextPumpInv ==
  ASSUME BridgeInv, BridgeInv', OverrunInv, BusInv, PumpInv, [Next]_vars
  PROVE  PumpInv'
<1> SUFFICES ASSUME ~overrun'
             PROVE  /\ \A s \in Slots : PumpOf(s)'
                    /\ Bringing' => SlotInHand' \notin handles'
  BY DEF PumpInv
<1> USE DEF TypeInv, TypeOK
<1>0. TypeInv /\ TypeInv'
  BY DEF BridgeInv
<1>1. /\ ~overrun /\ \A s \in Slots : PumpOf(s)
      /\ Bringing => SlotInHand \notin handles
  BY <1>0, NextOverrun DEF PumpInv
<1>2. CASE UNCHANGED <<pc, current, slotOf, occupant, pumps, handles>>
  BY <1>1, <1>2 DEF PumpOf, SlotInHand, Bringing
<1>3. CASE TakeAddedNoSlot \/ TakeUpdated
  <2>1. occupant' = occupant
    BY <1>3, UpdatedKeepsOccupant DEF TakeAddedNoSlot, sharedVars
  <2> QED
    BY <1>2, <1>3, <2>1 DEF TakeAddedNoSlot, TakeUpdated, taskVars
<1>4. CASE TakeDiscovery \/ TakeLagged \/ Panic
  BY <1>1, <1>4 DEF PumpOf, Bringing, TakeDiscovery, TakeLagged, Panic,
     Selecting, sharedVars, taskVars
<1>5. CASE TakeAdded
  <2>1. PICK c \in Cameras, h \in Slots :
          /\ current' = Head(queue) /\ current'.id = c
          /\ slotOf[c] = h \/ (slotOf[c] = NoSlot /\ h \in Free(slotOf, Slots))
          /\ slotOf' = [slotOf EXCEPT ![c] = h]
    BY <1>0, <1>5, TakeRegistryFacts, AssignSlotFacts DEF TakeAdded, Slots
  <2>2. /\ pc = "select" /\ pc' = "name" /\ Head(queue).kind = "added"
        /\ UNCHANGED <<occupant, pumps, handles>>
    BY <1>5 DEF TakeAdded, TakeRegistry, sharedVars, taskVars
  <2>3. ~Homeless(c)
    BY <2>1, SlotsAreNat DEF Homeless, Exhausted, Slots
  <2>4. ~At(c)
    BY <1>1, <1>5, <2>1, <2>2, <2>3, TakenEvent DEF BusInv
  <2>5. occupant[h] = None
    <3> SUFFICES ASSUME occupant[h] # None PROVE FALSE
      OBVIOUS
    <3>1. PICK d \in Cameras : d = occupant[h] /\ slotOf[d] = h /\ At(d)
      BY <2>1, ShownIsLive
    <3>2. d # c /\ h # NoSlot
      BY <2>4, <3>1, SlotsAreNat
    <3>3. slotOf[c] # h
      BY <3>1, <3>2 DEF BridgeInv, EndpointInv, Injective, Bound
    <3> QED
      BY <2>1, <3>1, <3>2, <3>3 DEF Free, Used, Bound
  <2>6. SlotInHand' = h
    BY <1>0, <2>1 DEF SlotInHand, PartialMap
  <2> QED
    BY <1>1, <2>2, <2>5, <2>6 DEF PumpOf
<1>6. CASE PublishName
  BY <1>1, <1>6 DEF PumpOf, SlotInHand, Bringing, PublishName, taskVars
<1>7. CASE Populate
  <2>1. PICK c \in Cameras, h \in Slots : c = current.id /\ h = SlotInHand
    BY <1>0, <1>7, HandFacts DEF Populate, Busy, Bringing
  <2>2. /\ occupant' = [occupant EXCEPT ![h] = c] /\ c # None
        /\ pc = "populate" /\ pc' = "furnish" /\ SlotInHand' = SlotInHand
        /\ UNCHANGED <<pumps, handles>>
    BY <1>7, <2>1 DEF Populate, SlotInHand, taskVars
  <2> QED
    BY <1>0, <1>1, <2>1, <2>2 DEF PumpOf, Bringing
<1>8. CASE Furnish
  <2>1. PICK h \in Slots : h = SlotInHand /\ h \notin handles /\ occupant[h] # None
    BY <1>0, <1>1, <1>8, HandFacts DEF Furnish, Bringing, Busy, BridgeInv, HandInv
  <2>2. /\ pc = "furnish" /\ pc' = "select" /\ UNCHANGED occupant
        /\ pumps[h] = 0
    BY <1>1, <1>8, <2>1 DEF Furnish, sharedVars, PumpOf
  <2>3. \/ UNCHANGED <<pumps, handles>>
        \/ /\ h \in OccupancyPool(Build) /\ handles' = handles \cup {h}
           /\ pumps' = [pumps EXCEPT ![h] = 1]
    BY <1>8, <2>1, <2>2 DEF Furnish, StartPump
  <2> QED
    BY <1>0, <1>1, <2>1, <2>2, <2>3 DEF PumpOf, Bringing
<1>9. CASE TakeRemoved
  <2>1. PICK c \in Cameras : c = Head(queue).id
    BY <1>0, <1>9, TakeRegistryFacts DEF TakeRemoved
  <2>2. pc = "select" /\ UNCHANGED <<slotOf, pumps, handles>>
    BY <1>9 DEF TakeRemoved, TakeRegistry, taskVars
  <2>3. CASE live[c] = NoSlot
    BY <1>2, <1>9, <2>1, <2>2, <2>3 DEF TakeRemoved
  <2>4. CASE live[c] # NoSlot
    <3>1. PICK h \in Slots : h = live[c] /\ h = slotOf[c]
      BY <1>0, <2>4 DEF PartialMap, BridgeInv, EndpointInv
    <3>2. /\ pc' = "unname" /\ current'.id = c
          /\ occupant' = [occupant EXCEPT ![h] = None]
      BY <1>9, <2>1, <2>4, <3>1 DEF TakeRemoved
    <3>3. SlotInHand' = h
      BY <2>2, <3>1, <3>2 DEF SlotInHand
    <3> QED
      BY <1>0, <1>1, <2>2, <3>2, <3>3 DEF PumpOf, Bringing
  <2> QED
    BY <2>3, <2>4
<1>10. CASE Unname
  <2>1. PICK h \in Slots \cup {NoSlot} : h = SlotInHand
    BY <1>10, HandFacts DEF Unname, Busy
  <2>2. /\ pc = "unname" /\ pc' = "select" /\ AbortPump(h) /\ UNCHANGED occupant
    BY <1>10, <2>1 DEF Unname
  <2>3. handles' = handles \ {h}
    BY <2>2 DEF AbortPump
  <2>4. pumps' = IF h \in handles THEN [pumps EXCEPT ![h] = 0] ELSE pumps
    <3>1. PICK left \in {0, 1, 2} :
            /\ pumps[h] = 2 <=> left # 0
            /\ pumps' = IF h \in handles THEN [pumps EXCEPT ![h] = left] ELSE pumps
      BY <2>2 DEF AbortPump, Several
    <3>2. h \in handles => pumps[h] = 1
      BY <1>0, <1>1 DEF PumpOf
    <3>3. h \in handles => left = 0
      BY <3>1, <3>2
    <3>4. CASE h \in handles
      BY <3>1, <3>3, <3>4
    <3>5. CASE h \notin handles
      BY <3>1, <3>5
    <3> QED
      BY <3>4, <3>5
  <2> QED
    BY <1>0, <1>1, <2>1, <2>2, <2>3, <2>4 DEF PumpOf, Bringing
<1>11. CASE UNCHANGED bridgeVars
  BY <1>2, <1>11 DEF bridgeVars, sharedVars, taskVars
<1> QED
  BY <1>3, <1>4, <1>5, <1>6, <1>7, <1>8, <1>9, <1>10, <1>11 DEF Next, Loop, vars

LEMMA InitQueueInv == Init => OverrunInv /\ BusInv /\ PumpInv
<1> SUFFICES ASSUME Init PROVE OverrunInv /\ BusInv /\ PumpInv
  OBVIOUS
<1>1. OverrunInv /\ PumpInv
  BY DEF Init, BridgeInit, OverrunInv, PumpInv, PumpOf, Bringing
<1>2. ASSUME NEW c \in Cameras PROVE BusOf(c)
  <2>1. /\ queue = <<>> /\ At(c) = FALSE /\ (c \in registry) = FALSE
    BY DEF Init, BridgeInit, At, EmptyMap
  <2>2. Orderly(<<>>, c, FALSE)
    BY DEF Orderly
  <2>3. ~Settles(<<>>, c, FALSE)
    BY SettlesEmpty
  <2> QED
    BY <2>1, <2>2, <2>3 DEF BusOf
<1> QED
  BY <1>1, <1>2 DEF BusInv

QueueInv == BridgeInv /\ OverrunInv /\ BusInv /\ PumpInv

LEMMA QueueInvHolds == Spec => []QueueInv
<1>1. OverrunInv /\ BusInv /\ PumpInv /\ BridgeInv /\ BridgeInv' /\ [Next]_vars
        => (OverrunInv /\ BusInv /\ PumpInv)'
  BY NextOverrun, NextBusInv, NextPumpInv DEF BridgeInv, TypeInv
<1> QED
  BY <1>1, InitQueueInv, BridgeInvHolds, PTL DEF Spec, QueueInv

(***************************************************************************)
(* onvif_bridge.rs:157-302: while no event was overwritten, the endpoints  *)
(* are the registry's cameras but for the events in the channel.           *)
(***************************************************************************)
THEOREM EndpointsAreTheRegistry == Spec => []EndpointsFollowRegistry
<1>1. QueueInv => EndpointsFollowRegistry
  <2> SUFFICES ASSUME QueueInv, ~overrun, pc \in {"select", "discovery"},
                      NEW c \in Cameras, ~Homeless(c)
               PROVE  Settles(queue, c, Shown(c)) <=> c \in registry
    BY DEF EndpointsFollowRegistry
  <2>1. Shown(c) = At(c)
    BY ShownIsLive DEF QueueInv, Arriving, At, Shown
  <2>2. Settles(queue, c, At(c)) <=> c \in registry
    BY DEF QueueInv, BusInv, BusOf
  <2> QED
    BY <2>1, <2>2
<1> QED
  BY <1>1, QueueInvHolds, PTL

(***************************************************************************)
(* onvif_bridge.rs:222-244 and 283-289: while no event was overwritten, a  *)
(* motion pump runs for a camera that shows, and only one.                 *)
(***************************************************************************)
THEOREM OnePumpEach == Spec => []PumpsAreOwned
<1>1. QueueInv => PumpsAreOwned
  BY DEF QueueInv, PumpInv, PumpOf, PumpsAreOwned
<1> QED
  BY <1>1, QueueInvHolds, PTL
=============================================================================
