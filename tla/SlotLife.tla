------------------------------ MODULE SlotLife ------------------------------
(***************************************************************************)
(* One camera slot as the Matter thread sees it: the abstract              *)
(* specification of what the bridge loop (crates/bridge/src/               *)
(* onvif_bridge.rs:184-298) does to a slot.  CameraBridge implements it    *)
(* for each of its slots; the Matter side (WebRtc, AvStreams, BridgedInfo, *)
(* Occupancy) is built on it.                                              *)
(*                                                                         *)
(* A slot that belongs to a camera belongs to it until the process ends.   *)
(* The camera is named, shown and furnished in this order, cleared and     *)
(* then unnamed, any number of times, but a stream is seeded once.         *)
(***************************************************************************)
EXTENDS CameraIds, Naturals

CONSTANTS Names,        \* go2rtc stream names
          StreamName,   \* sanitize_stream_name
          None,         \* no camera, no name
          HasOccupancy  \* the slot has the occupancy cluster

ASSUME LifeAssumption ==
  /\ StreamName \in [Cameras -> Names]
  /\ None \notin Cameras \cup Names
  /\ HasOccupancy \in BOOLEAN

VARIABLES
  owner,     \* the camera SlotMap.map has for the slot
  occupant,  \* the camera its CameraSlot shows
  name,      \* its entry in stream_names
  seeds,     \* video streams sent to the seed driver for it
  pumping    \* a motion pump of the owner runs

lifeVars == <<owner, occupant, name, seeds, pumping>>

LifeInit ==
  /\ owner \in Cameras \cup {None}
  /\ occupant = None
  /\ name = None
  /\ seeds = 0
  /\ pumping = FALSE

RebindWhenEmpty(c) ==
  /\ occupant = None /\ name = None
  /\ owner' = c
  /\ UNCHANGED <<occupant, name, seeds, pumping>>

Bind(c) ==
  /\ owner = None
  /\ owner' = c
  /\ UNCHANGED <<occupant, name, seeds, pumping>>

PublishName ==
  /\ owner # None
  /\ name' = StreamName[owner]
  /\ UNCHANGED <<owner, occupant, seeds, pumping>>

Show ==
  /\ owner # None /\ name = StreamName[owner]
  /\ occupant' = owner
  /\ UNCHANGED <<owner, name, seeds, pumping>>

Furnish ==
  /\ occupant # None
  /\ seeds' \in {seeds, 1}
  /\ pumping' \in {pumping, HasOccupancy}
  /\ pumping => pumping'
  /\ UNCHANGED <<owner, occupant, name>>

Clear ==
  /\ occupant' = None
  /\ UNCHANGED <<owner, name, seeds, pumping>>

(* A pump that was detached from its handle outlives this. *)
Unname ==
  /\ occupant = None
  /\ name' = None
  /\ pumping' \in {pumping, FALSE}
  /\ UNCHANGED <<owner, occupant, seeds>>

LifeNext ==
  \/ \E c \in Cameras : Bind(c)
  \/ PublishName \/ Show \/ Furnish \/ Clear \/ Unname

Life == LifeInit /\ [][LifeNext]_lifeVars
-----------------------------------------------------------------------------
LifeTypeOK ==
  /\ owner \in Cameras \cup {None}
  /\ occupant \in Cameras \cup {None}
  /\ name \in Names \cup {None}
  /\ seeds \in {0, 1}
  /\ pumping \in BOOLEAN
=============================================================================
