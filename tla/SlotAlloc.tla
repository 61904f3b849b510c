----------------------------- MODULE SlotAlloc -----------------------------
(***************************************************************************)
(* The endpoint slots of the bridge and the choice SlotMap::assign makes   *)
(* among them (crates/bridge/src/slot_persistence.rs).  Constant-level     *)
(* operators only: SlotMap uses them with the file on disk, CameraBridge   *)
(* with the running bridge loop.                                           *)
(*                                                                         *)
(* A slot map is a function from Cameras to slot numbers, with NoSlot for  *)
(* a camera that has no entry in the HashMap.                              *)
(***************************************************************************)
EXTENDS CameraIds, Integers

CONSTANT NoSlot    \* "no entry" / None

ASSUME NoSlotAssumption == NoSlot \notin Nat

(***************************************************************************)
(* A build of the bridge fixes MAX_CAMERAS and WITH_OCCUPANCY_CAMERAS at   *)
(* compile time; SlotMap::load receives them as arguments.                 *)
(***************************************************************************)
BuildRec == [capacity : Nat, withOccupancy : Nat]
IsBuild(b) == b \in BuildRec /\ b.withOccupancy <= b.capacity

AllSlots(b)      == 0 .. b.capacity - 1
OccupancyPool(b) == 0 .. b.withOccupancy - 1
PlainPool(b)     == b.withOccupancy .. b.capacity - 1

PartialMap(S) == [Cameras -> S \cup {NoSlot}]
EmptyMap      == [c \in Cameras |-> NoSlot]
Bound(m)      == {c \in Cameras : m[c] # NoSlot}
Injective(m)  == \A c, d \in Bound(m) : m[c] = m[d] => c = d

Used(m)       == {m[c] : c \in Bound(m)}
Free(m, pool) == pool \ Used(m)
First(s, S)   == s \in S /\ \A t \in S : s <= t

Preferred(b, wants) == IF wants THEN OccupancyPool(b) ELSE PlainPool(b)
Fallback(b, wants)  == IF wants THEN PlainPool(b) ELSE OccupancyPool(b)

ChosenAnywhere(m, b, wants, s) == First(s, Free(m, AllSlots(b)))

(***************************************************************************)
(* Chosen(m, b, wants, s): s is the slot a camera without an entry gets:   *)
(* the lowest free one of its pool, else the lowest free one of the other. *)
(***************************************************************************)
Chosen(m, b, wants, s) ==
  \/ First(s, Free(m, Preferred(b, wants)))
  \/ /\ Free(m, Preferred(b, wants)) = {}
     /\ First(s, Free(m, Fallback(b, wants)))

(* `?` on the search above: both pools are exhausted. *)
Exhausted(m, b) == Free(m, AllSlots(b)) = {}
=============================================================================
