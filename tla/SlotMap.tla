------------------------------ MODULE SlotMap ------------------------------
(***************************************************************************)
(* The persistent slot allocator (crates/bridge/src/slot_persistence.rs)   *)
(* through crashes and restarts of the bridge.  SlotMap::assign decides in *)
(* memory and then rewrites the JSON file with std::fs::write, which first *)
(* truncates the file and then writes it; only after that does the caller  *)
(* get its slot.  The process can die between any two of these system      *)
(* calls, and the next one may be another build of the bridge, with other  *)
(* pool sizes.                                                             *)
(*                                                                         *)
(* Data abstraction: the file is the mapping SlotMap::load would parse     *)
(* from it; a missing, empty or half-written file is EmptyMap, for load    *)
(* starts empty from all of them.                                          *)
(***************************************************************************)
EXTENDS SlotAlloc

CONSTANTS Builds,    \* the builds that may run on this storage directory
          NoCamera   \* no assign call in progress

ASSUME BuildsAssumption   == Builds # {} /\ \A b \in Builds : IsBuild(b)
ASSUME NoCameraAssumption == NoCamera \notin Cameras

VARIABLES
  running,  \* the bridge process is up
  build,    \* SlotMap.capacity and SlotMap.with_occupancy
  map,      \* SlotMap.map
  disk,     \* the mapping in <matter_storage_path>.slots.json
  saving,   \* where save() is: "idle", "opening" or "writing" the file
  caller    \* the camera whose assign call is in save(), or NoCamera

(***************************************************************************)
(* History variables, read by no guard.                                    *)
(***************************************************************************)
VARIABLES
  landed,   \* the slots each camera has ever been given
  missed,   \* the pool each camera asked for but found full
  refused,  \* the cameras this process answered None
  torn,     \* a save failed, or was cut short after truncating the file
  trimmed,  \* a load dropped an entry
  unread    \* this process could not read its file

fileVars    == <<disk, saving, caller>>
historyVars == <<landed, missed, refused, torn, trimmed, unread>>
vars        == <<running, build, map, fileVars, historyVars>>

Init ==
  /\ running = FALSE
  /\ build \in Builds
  /\ map = EmptyMap
  /\ disk = EmptyMap
  /\ saving = "idle"
  /\ caller = NoCamera
  /\ landed = [c \in Cameras |-> {}]
  /\ missed = [c \in Cameras |-> {}]
  /\ refused = {}
  /\ torn = FALSE
  /\ trimmed = FALSE
  /\ unread = FALSE
-----------------------------------------------------------------------------
(***************************************************************************)
(* SlotMap::load: entries beyond the capacity of this build are dropped,   *)
(* and a file that cannot be read is taken for a missing one.              *)
(***************************************************************************)
LoadUnfiltered(file, b) == file
LoadNothing(file, b)    == EmptyMap

Load(file, b) ==
  [c \in Cameras |-> IF file[c] \in AllSlots(b) THEN file[c] ELSE NoSlot]

Start(b, file) ==
  /\ ~running
  /\ running' = TRUE
  /\ build' = b
  /\ map' = Load(file, b)
  /\ trimmed' = (trimmed \/ Bound(map') # Bound(disk))
  /\ unread' = (file # disk)
  /\ UNCHANGED <<fileVars, landed, missed, refused, torn>>

(***************************************************************************)
(* SlotMap::assign is one synchronous call: while save() runs no other     *)
(* call can start, and nothing but the process dying can cut it short.     *)
(***************************************************************************)
Idle == running /\ saving = "idle"

Return(c) == landed' = [landed EXCEPT ![c] = @ \cup {map[c]}]

(* The camera has an entry: its slot is reused and nothing is written. *)
AssignKnown(c) ==
  /\ Idle
  /\ map[c] # NoSlot
  /\ Return(c)
  /\ UNCHANGED <<running, build, map, fileVars, missed, refused, torn, trimmed,
                 unread>>

(* The pool asked for, if the slot is not of it (history). *)
PoolMissed(wants, s) ==
  IF s \in Preferred(build, wants) THEN {} ELSE Preferred(build, wants)

AssignNewFromDisk(c, wants) ==
  /\ Idle
  /\ map[c] = NoSlot
  /\ \E s \in AllSlots(build) :
       /\ Chosen(disk, build, wants, s)
       /\ map' = [map EXCEPT ![c] = s]
  /\ saving' = "opening"
  /\ caller' = c
  /\ missed' = [missed EXCEPT ![c] = PoolMissed(wants, map'[c])]
  /\ UNCHANGED <<running, build, disk, landed, refused, torn, trimmed, unread>>

AssignNewSavesFirst(c, wants) ==
  /\ Idle
  /\ map[c] = NoSlot
  /\ \E s \in AllSlots(build) :
       /\ Chosen(map, build, wants, s)
       /\ missed' = [missed EXCEPT ![c] = PoolMissed(wants, s)]
  /\ saving' = "opening"
  /\ caller' = c
  /\ UNCHANGED <<running, build, map, disk, landed, refused, torn, trimmed, unread>>

(* A camera without an entry gets one in memory, and save() begins. *)
AssignNew(c, wants) ==
  /\ Idle
  /\ map[c] = NoSlot
  /\ \E s \in AllSlots(build) :
       /\ Chosen(map, build, wants, s)
       /\ map' = [map EXCEPT ![c] = s]
  /\ saving' = "opening"
  /\ caller' = c
  /\ missed' = [missed EXCEPT ![c] = PoolMissed(wants, map'[c])]
  /\ UNCHANGED <<running, build, disk, landed, refused, torn, trimmed, unread>>

(* Both pools are exhausted: None, and the map stays as it is. *)
AssignRefused(c) ==
  /\ Idle
  /\ map[c] = NoSlot
  /\ Exhausted(map, build)
  /\ refused' = refused \cup {c}
  /\ UNCHANGED <<running, build, map, fileVars, landed, missed, torn, trimmed,
                 unread>>
-----------------------------------------------------------------------------
(***************************************************************************)
(* SlotMap::save, one action per system call that touches the file.  Its   *)
(* error is only logged: assign returns the slot all the same.             *)
(***************************************************************************)
EndOfSave == saving' = "idle" /\ caller' = NoCamera /\ Return(caller)

(* create_dir_all or opening the file fails: the old content stays. *)
SaveOpenFails ==
  /\ saving = "opening"
  /\ EndOfSave
  /\ torn' = TRUE
  /\ UNCHANGED <<running, build, map, disk, missed, refused, trimmed, unread>>

SaveTruncate ==
  /\ saving = "opening"
  /\ saving' = "writing"
  /\ disk' = EmptyMap
  /\ UNCHANGED <<running, build, map, caller, historyVars>>

SaveWriteBeforeInsert ==
  /\ saving = "writing"
  /\ disk' = [map EXCEPT ![caller] = NoSlot]
  /\ EndOfSave
  /\ UNCHANGED <<running, build, map, missed, refused, torn, trimmed, unread>>

SaveWrite ==
  /\ saving = "writing"
  /\ disk' = map
  /\ EndOfSave
  /\ UNCHANGED <<running, build, map, missed, refused, torn, trimmed, unread>>

(* The write fails after the truncation: what is left does not parse. *)
SaveWriteFails ==
  /\ saving = "writing"
  /\ EndOfSave
  /\ torn' = TRUE
  /\ UNCHANGED <<running, build, map, disk, missed, refused, trimmed, unread>>

(***************************************************************************)
(* The process ends, in the middle of a save or not.  Memory is lost, the  *)
(* file keeps what the last system call left in it.                        *)
(***************************************************************************)
Crash ==
  /\ running
  /\ running' = FALSE
  /\ map' = EmptyMap
  /\ saving' = "idle"
  /\ caller' = NoCamera
  /\ refused' = {}
  /\ torn' = (torn \/ saving = "writing")
  /\ unread' = FALSE
  /\ UNCHANGED <<build, disk, landed, missed, trimmed>>

Assign(c) ==
  \/ AssignKnown(c)
  \/ \E wants \in BOOLEAN : AssignNew(c, wants)
  \/ AssignRefused(c)

Save == SaveOpenFails \/ SaveTruncate \/ SaveWrite \/ SaveWriteFails

Next ==
  \/ \E b \in Builds : Start(b, disk) \/ Start(b, EmptyMap)
  \/ \E c \in Cameras : Assign(c)
  \/ Save
  \/ Crash

Spec == Init /\ [][Next]_vars
-----------------------------------------------------------------------------
(***************************************************************************)
(* The values the variables may take.  A save is for a camera that has its *)
(* entry already (slot_persistence.rs:96-97): the file it writes has it    *)
(* too, and what assign returns is a slot.                                 *)
(***************************************************************************)
TypeOK ==
  /\ running \in BOOLEAN
  /\ build \in Builds
  /\ map \in PartialMap(Nat)
  /\ disk \in PartialMap(Nat)
  /\ saving \in {"idle", "opening", "writing"}
  /\ caller \in Cameras \cup {NoCamera}
  /\ landed \in [Cameras -> SUBSET Nat]
  /\ missed \in [Cameras -> SUBSET Nat]
  /\ refused \in SUBSET Cameras
  /\ torn \in BOOLEAN /\ trimmed \in BOOLEAN /\ unread \in BOOLEAN
  /\ saving = "idle" <=> caller = NoCamera
  /\ saving # "idle" => running /\ map[caller] # NoSlot
  /\ ~running => map = EmptyMap

(***************************************************************************)
(* No two cameras share an endpoint, in memory or in the file the next     *)
(* process will load, whatever saves failed or were cut short.  assign     *)
(* looks for a free slot in the memory map only, so this rests on the file *)
(* never holding anything but a former memory map.                         *)
(***************************************************************************)
OneCameraPerSlot == Injective(map) /\ Injective(disk)

(***************************************************************************)
(* Every slot of the running map exists in this build: the bridge indexes  *)
(* slots, motion states and datavers with it, without a check.             *)
(***************************************************************************)
SlotInRange == \A c \in Bound(map) : map[c] \in AllSlots(build)

(***************************************************************************)
(* While the bridge runs, the file never holds another slot for a camera   *)
(* than the one the bridge uses, except one beyond this build's capacity:  *)
(* a stale file can forget a camera but cannot move one that is in use.    *)
(* Not so for a process that could not read the file.                      *)
(***************************************************************************)
DiskNeverContradicts ==
  running /\ ~unread =>
    \A c \in Bound(disk) : disk[c] \in AllSlots(build) => disk[c] = map[c]

(***************************************************************************)
(* Slots are never freed, so a camera put in the other pool means that the *)
(* pool it asked for is still full, and a refused one that all slots are   *)
(* taken: also after restarts, lost saves and loads of an old file, but    *)
(* not once a load has dropped entries.                                    *)
(***************************************************************************)
PoolsStayFull ==
  /\ ~trimmed => \A c \in Bound(map) : missed[c] \subseteq Used(map)
  /\ refused # {} => Exhausted(map, build)

(***************************************************************************)
(* As long as no save failed or was torn by a crash and no entry was       *)
(* dropped by a load, a camera keeps the first endpoint it was given,      *)
(* through any number of crashes and restarts (the purpose of the module,  *)
(* slot_persistence.rs:3-9).                                               *)
(***************************************************************************)
EndpointStable == \A c \in Cameras : \A s, t \in landed[c] : s = t

EndpointStableWhileIntact == ~torn /\ ~trimmed => EndpointStable

(***************************************************************************)
(* Until then what callers were told, in all processes together, is a      *)
(* Binding: a slot handed out once is not handed to another camera later,  *)
(* also by a process that no longer knows the first one.                   *)
(***************************************************************************)
AnyOf(S) == IF S = {} THEN NoSlot ELSE CHOOSE s \in S : TRUE
Given(c) == AnyOf(landed[c])

Told == INSTANCE Binding
          WITH Slots <- UNION {AllSlots(b) : b \in Builds},
               bound <- [c \in Cameras |-> Given(c)],
               intact <- ~torn /\ ~trimmed

ImplementsBinding == Told!Bindings

(***************************************************************************)
(* slot_persistence.rs:8-9, "each camera always lands on the same          *)
(* endpoint": not if a crash hits a save between truncation and write      *)
(* (violation run).                                                        *)
(***************************************************************************)
AlwaysSameEndpoint == ~trimmed => EndpointStable
=============================================================================
