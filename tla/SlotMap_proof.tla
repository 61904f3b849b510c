--------------------------- MODULE SlotMap_proof ---------------------------
(***************************************************************************)
(* Proofs about SlotMap, for any cameras and any builds: its types, that   *)
(* no endpoint is shared, that every slot exists, that the file never      *)
(* moves a camera in use, that a spilled camera's pool stays full, that    *)
(* endpoints are stable until a save is lost or an entry is dropped, and   *)
(* that all of this implements Binding.                                    *)
(* The invariants they rest on say of the file what the properties say of  *)
(* memory, since memory is what was in the file after each restart.        *)
(***************************************************************************)
EXTENDS SlotMap, TLAPS

USE NoSlotAssumption, BuildsAssumption, NoCameraAssumption

(* The slot a new camera gets is not the slot of any other camera. *)
LEMMA ChosenIsFree ==
  ASSUME NEW m, NEW b, NEW wants, NEW s, Chosen(m, b, wants, s)
  PROVE  s \notin Used(m)
BY DEF Chosen, First, Free

(* Inserting a free slot keeps a map without shared slots. *)
LEMMA InsertKeepsInjective ==
  ASSUME NEW m \in PartialMap(Nat), NEW c \in Cameras, NEW s \in Nat,
         Injective(m), s \notin Used(m)
  PROVE  Injective([m EXCEPT ![c] = s])
BY DEF PartialMap, Injective, Bound, Used

(* A load yields a map of slots this build has, taken from the file. *)
LEMMA LoadFromFile ==
  ASSUME NEW file \in PartialMap(Nat), NEW b \in Builds
  PROVE  /\ Load(file, b) \in PartialMap(Nat)
         /\ \A c \in Cameras : Load(file, b)[c] # NoSlot =>
              Load(file, b)[c] = file[c] /\ file[c] \in AllSlots(b)
BY DEF Load, PartialMap, AllSlots, IsBuild, BuildRec

LEMMA LoadKeepsInjective ==
  ASSUME NEW file \in PartialMap(Nat), NEW b \in Builds, Injective(file)
  PROVE  Injective(Load(file, b))
BY LoadFromFile DEF Injective, Bound

LEMMA EmptyMapFacts ==
  EmptyMap \in PartialMap(Nat) /\ Bound(EmptyMap) = {} /\ Injective(EmptyMap)
BY DEF EmptyMap, PartialMap, Bound, Injective

-----------------------------------------------------------------------------
(* TypeOK is inductive by itself. *)
LEMMA InitTypeOK == Init => TypeOK
BY EmptyMapFacts DEF Init, TypeOK

LEMMA NextTypeOK == TypeOK /\ [Next]_vars => TypeOK'
<1> SUFFICES ASSUME TypeOK, [Next]_vars PROVE TypeOK'
  OBVIOUS
<1> USE DEF TypeOK
<1>1. ASSUME NEW b \in Builds, NEW file \in {disk, EmptyMap}, Start(b, file)
      PROVE  TypeOK'
  BY <1>1, LoadFromFile, EmptyMapFacts DEF Start, fileVars
<1>2. ASSUME NEW c \in Cameras, AssignKnown(c) PROVE TypeOK'
  <2>1. landed' \in [Cameras -> SUBSET Nat]
    BY <1>2 DEF AssignKnown, Return, PartialMap
  <2> QED BY <1>2, <2>1 DEF AssignKnown, fileVars
<1>3. ASSUME NEW c \in Cameras, NEW wants \in BOOLEAN, AssignNew(c, wants)
      PROVE  TypeOK'
  <2>1. PICK s \in AllSlots(build) : map' = [map EXCEPT ![c] = s]
    BY <1>3 DEF AssignNew
  <2>2. s \in Nat
    BY <2>1 DEF AllSlots, IsBuild, BuildRec
  <2>3. map' \in PartialMap(Nat) /\ map'[c] # NoSlot
    BY <2>1, <2>2 DEF PartialMap
  <2>4. PoolMissed(wants, map'[c]) \in SUBSET Nat
    BY DEF PoolMissed, Preferred, OccupancyPool, PlainPool, IsBuild, BuildRec
  <2>5. missed' \in [Cameras -> SUBSET Nat]
    BY <1>3, <2>4 DEF AssignNew
  <2> QED BY <1>3, <2>3, <2>5 DEF AssignNew, Idle
<1>4. ASSUME NEW c \in Cameras, AssignRefused(c) PROVE TypeOK'
  BY <1>4 DEF AssignRefused, fileVars
<1>5. ASSUME SaveOpenFails \/ SaveWrite \/ SaveWriteFails PROVE TypeOK'
  <2>1. caller \in Cameras /\ map[caller] \in Nat
    BY <1>5 DEF SaveOpenFails, SaveWrite, SaveWriteFails, PartialMap
  <2>2. landed' \in [Cameras -> SUBSET Nat]
    BY <1>5, <2>1 DEF SaveOpenFails, SaveWrite, SaveWriteFails, EndOfSave, Return
  <2> QED BY <1>5, <2>2
          DEF SaveOpenFails, SaveWrite, SaveWriteFails, EndOfSave
<1>6. ASSUME SaveTruncate PROVE TypeOK'
  BY <1>6, EmptyMapFacts DEF SaveTruncate, historyVars
<1>7. ASSUME Crash PROVE TypeOK'
  BY <1>7, EmptyMapFacts DEF Crash
<1>8. ASSUME UNCHANGED vars PROVE TypeOK'
  BY <1>8 DEF vars, fileVars, historyVars
<1> QED
  BY <1>1, <1>2, <1>3, <1>4, <1>5, <1>6, <1>7, <1>8 DEF Next, Assign, Save

(* The variables keep their types (see TypeOK). *)
THEOREM TypeCorrect == Spec => []TypeOK
BY InitTypeOK, NextTypeOK, PTL DEF Spec
-----------------------------------------------------------------------------
(***************************************************************************)
(* The inductive invariant.  OneCameraPerSlot alone is not inductive: a    *)
(* slot is looked for in the memory map but a load replaces that map, so   *)
(* the file must be free of shared slots as well, and DiskNeverContradicts *)
(* needs to know that slots in memory are in range.                        *)
(***************************************************************************)
SlotInv == OneCameraPerSlot /\ SlotInRange /\ DiskNeverContradicts

LEMMA InitSlotInv == Init => SlotInv
BY EmptyMapFacts DEF Init, SlotInv, OneCameraPerSlot, SlotInRange,
                     DiskNeverContradicts

LEMMA NextSlotInv == TypeOK /\ SlotInv /\ [Next]_vars => SlotInv'
<1> SUFFICES ASSUME TypeOK, SlotInv, [Next]_vars PROVE SlotInv'
  OBVIOUS
<1> USE DEF SlotInv
<1>1. ASSUME NEW b \in Builds, NEW file \in {disk, EmptyMap}, Start(b, file)
      PROVE  SlotInv'
  <2>1. /\ map' = Load(file, b) /\ build' = b /\ disk' = disk
        /\ unread' = (file # disk) /\ file \in PartialMap(Nat)
    BY <1>1, EmptyMapFacts DEF Start, fileVars, TypeOK
  <2>2. OneCameraPerSlot'
    BY <2>1, LoadKeepsInjective, EmptyMapFacts
    DEF OneCameraPerSlot, Injective, Bound
  <2>3. SlotInRange'
    BY <2>1, LoadFromFile DEF SlotInRange, Bound
  <2>4. DiskNeverContradicts'
    BY <2>1 DEF DiskNeverContradicts, Bound, Load
  <2> QED BY <2>2, <2>3, <2>4
<1>2. ASSUME NEW c \in Cameras, NEW wants \in BOOLEAN, AssignNew(c, wants)
      PROVE  SlotInv'
  <2>1. PICK s \in AllSlots(build) :
          Chosen(map, build, wants, s) /\ map' = [map EXCEPT ![c] = s]
    BY <1>2 DEF AssignNew
  <2>2. s \in Nat /\ s \notin Used(map)
    BY <2>1, ChosenIsFree DEF AllSlots, IsBuild, BuildRec, TypeOK
  <2>3. map[c] = NoSlot /\ map \in PartialMap(Nat) /\ running
        /\ UNCHANGED <<running, build, disk, unread>>
    BY <1>2 DEF AssignNew, Idle, TypeOK
  <2>4. OneCameraPerSlot'
    BY <2>1, <2>2, <2>3, InsertKeepsInjective DEF OneCameraPerSlot, Injective, Bound
  <2>5. SlotInRange'
    BY <2>1, <2>3 DEF SlotInRange, Bound, PartialMap, AllSlots
  <2>6. ~unread => ~(disk[c] \in AllSlots(build))
    BY <2>3 DEF DiskNeverContradicts, Bound, AllSlots, IsBuild, BuildRec, TypeOK
  <2>7. DiskNeverContradicts'
    BY <2>1, <2>3, <2>6 DEF DiskNeverContradicts, Bound, AllSlots, PartialMap
  <2> QED BY <2>4, <2>5, <2>7
<1>3. ASSUME SaveWrite PROVE SlotInv'
  BY <1>3 DEF SaveWrite, OneCameraPerSlot, SlotInRange, DiskNeverContradicts,
              Injective, Bound, AllSlots
<1>4. ASSUME SaveTruncate PROVE SlotInv'
  BY <1>4, EmptyMapFacts
  DEF SaveTruncate, historyVars, OneCameraPerSlot, SlotInRange,
      DiskNeverContradicts, Injective, Bound, AllSlots
<1>5. ASSUME Crash PROVE SlotInv'
  BY <1>5, EmptyMapFacts
  DEF Crash, OneCameraPerSlot, SlotInRange, DiskNeverContradicts,
      Injective, Bound, AllSlots
<1>6. ASSUME UNCHANGED <<running, build, map, disk, unread>> PROVE SlotInv'
  BY <1>6 DEF OneCameraPerSlot, SlotInRange, DiskNeverContradicts,
              Injective, Bound, AllSlots
<1>7. ASSUME \/ \E c \in Cameras : AssignKnown(c) \/ AssignRefused(c)
             \/ SaveOpenFails \/ SaveWriteFails
             \/ UNCHANGED vars
      PROVE  UNCHANGED <<running, build, map, disk, unread>>
  BY <1>7 DEF AssignKnown, AssignRefused, SaveOpenFails, SaveWriteFails,
              vars, fileVars, historyVars
<1> QED
  BY <1>1, <1>2, <1>3, <1>4, <1>5, <1>6, <1>7 DEF Next, Assign, Save

LEMMA SlotInvAlways == Spec => []SlotInv
<1>1. Init => TypeOK /\ SlotInv
  BY InitTypeOK, InitSlotInv
<1>2. (TypeOK /\ SlotInv) /\ [Next]_vars => (TypeOK /\ SlotInv)'
  BY NextTypeOK, NextSlotInv
<1> QED BY <1>1, <1>2, PTL DEF Spec

(***************************************************************************)
(* No endpoint is ever shared by two cameras, in memory or after a load    *)
(* (SlotMap::assign and SlotMap::load through any crash or failed save).   *)
(***************************************************************************)
THEOREM NoSharedSlot == Spec => []OneCameraPerSlot
<1>1. SlotInv => OneCameraPerSlot
  BY DEF SlotInv
<1> QED BY <1>1, SlotInvAlways, PTL

(***************************************************************************)
(* The bridge's unchecked slots_owned[slot] is always in bounds, also when *)
(* another build with fewer slots takes over the storage.                  *)
(***************************************************************************)
THEOREM SlotsExist == Spec => []SlotInRange
<1>1. SlotInv => SlotInRange
  BY DEF SlotInv
<1> QED BY <1>1, SlotInvAlways, PTL

(***************************************************************************)
(* The file may forget a camera in use but never holds another slot of     *)
(* this build for it.                                                      *)
(***************************************************************************)
THEOREM FileAgrees == Spec => []DiskNeverContradicts
<1>1. SlotInv => DiskNeverContradicts
  BY DEF SlotInv
<1> QED BY <1>1, SlotInvAlways, PTL
-----------------------------------------------------------------------------
(***************************************************************************)
(* The inductive invariant of PoolsStayFull: until an entry is dropped,    *)
(* the running map extends the file, and what the property says of the map *)
(* holds of the file too; a process that is down has refused nobody.       *)
(***************************************************************************)
MapExtendsFile == running => \A c \in Bound(disk) : disk[c] = map[c]

MissedPoolsFull(m) == \A c \in Bound(m) : missed[c] \subseteq Used(m)

PoolInv ==
  /\ ~trimmed => MapExtendsFile /\ MissedPoolsFull(map) /\ MissedPoolsFull(disk)
  /\ refused # {} => running /\ Exhausted(map, build)

(* A new entry leaves the slots in use in use. *)
LEMMA InsertKeepsUsed ==
  ASSUME NEW m \in PartialMap(Nat), NEW c \in Cameras, NEW s, m[c] = NoSlot
  PROVE  Used(m) \subseteq Used([m EXCEPT ![c] = s])
BY DEF Used, Bound, PartialMap

(* A camera is put in the other pool only when its own is full. *)
LEMMA MissedIsUsed ==
  ASSUME NEW wants \in BOOLEAN, NEW s, Chosen(map, build, wants, s)
  PROVE  PoolMissed(wants, s) \subseteq Used(map)
BY DEF PoolMissed, Chosen, First, Free

(* A load that drops nothing is the file. *)
LEMMA LoadUntrimmed ==
  ASSUME NEW b \in Builds, disk \in PartialMap(Nat),
         NEW file \in {disk, EmptyMap}, Bound(Load(file, b)) = Bound(disk)
  PROVE  Load(file, b) = disk
<1>1. file \in PartialMap(Nat) /\ \A c \in Cameras : file[c] \in {disk[c], NoSlot}
  BY EmptyMapFacts DEF EmptyMap
<1>2. \A c \in Cameras : Load(file, b)[c] # NoSlot <=> disk[c] # NoSlot
  BY DEF Bound
<1>3. \A c \in Cameras : Load(file, b)[c] # NoSlot => Load(file, b)[c] = file[c]
  BY <1>1, LoadFromFile
<1>4. \A c \in Cameras : Load(file, b)[c] = disk[c]
  BY <1>1, <1>2, <1>3
<1> QED
  BY <1>1, <1>4, LoadFromFile DEF PartialMap

LEMMA NextPoolInv == TypeOK /\ PoolInv /\ [Next]_vars => PoolInv'
<1> SUFFICES ASSUME TypeOK, PoolInv, [Next]_vars PROVE PoolInv'
  OBVIOUS
<1> USE DEF PoolInv
<1>1. ASSUME NEW b \in Builds, NEW file \in {disk, EmptyMap}, Start(b, file)
      PROVE  PoolInv'
  <2>1. /\ map' = Load(file, b) /\ disk' = disk /\ disk \in PartialMap(Nat)
        /\ refused' = {} /\ missed' = missed
        /\ trimmed' = (trimmed \/ Bound(map') # Bound(disk))
    BY <1>1 DEF Start, fileVars, TypeOK
  <2>2. ~trimmed' => ~trimmed /\ map' = disk
    BY <2>1, LoadUntrimmed
  <2> QED BY <2>1, <2>2 DEF MapExtendsFile, MissedPoolsFull, Bound, Used
<1>2. ASSUME NEW c \in Cameras, NEW wants \in BOOLEAN, AssignNew(c, wants)
      PROVE  PoolInv'
  <2>1. PICK s \in AllSlots(build) :
          Chosen(map, build, wants, s) /\ map' = [map EXCEPT ![c] = s]
    BY <1>2 DEF AssignNew
  <2>2. /\ map[c] = NoSlot /\ map \in PartialMap(Nat) /\ running
        /\ missed' = [missed EXCEPT ![c] = PoolMissed(wants, s)]
        /\ missed \in [Cameras -> SUBSET Nat]
        /\ UNCHANGED <<running, build, disk, refused, trimmed>>
    BY <1>2, <2>1 DEF AssignNew, Idle, TypeOK, PartialMap
  <2>3. Used(map) \subseteq Used(map')
    BY <2>1, <2>2, InsertKeepsUsed
  <2>4. refused = {}
    BY <2>1, <2>2 DEF Exhausted, Chosen, First, Free, Preferred, Fallback,
       AllSlots, OccupancyPool, PlainPool, TypeOK, IsBuild, BuildRec
  <2>5. ASSUME ~trimmed PROVE c \notin Bound(disk)
    BY <2>2, <2>5 DEF MapExtendsFile, Bound
  <2>6. ASSUME ~trimmed PROVE MissedPoolsFull(map)'
    <3>1. PoolMissed(wants, s) \subseteq Used(map')
      BY <2>1, <2>3, MissedIsUsed
    <3>2. \A d \in Bound(map') : d = c \/ d \in Bound(map)
      BY <2>1, <2>2 DEF Bound, PartialMap
    <3>3. \A d \in Cameras \ {c} : missed'[d] = missed[d]
      BY <2>2
    <3>4. missed'[c] = PoolMissed(wants, s)
      BY <2>2
    <3>5. MissedPoolsFull(map)
      BY <2>6
    <3> QED BY <3>1, <3>2, <3>3, <3>4, <3>5, <2>3 DEF MissedPoolsFull, Bound
  <2>7. ASSUME ~trimmed PROVE (MapExtendsFile /\ MissedPoolsFull(disk))'
    <3>1. Used(disk') = Used(disk) /\ Bound(disk') = Bound(disk)
      BY <2>2
    <3>2. \A d \in Bound(disk) : missed'[d] = missed[d] /\ map'[d] = map[d]
      BY <2>1, <2>2, <2>5, <2>7 DEF Bound, PartialMap
    <3> QED BY <2>2, <2>7, <3>1, <3>2 DEF MapExtendsFile, MissedPoolsFull
  <2> QED BY <2>2, <2>4, <2>6, <2>7
<1>3. ASSUME NEW c \in Cameras, AssignRefused(c) PROVE PoolInv'
  BY <1>3 DEF AssignRefused, Idle, fileVars, MapExtendsFile, MissedPoolsFull,
              Used, Bound, Exhausted, Free, AllSlots
<1>4. ASSUME SaveWrite PROVE PoolInv'
  BY <1>4 DEF SaveWrite, EndOfSave, MapExtendsFile, MissedPoolsFull, Used, Bound,
              Exhausted, Free, AllSlots
<1>5. ASSUME SaveTruncate PROVE PoolInv'
  BY <1>5, EmptyMapFacts
  DEF SaveTruncate, historyVars, MapExtendsFile, MissedPoolsFull, Used, Bound,
      Exhausted, Free, AllSlots
<1>6. ASSUME Crash PROVE PoolInv'
  BY <1>6, EmptyMapFacts
  DEF Crash, MapExtendsFile, MissedPoolsFull, Used, Bound
<1>7. ASSUME UNCHANGED <<running, build, map, disk, missed, refused, trimmed>>
      PROVE  PoolInv'
  BY <1>7 DEF MapExtendsFile, MissedPoolsFull, Used, Bound, Exhausted, Free,
              AllSlots
<1>8. ASSUME \/ \E c \in Cameras : AssignKnown(c)
             \/ SaveOpenFails \/ SaveWriteFails
             \/ UNCHANGED vars
      PROVE  UNCHANGED <<running, build, map, disk, missed, refused, trimmed>>
  BY <1>8 DEF AssignKnown, SaveOpenFails, SaveWriteFails, vars, fileVars,
              historyVars
<1> QED
  BY <1>1, <1>2, <1>3, <1>4, <1>5, <1>6, <1>7, <1>8 DEF Next, Assign, Save

(***************************************************************************)
(* A camera that was put in the other pool still finds its own full, and   *)
(* None means that no slot is left (SlotMap::assign).                      *)
(***************************************************************************)
THEOREM PoolsFull == Spec => []PoolsStayFull
<1>1. Init => TypeOK /\ PoolInv
  BY InitTypeOK, EmptyMapFacts
  DEF Init, PoolInv, MapExtendsFile, MissedPoolsFull
<1>2. (TypeOK /\ PoolInv) /\ [Next]_vars => (TypeOK /\ PoolInv)'
  BY NextTypeOK, NextPoolInv
<1>3. PoolInv => PoolsStayFull
  BY DEF PoolInv, MissedPoolsFull, PoolsStayFull
<1> QED BY <1>1, <1>2, <1>3, PTL DEF Spec
-----------------------------------------------------------------------------
(***************************************************************************)
(* The inductive invariant of EndpointStableWhileIntact: a slot reaches a  *)
(* caller only once it is in the file.                                     *)
(***************************************************************************)
StableInv ==
  ~torn /\ ~trimmed =>
    /\ running /\ saving = "idle" => disk = map
    /\ saving = "opening" => disk = [map EXCEPT ![caller] = NoSlot]
    /\ \A c \in Cameras : \A s \in landed[c] :
         /\ running => map[c] = s
         /\ saving # "writing" => disk[c] = s

LEMMA NextStableInv == TypeOK /\ StableInv /\ [Next]_vars => StableInv'
<1> SUFFICES ASSUME TypeOK, StableInv, [Next]_vars, ~torn', ~trimmed'
             PROVE  StableInv'
  BY DEF StableInv
<1> USE DEF StableInv
<1>1. ASSUME NEW b \in Builds, NEW file \in {disk, EmptyMap}, Start(b, file)
      PROVE  StableInv'
  <2>1. /\ map' = Load(file, b) /\ disk \in PartialMap(Nat) /\ saving = "idle"
        /\ UNCHANGED <<disk, saving, landed, torn>>
        /\ ~trimmed /\ Bound(map') = Bound(disk)
    BY <1>1 DEF Start, fileVars, TypeOK
  <2>2. map' = disk
    BY <2>1, LoadUntrimmed
  <2> QED BY <2>1, <2>2
<1>2. ASSUME NEW c \in Cameras, AssignKnown(c) PROVE StableInv'
  <2>1. /\ running /\ saving = "idle"
        /\ UNCHANGED <<running, saving, map, disk, torn, trimmed>>
        /\ landed' = [landed EXCEPT ![c] = @ \cup {map[c]}]
        /\ landed \in [Cameras -> SUBSET Nat]
    BY <1>2 DEF AssignKnown, Idle, Return, fileVars, TypeOK
  <2> QED BY <2>1
<1>3. ASSUME NEW c \in Cameras, NEW wants \in BOOLEAN, AssignNew(c, wants)
      PROVE  StableInv'
  <2>1. PICK s \in AllSlots(build) : map' = [map EXCEPT ![c] = s]
    BY <1>3 DEF AssignNew
  <2>2. /\ running /\ saving = "idle" /\ map[c] = NoSlot
        /\ map \in PartialMap(Nat) /\ landed \in [Cameras -> SUBSET Nat]
        /\ saving' = "opening" /\ caller' = c
        /\ UNCHANGED <<running, disk, landed, torn, trimmed>>
    BY <1>3 DEF AssignNew, Idle, TypeOK
  <2>3. disk = map
    BY <2>2
  <2>4. landed[c] = {}
    BY <2>2
  <2>5. disk' = [map' EXCEPT ![caller'] = NoSlot]
    BY <2>1, <2>2, <2>3 DEF PartialMap
  <2>6. \A d \in Cameras \ {c} : map'[d] = map[d]
    BY <2>1, <2>2 DEF PartialMap
  <2> QED BY <2>2, <2>4, <2>5, <2>6
<1>4. ASSUME SaveTruncate PROVE StableInv'
  BY <1>4 DEF SaveTruncate, historyVars, TypeOK
<1>5. ASSUME SaveWrite PROVE StableInv'
  <2>1. /\ saving = "writing" /\ saving' = "idle" /\ disk' = map /\ running
        /\ UNCHANGED <<running, map, torn, trimmed>>
        /\ landed' = [landed EXCEPT ![caller] = @ \cup {map[caller]}]
        /\ landed \in [Cameras -> SUBSET Nat]
    BY <1>5 DEF SaveWrite, EndOfSave, Return, TypeOK
  <2> QED BY <2>1
<1>6. ASSUME Crash PROVE StableInv'
  BY <1>6 DEF Crash
<1>7. ASSUME NEW c \in Cameras, AssignRefused(c) PROVE StableInv'
  BY <1>7 DEF AssignRefused, fileVars
<1>8. CASE UNCHANGED vars
  BY <1>8 DEF vars, fileVars, historyVars
<1>9. ~SaveOpenFails /\ ~SaveWriteFails
  BY DEF SaveOpenFails, SaveWriteFails
<1> QED
  BY <1>1, <1>2, <1>3, <1>4, <1>5, <1>6, <1>7, <1>8, <1>9 DEF Next, Assign, Save

(***************************************************************************)
(* A camera keeps its endpoint for ever, through crashes and restarts, as  *)
(* long as no save was lost and no entry dropped (slot_persistence.rs).    *)
(***************************************************************************)
THEOREM EndpointsStay == Spec => []EndpointStableWhileIntact
<1>1. Init => TypeOK /\ StableInv
  BY InitTypeOK DEF Init, StableInv
<1>2. (TypeOK /\ StableInv) /\ [Next]_vars => (TypeOK /\ StableInv)'
  BY NextTypeOK, NextStableInv
<1>3. TypeOK /\ StableInv => EndpointStableWhileIntact
  BY DEF TypeOK, StableInv, EndpointStableWhileIntact, EndpointStable
<1> QED BY <1>1, <1>2, <1>3, PTL DEF Spec
-----------------------------------------------------------------------------
(***************************************************************************)
(* SlotMap implements Binding.  Only a step that returns a slot to its     *)
(* caller changes what cameras were told.                                  *)
(***************************************************************************)
Returned(c) ==
  /\ c \in Cameras /\ running /\ map[c] # NoSlot
  /\ UNCHANGED map
  /\ landed' = [landed EXCEPT ![c] = @ \cup {map[c]}]

LEMMA WhoIsTold ==
  TypeOK /\ [Next]_vars =>
    /\ UNCHANGED landed \/ \E c \in Cameras : Returned(c)
    /\ (torn => torn') /\ (trimmed => trimmed')
<1> SUFFICES ASSUME TypeOK, [Next]_vars
             PROVE  /\ UNCHANGED landed \/ \E c \in Cameras : Returned(c)
                    /\ (torn => torn') /\ (trimmed => trimmed')
  OBVIOUS
<1> USE DEF TypeOK
<1>1. ASSUME NEW b \in Builds, NEW file \in {disk, EmptyMap}, Start(b, file)
      PROVE  UNCHANGED <<landed, torn>> /\ (trimmed => trimmed')
  BY <1>1 DEF Start
<1>2. ASSUME NEW c \in Cameras, AssignKnown(c)
      PROVE  Returned(c) /\ UNCHANGED <<torn, trimmed>>
  BY <1>2 DEF AssignKnown, Idle, Return, Returned
<1>3. ASSUME NEW c \in Cameras, NEW wants \in BOOLEAN,
             AssignNew(c, wants) \/ AssignRefused(c)
      PROVE  UNCHANGED <<landed, torn, trimmed>>
  BY <1>3 DEF AssignNew, AssignRefused
<1>4. ASSUME SaveTruncate PROVE UNCHANGED <<landed, torn, trimmed>>
  BY <1>4 DEF SaveTruncate, historyVars
<1>5. ASSUME SaveOpenFails \/ SaveWrite \/ SaveWriteFails
      PROVE  Returned(caller) /\ (torn => torn') /\ UNCHANGED trimmed
  BY <1>5, NoCameraAssumption
  DEF SaveOpenFails, SaveWrite, SaveWriteFails, EndOfSave, Return, Returned
<1>6. ASSUME Crash PROVE UNCHANGED <<landed, trimmed>> /\ (torn => torn')
  BY <1>6 DEF Crash
<1>7. ASSUME UNCHANGED vars PROVE UNCHANGED <<landed, torn, trimmed>>
  BY <1>7 DEF vars, historyVars
<1> QED
  BY <1>1, <1>2, <1>3, <1>4, <1>5, <1>6, <1>7 DEF Next, Assign, Save, Returned

(* A camera told its slot for the first time is given one nobody has.      *)
LEMMA FirstToldIsGive ==
  ASSUME TypeOK, SlotInv, StableInv, ~torn, ~trimmed,
         NEW c \in Cameras, Returned(c), landed[c] = {}
  PROVE  /\ map[c] \in UNION {AllSlots(b) : b \in Builds}
         /\ Told!Give(c, map[c])
<1>1. /\ landed \in [Cameras -> SUBSET Nat]
      /\ landed' = [landed EXCEPT ![c] = {map[c]}]
      /\ map \in PartialMap(Nat) /\ build \in Builds
  BY DEF TypeOK, Returned
<1>2. map[c] \in AllSlots(build)
  BY DEF SlotInv, SlotInRange, Bound, Returned
<1>3. Given(c) = NoSlot
  BY DEF Given, AnyOf
<1>4. ASSUME NEW d \in Cameras PROVE Given(d) # map[c]
  <2>1. CASE landed[d] = {}
    BY <2>1 DEF Given, AnyOf, Returned
  <2>2. CASE landed[d] # {}
    <3>1. Given(d) \in landed[d]
      BY <2>2 DEF Given, AnyOf
    <3>2. map[d] = Given(d)
      BY <3>1 DEF StableInv, Returned
    <3>3. Given(d) \in Nat
      BY <3>1, <1>1
    <3>4. c \in Bound(map) /\ d \in Bound(map) /\ c # d
      BY <2>2, <3>2, <3>3, NoSlotAssumption DEF Bound, Returned
    <3> QED
      BY <3>2, <3>4 DEF SlotInv, OneCameraPerSlot, Injective
  <2> QED BY <2>1, <2>2
<1>5. Given(c)' = map[c]
  <2>1. landed'[c] = {map[c]}
    BY <1>1
  <2> QED BY <2>1 DEF Given, AnyOf
<1>6. \A d \in Cameras \ {c} : Given(d)' = Given(d)
  <2>1. \A d \in Cameras \ {c} : landed'[d] = landed[d]
    BY <1>1
  <2> QED BY <2>1 DEF Given
<1>7. Told!Give(c, map[c])
  <2>1. [d \in Cameras |-> Given(d)]'
          = [[d \in Cameras |-> Given(d)] EXCEPT ![c] = map[c]]
    BY <1>5, <1>6
  <2> QED BY <1>3, <1>4, <2>1 DEF Told!Give
<1> QED BY <1>1, <1>2, <1>7

(* Told again what it was told before: nothing changes.                    *)
LEMMA ToldAgain ==
  ASSUME TypeOK, StableInv, ~torn, ~trimmed,
         NEW c \in Cameras, Returned(c), landed[c] # {}
  PROVE  UNCHANGED landed
<1>1. \A s \in landed[c] : map[c] = s
  BY DEF StableInv, Returned
<1>2. landed[c] \cup {map[c]} = landed[c] /\ landed \in [Cameras -> SUBSET Nat]
  BY <1>1 DEF TypeOK
<1> QED BY <1>2 DEF Returned

LEMMA StepBinds ==
  TypeOK /\ SlotInv /\ StableInv /\ [Next]_vars =>
    [Told!BindingNext]_<<[c \in Cameras |-> Given(c)], ~torn /\ ~trimmed>>
<1> SUFFICES ASSUME TypeOK, SlotInv, StableInv, [Next]_vars
             PROVE  [Told!BindingNext]_<<[c \in Cameras |-> Given(c)],
                                         ~torn /\ ~trimmed>>
  OBVIOUS
<1>1. CASE torn' \/ trimmed'
  BY <1>1 DEF Told!BindingNext
<1>2. CASE ~torn' /\ ~trimmed'
  <2>1. ~torn /\ ~trimmed
    BY <1>2, WhoIsTold
  <2>2. UNCHANGED (~torn /\ ~trimmed)
    BY <1>2, <2>1
  <2>3. CASE UNCHANGED landed
    <3>1. UNCHANGED [c \in Cameras |-> Given(c)]
      BY <2>3 DEF Given
    <3> QED BY <2>2, <3>1
  <2>4. ASSUME NEW c \in Cameras, Returned(c), landed[c] = {}
        PROVE  Told!BindingNext
    BY <2>1, <2>2, <2>4, FirstToldIsGive DEF Told!BindingNext
  <2>5. ASSUME NEW c \in Cameras, Returned(c), landed[c] # {}
        PROVE  UNCHANGED landed
    BY <2>1, <2>5, ToldAgain
  <2> QED BY <2>3, <2>4, <2>5, WhoIsTold
<1> QED BY <1>1, <1>2

(***************************************************************************)
(* Over the life of a storage directory, with any cameras, builds, crashes *)
(* and restarts, what SlotMap::assign tells its callers is a binding of    *)
(* cameras to slots for ever, as long as no save was lost and no entry     *)
(* dropped (slot_persistence.rs:3-9).                                      *)
(***************************************************************************)
THEOREM SlotMapBinds == Spec => ImplementsBinding
<1>1. Init => TypeOK /\ SlotInv /\ StableInv
  BY InitTypeOK, InitSlotInv DEF Init, StableInv
<1>2. Init => Told!BindingInit
  BY DEF Init, Told!BindingInit, Given, AnyOf
<1>3. (TypeOK /\ SlotInv /\ StableInv) /\ [Next]_vars
        => (TypeOK /\ SlotInv /\ StableInv)'
  BY NextTypeOK, NextSlotInv, NextStableInv
<1> QED
  BY <1>1, <1>2, <1>3, StepBinds, PTL
  DEF Spec, ImplementsBinding, Told!Bindings
=============================================================================
