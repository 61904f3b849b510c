------------------------ MODULE SensorEndpoint_proof -----------------------
(***************************************************************************)
(* Proofs about SensorEndpoint, for any cameras, controllers and versions: *)
(* its types, that it only ever identifies the camera that owns its slot   *)
(* and reports motion from where that camera has been, and that a          *)
(* controller with the current data version holds the current value.       *)
(***************************************************************************)
EXTENDS SensorEndpoint, SlotLife_proof

(* What a step of the endpoint is to its slot. *)
LEMMA SlotSteps == [Next]_vars => [LifeNext]_lifeVars
BY DEF Next, vars, BridgeThread, MainThread, Network, LoopStep, LifeNext

LEMMA SlotInv == Spec => []LifeInv
<1>1. Init => LifeInv
  BY LifeInitInv DEF Init
<1>2. LifeInv /\ [Next]_vars => LifeInv'
  BY SlotSteps, LifeInvStays
<1> QED
  BY <1>1, <1>2, PTL DEF Spec
-----------------------------------------------------------------------------
LEMMA ReadsStay ==
  ASSUME LifeInv, NeverTheWrongCamera, [Next]_vars
  PROVE  NeverTheWrongCamera'
<1> USE DEF NeverTheWrongCamera
<1>1. owner # None => owner' = owner
  BY SlotSteps, OwnerStays
<1>2. CASE ReadReachable \/ ReadIdentity
  BY <1>1, <1>2 DEF ReadReachable, ReadIdentity, LifeInv
<1>3. CASE UNCHANGED infoVars
  BY <1>1, <1>3 DEF infoVars
<1> QED
  BY <1>2, <1>3 DEF Next, vars, BridgeThread, MainThread, Network, InfoNext

(***************************************************************************)
(* main.rs:456-575: what is read of a slot in several reads, while cameras *)
(* come and go, may be out of date but is of the slot's owner.             *)
(***************************************************************************)
THEOREM InfoOnlyOfTheOwner == Spec => []NeverTheWrongCamera
<1>1. Init => NeverTheWrongCamera
  BY DEF Init, InfoInit, NeverTheWrongCamera
<1> QED
  BY <1>1, ReadsStay, SlotInv, PTL DEF Spec
-----------------------------------------------------------------------------
(* Every pump, detached or not, reads from an address the owner has had,   *)
(* from before its endpoint is furnished until it ends.                    *)
PumpInv ==
  /\ pumping <=> pumpsAt # {}
  /\ pumpsAt \subseteq Addresses
  /\ heldBy \in [Addresses -> SUBSET Cameras]
  /\ \A a \in pumpsAt : owner \in heldBy[a]
  /\ reporter \in Cameras \cup {None}
  /\ MotionFromTheOwnersAddress

LEMMA InitPumpInv == Init => PumpInv
BY DEF Init, LifeInit, OccInit, PumpInv, MotionFromTheOwnersAddress

(* What a step of the loop makes of the pumps. *)
LEMMA LoopPumps ==
  ASSUME LifeInv, PumpInv, LoopStep
  PROVE  /\ pumpsAt' \subseteq pumpsAt \cup AddressesOf(owner)
         /\ pumping' <=> pumpsAt' # {}
         /\ UNCHANGED <<motion, heldBy, reporter>>
<1>1. CASE Furnish /\ StartPump
  <2>1. occupant = owner
    BY <1>1 DEF Furnish, LifeInv
  <2> QED
    BY <1>1, <2>1 DEF StartPump, LoopStep
<1> QED
  BY <1>1 DEF LoopStep

LEMMA PumpStays ==
  ASSUME LifeInv, PumpInv, [Next]_vars
  PROVE  PumpInv'
<1> USE DEF MotionFromTheOwnersAddress
<1>1. owner # None => owner' = owner
  BY SlotSteps, OwnerStays
<1>2. None \notin Cameras
  BY LifeAssumption DEF LifeAssumption
<1>3. CASE LoopStep
  <2>1. /\ pumpsAt' \subseteq pumpsAt \cup AddressesOf(owner)
        /\ pumping' <=> pumpsAt' # {}
        /\ UNCHANGED <<motion, heldBy, reporter>>
    BY <1>3, LoopPumps
  <2>2. \A a \in pumpsAt' : a \in Addresses /\ owner \in heldBy[a]
    BY <2>1 DEF PumpInv, AddressesOf
  <2>3. \A a \in pumpsAt' : owner' \in heldBy[a]
    <3>1. \A a \in Addresses : None \notin heldBy[a]
      BY <1>2 DEF PumpInv
    <3> QED
      BY <1>1, <2>2, <3>1
  <2>4. reporter # None => owner' = owner
    BY <1>1, <1>2 DEF PumpInv
  <2> QED
    BY <2>1, <2>2, <2>3, <2>4 DEF PumpInv
<1>4. ASSUME NEW v \in BOOLEAN, SetMotion(v), UNCHANGED lifeVars PROVE PumpInv'
  <2>1. /\ UNCHANGED <<owner, pumping, pumpsAt, heldBy>>
        /\ Report
    BY <1>4 DEF SetMotion, lifeVars
  <2>2. PICK a \in pumpsAt : reporter' \in heldBy[a]
    BY <2>1 DEF Report
  <2>3. /\ a \in Addresses /\ reporter' \in Cameras
        /\ {owner', reporter'} \subseteq heldBy'[a]
    BY <2>1, <2>2 DEF PumpInv
  <2>4. reporter' # None
    BY <1>2, <2>3
  <2> QED
    BY <2>1, <2>3, <2>4 DEF PumpInv
<1>5. ASSUME NEW c \in Cameras, NEW b \in Addresses, TakeAddress(c, b),
             UNCHANGED lifeVars
      PROVE  PumpInv'
  <2>1. /\ UNCHANGED <<owner, pumping, pumpsAt, motion, reporter>>
        /\ heldBy' = [heldBy EXCEPT ![b] = @ \cup {c}]
    BY <1>5 DEF TakeAddress, lifeVars
  <2>2. /\ heldBy' \in [Addresses -> SUBSET Cameras]
        /\ \A a \in Addresses : heldBy[a] \subseteq heldBy'[a]
    BY <2>1 DEF PumpInv
  <2> QED
    BY <2>1, <2>2 DEF PumpInv
<1>6. CASE (Bump /\ UNCHANGED lifeVars) \/ MainThread \/ UNCHANGED vars
  <2>1. UNCHANGED <<lifeVars, motion, pumpVars>>
    BY <1>6 DEF Bump, MainThread, Handler, LoadVersion, SkipRead, SendValue,
                HandlerBump, occVars, vars
  <2> QED
    BY <2>1 DEF lifeVars, pumpVars, PumpInv
<1> QED
  BY <1>3, <1>4, <1>5, <1>6 DEF Next, BridgeThread, Network, Pump

(***************************************************************************)
(* cluster_occupancy.rs:71-74 with onvif_bridge.rs:219-248: although the   *)
(* flag outlives its camera, a pump may outlive its handle and cameras may *)
(* change address under it, motion is only reported from an address the    *)
(* slot's owner has had.                                                   *)
(***************************************************************************)
THEOREM MotionFromWhereTheOwnerWas == Spec => []MotionFromTheOwnersAddress
<1>1. PumpInv => MotionFromTheOwnersAddress
  BY DEF PumpInv
<1> QED
  BY <1>1, InitPumpInv, PumpStays, SlotInv, PTL DEF Spec

(* No two cameras have had one address. *)
AddressesKept ==
  \A a \in Addresses : \A c, d \in heldBy[a] : c = d

(***************************************************************************)
(* As long as no address has passed from one camera to another, the motion *)
(* an endpoint reports is the owner's.                                     *)
(***************************************************************************)
THEOREM MotionOfTheOwner ==
  Spec => [](AddressesKept => reporter \in {None, owner})
<1>1. MotionFromTheOwnersAddress => (AddressesKept => reporter \in {None, owner})
  BY DEF MotionFromTheOwnersAddress, AddressesKept
<1> QED
  BY <1>1, MotionFromWhereTheOwnerWas, PTL
-----------------------------------------------------------------------------
(* The types of the flag and of the reader; SlotInv and PumpInv have those *)
(* of the slot and of the pumps.                                           *)
SmallTypes ==
  /\ motion \in BOOLEAN /\ bumpDue \in BOOLEAN
  /\ dataver \in Versions /\ loaded \in Versions
  /\ reader \in Controllers \cup {Nobody}
  /\ cache \in [Controllers -> Value \cup {NoCache}]
  /\ InfoTypeOK

LEMMA BumpedFacts ==
  /\ Versions \subseteq Nat
  /\ dataver \in Versions => Bumped \in Versions
BY OccupancyAssumption DEF OccupancyAssumption, Versions, Bumped

LEMMA SmallTypesStay ==
  ASSUME LifeInv, SmallTypes, [Next]_vars
  PROVE  SmallTypes'
<1> USE DEF SmallTypes, InfoTypeOK
<1>1. CASE LoopStep /\ UNCHANGED infoVars
  BY <1>1 DEF LoopStep, infoVars
<1>2. ASSUME NEW v \in BOOLEAN, SetMotion(v), UNCHANGED infoVars PROVE SmallTypes'
  BY <1>2 DEF SetMotion, infoVars
<1>3. CASE Bump /\ UNCHANGED infoVars
  BY <1>3, BumpedFacts DEF Bump, infoVars
<1>4. ASSUME NEW k \in Controllers, LoadVersion(k) \/ SkipRead(k),
             UNCHANGED infoVars
      PROVE  SmallTypes'
  BY <1>4 DEF LoadVersion, SkipRead, infoVars
<1>5. ASSUME NEW k \in Controllers, SendValue(k), UNCHANGED infoVars
      PROVE  SmallTypes'
  <2>1. [version |-> loaded, motion |-> motion] \in Value
    BY DEF Value
  <2>2. cache' \in [Controllers -> Value \cup {NoCache}]
    BY <1>5, <2>1 DEF SendValue
  <2> QED
    BY <1>5, <2>2 DEF SendValue, infoVars
<1>6. CASE HandlerBump /\ UNCHANGED infoVars
  BY <1>6, BumpedFacts DEF HandlerBump, infoVars
<1>7. CASE InfoNext /\ UNCHANGED occVars
  BY <1>7 DEF InfoNext, ReadReachable, ReadIdentity, LifeInv, LifeTypeOK,
              occVars
<1>8. CASE Network \/ UNCHANGED vars
  BY <1>8 DEF Network, TakeAddress, vars, occVars, infoVars
<1> QED
  BY <1>1, <1>2, <1>3, <1>4, <1>5, <1>6, <1>7, <1>8
     DEF Next, BridgeThread, MainThread, Pump, Handler
-----------------------------------------------------------------------------
(***************************************************************************)
(* A version that was current is d bumps behind, and d is at most the      *)
(* bumps there have been.  MaxBumps is below the modulus (a controller     *)
(* does not sleep through 2^32 bumps), so only the current version is zero *)
(* bumps behind: each bump makes every version that was handed out stale.  *)
(***************************************************************************)
Behind(v, d) == dataver = v + d \/ dataver = v + d - VersionModulus

WasCurrent(v) == \E d \in 0 .. bumps : Behind(v, d)

BumpsOK ==
  /\ bumps \in 0 .. MaxBumps
  /\ bumpDue => bumps < MaxBumps

DataInv ==
  /\ BumpsOK
  /\ reader # Nobody => WasCurrent(loaded)
  /\ \A k \in Controllers : cache[k] # NoCache => WasCurrent(cache[k].version)
  /\ CurrentVersionCurrentValue

(* A bump makes every version that was current a stale one. *)
LEMMA BumpStales ==
  ASSUME dataver \in Versions, bumps \in Nat, bumps + 1 <= MaxBumps,
         dataver' = Bumped, bumps' = bumps + 1,
         NEW v \in Versions, WasCurrent(v)
  PROVE  WasCurrent(v)' /\ v # dataver'
<1>1. PICK d \in 0 .. bumps : Behind(v, d)
  BY DEF WasCurrent
<1>2. /\ VersionModulus \in Nat /\ MaxBumps < VersionModulus
      /\ v \in 0 .. VersionModulus - 1 /\ dataver \in 0 .. VersionModulus - 1
      /\ MaxBumps \in Nat
  BY OccupancyAssumption DEF OccupancyAssumption, Versions
<1>3. dataver' = IF dataver + 1 = VersionModulus THEN 0 ELSE dataver + 1
  BY <1>2 DEF Bumped
<1>4. d + 1 \in 0 .. bumps' /\ d + 1 < VersionModulus
  BY <1>1, <1>2
<1>5. dataver' = v + (d + 1) \/ dataver' = v + (d + 1) - VersionModulus
  BY <1>1, <1>2, <1>3, <1>4 DEF Behind
<1>6. v # dataver'
  BY <1>2, <1>4, <1>5
<1> QED
  BY <1>4, <1>5, <1>6 DEF WasCurrent, Behind

LEMMA CurrentIsCurrent ==
  ASSUME dataver \in Versions, bumps \in Nat
  PROVE  WasCurrent(dataver)
<1>1. 0 \in 0 .. bumps /\ dataver = dataver + 0
  BY OccupancyAssumption DEF OccupancyAssumption, Versions
<1> QED
  BY <1>1 DEF WasCurrent, Behind

LEMMA InitDataInv == Init => DataInv /\ SmallTypes
<1> SUFFICES ASSUME Init PROVE DataInv /\ SmallTypes
  OBVIOUS
<1> USE DEF Init, LifeInit, OccInit, InfoInit
<1>1. BumpsOK
  BY OccupancyAssumption DEF OccupancyAssumption, BumpsOK
<1>2. DataInv
  BY <1>1 DEF DataInv, CurrentVersionCurrentValue
<1>3. SmallTypes
  BY DEF SmallTypes, InfoTypeOK
<1> QED
  BY <1>2, <1>3

(* The two that bump: the bump the pump owes, and rs-matter's own. *)
LEMMA BumpKeepsData ==
  ASSUME SmallTypes, DataInv, UNCHANGED <<motion, reader, loaded, cache>>,
         bumps < MaxBumps, dataver' = Bumped, bumps' = bumps + 1,
         BumpsOK'
  PROVE  DataInv'
<1>1. bumps \in Nat /\ bumps + 1 <= MaxBumps
  BY OccupancyAssumption DEF OccupancyAssumption, DataInv, BumpsOK
<1>2. \A v \in Versions : WasCurrent(v) => WasCurrent(v)' /\ v # dataver'
  BY <1>1, BumpStales DEF SmallTypes
<1>3. reader' # Nobody => WasCurrent(loaded)'
  BY <1>2 DEF DataInv, SmallTypes, WasCurrent, Behind
<1>4. ASSUME NEW k \in Controllers, cache'[k] # NoCache
      PROVE  WasCurrent(cache[k].version)' /\ cache'[k].version # dataver'
  <2> DEFINE v == cache[k].version
  <2>1. v \in Versions /\ cache'[k] = cache[k]
    BY <1>4 DEF SmallTypes, Value
  <2>2. WasCurrent(v)
    BY <1>4, <2>1 DEF DataInv
  <2> QED
    BY <1>2, <2>1, <2>2 DEF WasCurrent, Behind
<1> QED
  BY <1>3, <1>4 DEF DataInv, CurrentVersionCurrentValue

(* Steps that leave the versions alone. *)
LEMMA DataStays ==
  ASSUME LifeInv, SmallTypes, DataInv, [Next]_vars
  PROVE  DataInv'
<1>1. ASSUME UNCHANGED <<dataver, bumps>>
      PROVE  \A v : WasCurrent(v) => WasCurrent(v)'
  BY <1>1 DEF WasCurrent, Behind
<1>2. CASE UNCHANGED <<motion, dataver, bumpDue, bumps, reader, loaded, cache>>
  <2>1. BumpsOK'
    BY <1>2 DEF DataInv, BumpsOK
  <2> QED
    BY <1>1, <1>2, <2>1 DEF DataInv, CurrentVersionCurrentValue
<1>3. ASSUME NEW v \in BOOLEAN, SetMotion(v) PROVE DataInv'
  <2>1. /\ UNCHANGED <<dataver, bumps, reader, loaded, cache>>
        /\ motion' = v /\ bumps < MaxBumps /\ ~bumpDue
        /\ bumpDue' = (v # motion)
    BY <1>3 DEF SetMotion
  <2>2. BumpsOK'
    BY <2>1 DEF DataInv, BumpsOK
  <2>3. CurrentVersionCurrentValue'
    BY <2>1 DEF DataInv, CurrentVersionCurrentValue
  <2> QED
    BY <1>1, <2>1, <2>2, <2>3 DEF DataInv
<1>4. CASE Bump
  <2>1. BumpsOK' /\ bumps < MaxBumps
    BY <1>4, OccupancyAssumption DEF OccupancyAssumption, Bump, DataInv, BumpsOK
  <2> QED
    BY <1>4, <2>1, BumpKeepsData DEF Bump
<1>5. ASSUME NEW k \in Controllers, LoadVersion(k) PROVE DataInv'
  <2>1. /\ UNCHANGED <<motion, dataver, bumpDue, bumps, cache>>
        /\ loaded' = dataver
    BY <1>5 DEF LoadVersion
  <2>2. WasCurrent(loaded)'
    BY <1>1, <2>1, CurrentIsCurrent DEF SmallTypes, DataInv, BumpsOK
  <2>3. BumpsOK'
    BY <2>1 DEF DataInv, BumpsOK
  <2> QED
    BY <1>1, <2>1, <2>2, <2>3 DEF DataInv, CurrentVersionCurrentValue
<1>6. ASSUME NEW k \in Controllers, SkipRead(k) PROVE DataInv'
  <2>1. /\ UNCHANGED <<motion, dataver, bumpDue, bumps, cache>>
        /\ reader' = Nobody
    BY <1>6 DEF SkipRead
  <2>2. BumpsOK'
    BY <2>1 DEF DataInv, BumpsOK
  <2> QED
    BY <1>1, <2>1, <2>2 DEF DataInv, CurrentVersionCurrentValue
<1>7. ASSUME NEW k \in Controllers, SendValue(k) PROVE DataInv'
  <2>1. /\ UNCHANGED <<motion, dataver, bumpDue, bumps>>
        /\ reader = k /\ reader' = Nobody
        /\ cache' = [cache EXCEPT ![k] = [version |-> loaded, motion |-> motion]]
    BY <1>7 DEF SendValue
  <2>2. BumpsOK'
    BY <2>1 DEF DataInv, BumpsOK
  <2>3. /\ cache'[k].version = loaded /\ cache'[k].motion = motion
        /\ \A j \in Controllers : j # k => cache'[j] = cache[j]
    BY <2>1 DEF SmallTypes
  <2>4. WasCurrent(loaded)
    BY <2>1, OccupancyAssumption DEF OccupancyAssumption, DataInv
  <2>5. \A j \in Controllers :
          cache'[j] # NoCache => WasCurrent(cache'[j].version)
    BY <2>3, <2>4 DEF DataInv
  <2>6. CurrentVersionCurrentValue'
    BY <2>1, <2>3 DEF DataInv, CurrentVersionCurrentValue
  <2>7. \A j \in Controllers :
          cache'[j] # NoCache => WasCurrent(cache[j].version)'
    BY <2>1, <2>5 DEF WasCurrent, Behind
  <2> QED
    BY <2>1, <2>2, <2>6, <2>7 DEF DataInv
<1>8. CASE HandlerBump
  <2>1. BumpsOK' /\ bumps < MaxBumps
    BY <1>8, OccupancyAssumption
       DEF OccupancyAssumption, HandlerBump, DataInv, BumpsOK, SmallTypes
  <2> QED
    BY <1>8, <2>1, BumpKeepsData DEF HandlerBump
<1> QED
  BY <1>2, <1>3, <1>4, <1>5, <1>6, <1>7, <1>8
     DEF Next, vars, occVars, BridgeThread, MainThread, Network, TakeAddress,
         LoopStep, Pump, Handler

LEMMA SensorInv == Spec => [](LifeInv /\ PumpInv /\ SmallTypes /\ DataInv)
<1> QED
  BY InitPumpInv, InitDataInv, SlotInv, PumpStays, SmallTypesStay, DataStays, PTL DEF Spec

(***************************************************************************)
(* cluster_occupancy.rs:43-101: any number of controllers reading while    *)
(* the pump writes: whoever holds the current data version holds the       *)
(* current value, or the bump that tells it otherwise is due.              *)
(***************************************************************************)
THEOREM FilterHidesNothing == Spec => []CurrentVersionCurrentValue
<1>1. DataInv => CurrentVersionCurrentValue
  BY DEF DataInv
<1> QED
  BY <1>1, SensorInv, PTL

(***************************************************************************)
(* The endpoint keeps its types: no version is ever past its modulus.      *)
(***************************************************************************)
THEOREM SensorTypes == Spec => []TypeOK
<1>1. LifeInv /\ PumpInv /\ SmallTypes /\ DataInv => TypeOK
  BY DEF LifeInv, PumpInv, SmallTypes, DataInv, BumpsOK,
         TypeOK, OccTypeOK, LifeTypeOK
<1> QED
  BY <1>1, SensorInv, PTL
=============================================================================
