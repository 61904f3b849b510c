--------------------------- MODULE SlotLife_proof ---------------------------
(***************************************************************************)
(* What the Matter thread can rely on of a slot, for any cameras and names *)
(* and whatever comes and goes: the lemmas under the proofs of             *)
(* MediaEndpoint and SensorEndpoint.                                       *)
(***************************************************************************)
EXTENDS SlotLife, TLAPS

(* A published name is the owner's, and a camera that shows is the owner.  *)
LifeInv ==
  /\ LifeTypeOK
  /\ name # None => owner # None /\ name = StreamName[owner]
  /\ occupant # None => occupant = owner

LEMMA LifeInitInv == LifeInit => LifeInv
BY LifeAssumption DEF LifeInit, LifeInv, LifeTypeOK, LifeAssumption

(* The owner is for ever: no step takes a slot away from a camera.         *)
LEMMA OwnerStays ==
  ASSUME [LifeNext]_lifeVars, owner # None
  PROVE  owner' = owner
BY DEF LifeNext, lifeVars, Bind, PublishName, Show, Furnish, Clear, Unname

LEMMA LifeInvStays ==
  ASSUME LifeInv, [LifeNext]_lifeVars
  PROVE  LifeInv'
<1> USE LifeAssumption DEF LifeInv, LifeTypeOK, LifeAssumption
<1>1. ASSUME NEW c \in Cameras, Bind(c) PROVE LifeInv'
  BY <1>1 DEF Bind
<1>2. CASE PublishName
  BY <1>2 DEF PublishName
<1>3. CASE Show \/ Clear
  BY <1>3 DEF Show, Clear
<1>4. CASE Furnish
  BY <1>4 DEF Furnish
<1>5. CASE Unname
  BY <1>5 DEF Unname
<1>6. CASE UNCHANGED lifeVars
  BY <1>6 DEF lifeVars
<1> QED
  BY <1>1, <1>2, <1>3, <1>4, <1>5, <1>6 DEF LifeNext
-----------------------------------------------------------------------------
(***************************************************************************)
(* onvif_bridge.rs:184-298: whatever the bridge loop does to a slot, its   *)
(* types hold, a published stream name is that of the camera the slot      *)
(* belongs to, and no other camera shows there.                            *)
(***************************************************************************)
THEOREM SlotLifeInv == Life => []LifeInv
BY LifeInitInv, LifeInvStays, PTL DEF Life
=============================================================================
