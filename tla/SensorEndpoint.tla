--------------------------- MODULE SensorEndpoint ---------------------------
(***************************************************************************)
(* What controllers read of one camera slot: the bridge thread lives the   *)
(* life of the slot and runs its motion pump, the main thread serves reads *)
(* of the occupancy and the bridged information cluster, one at a time.    *)
(***************************************************************************)
EXTENDS Occupancy, BridgedInfo

vars == <<lifeVars, occVars, infoVars>>

Init == LifeInit /\ OccInit /\ InfoInit

BridgeThread ==
  /\ LoopStep \/ (Pump /\ UNCHANGED lifeVars)
  /\ UNCHANGED infoVars

MainThread ==
  /\ \/ Handler /\ UNCHANGED infoVars
     \/ reader = Nobody /\ InfoNext /\ UNCHANGED occVars
  /\ UNCHANGED lifeVars

Network ==
  /\ \E c \in Cameras, a \in Addresses : TakeAddress(c, a)
  /\ UNCHANGED <<lifeVars, infoVars>>

Next == BridgeThread \/ MainThread \/ Network

Spec == Init /\ [][Next]_vars
-----------------------------------------------------------------------------
TypeOK == LifeTypeOK /\ OccTypeOK /\ InfoTypeOK
=============================================================================
