----------------------------- MODULE MCSlotMap -----------------------------
(* Small instances of SlotMap for TLC. *)
EXTENDS SlotMap, FiniteSets, TLC

CONSTANTS c1, c2, c3

ThreeCameras == {c1, c2, c3}

MCNoSlot == -1

Pools(capacity, withOccupancy) ==
  [capacity |-> capacity, withOccupancy |-> withOccupancy]

(* A build with fewer slots than cameras, and another split: a pool of     *)
(* each kind fills up, entries are dropped, and slots change pools.        *)
TwoBuilds == {Pools(2, 1), Pools(3, 2)}

Symmetric == Permutations(ThreeCameras)
=============================================================================
