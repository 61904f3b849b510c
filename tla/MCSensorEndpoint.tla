-------------------------- MODULE MCSensorEndpoint --------------------------
(* A small instance of SensorEndpoint for TLC. *)
EXTENDS SensorEndpoint, TLC

CONSTANTS c1, c2, k1, k2, a1, a2

TwoCameras     == {c1, c2}
TwoControllers == {k1, k2}
TwoAddresses   == {a1, a2}

OwnName == [c \in TwoCameras |-> c]

Symmetric ==
  Permutations(TwoControllers) \cup Permutations(TwoCameras)
    \cup Permutations(TwoAddresses)
=============================================================================
