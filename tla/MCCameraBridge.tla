--------------------------- MODULE MCCameraBridge ---------------------------
(* Small instances of CameraBridge for TLC. *)
EXTENDS CameraBridge, FiniteSets, TLC

CONSTANTS c1, c2, c3, shared

TwoCameras   == {c1, c2}
ThreeCameras == {c1, c2, c3}

MCNoSlot == -1

Pools(capacity, withOccupancy) ==
  [capacity |-> capacity, withOccupancy |-> withOccupancy]

(* One slot with the occupancy cluster and one without. *)
MCBuild == Pools(2, 1)

(* A single slot, for two cameras to compete for. *)
TinyBuild == Pools(1, 1)

Trait(m, v) == [motion |-> m, video |-> v]

(* A camera's motion topic and video encoder come and go together. *)
TwoTraits == {Trait(TRUE, TRUE), Trait(FALSE, FALSE)}

AutoMode  == {"auto"}
BothModes == {"auto", "static"}

(* Two ids that differ only in characters sanitize_stream_name replaces. *)
MCNames      == {shared}
MCStreamName == [c \in Cameras |-> shared]

(* Names that tell the cameras apart. *)
OwnName == [c \in Cameras |-> c]

Symmetric == Permutations(ThreeCameras)
=============================================================================
