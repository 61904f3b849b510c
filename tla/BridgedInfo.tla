---------------------------- MODULE BridgedInfo ----------------------------
(***************************************************************************)
(* BridgedDeviceBasicInformation of one slot (crates/bridge/src/main.rs:   *)
(* 456-575): controllers read presence and identity of the camera that     *)
(* shows, attribute by attribute, each under a read lock of its own.       *)
(*                                                                         *)
(* The bridge loop never changes the cluster's data version.  A controller *)
(* that sends it back as a filter keeps what it holds, which is the same   *)
(* as not reading.                                                         *)
(***************************************************************************)
EXTENDS SlotLife

CONSTANT Unread  \* an attribute not read yet

ASSUME BridgedAssumption == Unread \notin Cameras \cup {None}

(* What a controller holds.  Controllers do not affect each other: one.    *)
VARIABLES
  present,   \* the camera Reachable was TRUE for, or None
  identity   \* the camera UniqueID and the other strings are of, None: empty

infoVars == <<present, identity>>

InfoInit == present = Unread /\ identity = Unread

ReadReachable ==
  /\ present' = occupant
  /\ UNCHANGED identity

ReadIdentity ==
  /\ identity' = occupant
  /\ UNCHANGED present

InfoNext == ReadReachable \/ ReadIdentity
-----------------------------------------------------------------------------
InfoTypeOK ==
  /\ present  \in Cameras \cup {None, Unread}
  /\ identity \in Cameras \cup {None, Unread}

(***************************************************************************)
(* What a controller puts together from reads at different times may be    *)
(* out of date, reachable with no name or named but unreachable, and stays *)
(* so while the data version does not change (main.rs:515): but it never   *)
(* mixes two cameras, and never is of one that does not own the slot.      *)
(***************************************************************************)
NeverTheWrongCamera == {present, identity} \subseteq {Unread, None, owner}
=============================================================================
