----------------------------- MODULE Occupancy -----------------------------
(***************************************************************************)
(* One occupancy endpoint (crates/matter-camera/src/cluster_occupancy.rs): *)
(* the motion pump of the bridge thread writes the flag and then bumps the *)
(* cluster's data version, while the Matter executor on the main thread    *)
(* loads the version and then the flag.  Neither holds a lock over the     *)
(* pair.  A controller that sends its last data version as a filter gets   *)
(* no value if the version is still the same.                              *)
(*                                                                         *)
(* Steps are single atomic operations.  The pumps run on the bridge thread *)
(* like the bridge loop, which lives the life of SlotLife: no step of the  *)
(* loop falls between the two operations of a pump.  The flag keeps its    *)
(* value when the pump and its camera are gone.                            *)
(*                                                                         *)
(* A pump keeps the address its camera had when it was found, and connects *)
(* to it again and again: it reads the events of whichever camera answers  *)
(* there.  Which one that is, is external: any that has been there so far, *)
(* for addresses come and go, and a reply may be on its way when they do.  *)
(***************************************************************************)
EXTENDS SlotLife

CONSTANTS Addresses,       \* host and port, with the events URL there
          Controllers,     \* Matter controllers that read the cluster
          Nobody,          \* no read in progress
          NoCache,         \* a controller that has read nothing yet
          VersionModulus,  \* 2^32: OccupancyDataver wraps
          MaxBumps         \* bound on the bumps of one behaviour

ASSUME OccupancyAssumption ==
  /\ VersionModulus \in Nat /\ MaxBumps \in Nat
  /\ MaxBumps < VersionModulus
  /\ Nobody \notin Controllers

Versions == 0 .. VersionModulus - 1
Value    == [version : Versions, motion : BOOLEAN]
ASSUME NoCacheAssumption == NoCache \notin Value

VARIABLES
  motion,   \* MotionState
  dataver,  \* OccupancyDataver
  pumpsAt,  \* the addresses the running pumps were spawned with
  heldBy,   \* external: the cameras each address has had so far
  bumpDue,  \* a pump has changed the flag and is about to bump the version
  reporter, \* the camera whose event was written last, or None (history)
  reader,   \* the controller whose read is being served
  loaded,   \* the version the handler has loaded for it
  cache,    \* what each controller last received
  bumps     \* bumps so far, at most MaxBumps

pumpVars == <<pumpsAt, heldBy, reporter>>
occVars  == <<motion, dataver, pumpVars, bumpDue, reader, loaded, cache, bumps>>

(* main.rs:242-244: versions start at random. *)
OccInit ==
  /\ motion = FALSE
  /\ dataver \in Versions
  /\ pumpsAt = {} /\ bumpDue = FALSE /\ reporter = None
  /\ heldBy = [a \in Addresses |-> {}]
  /\ reader = Nobody
  /\ loaded \in Versions
  /\ cache = [k \in Controllers |-> NoCache]
  /\ bumps = 0
-----------------------------------------------------------------------------
TakeAddress(c, a) ==
  /\ heldBy' = [heldBy EXCEPT ![a] = @ \cup {c}]
  /\ UNCHANGED <<motion, dataver, pumpsAt, bumpDue, reporter, reader, loaded,
                 cache, bumps>>

AddressesOf(c) == {a \in Addresses : c \in heldBy[a]}

StartPumpOfAnother ==
  \E c \in Cameras : \E a \in AddressesOf(c) : pumpsAt' = pumpsAt \cup {a}

(* The camera of the event that is handled, where it was when it was found. *)
StartPump == \E a \in AddressesOf(occupant) : pumpsAt' = pumpsAt \cup {a}

(* The bridge loop.  An abort ends the pump that is not detached. *)
LoopStep ==
  /\ ~bumpDue
  /\ \/ LifeNext /\ UNCHANGED pumpsAt
     \/ Furnish /\ StartPump
     \/ Unname /\ pumpsAt' \in SUBSET pumpsAt
  /\ pumping' = (pumpsAt' # {})
  /\ UNCHANGED <<motion, dataver, heldBy, bumpDue, reporter, reader, loaded,
                 cache, bumps>>

BumpedUnwrapped == dataver + 1
Bumped          == (dataver + 1) % VersionModulus

(***************************************************************************)
(* The on_change closure: MotionState::set swaps the flag and says whether *)
(* it changed, and only then is the version bumped.                        *)
(***************************************************************************)
Report == \E a \in pumpsAt : reporter' \in heldBy[a]

SetMotionNoBump(v) ==
  /\ pumping /\ ~bumpDue
  /\ motion' = v
  /\ Report
  /\ UNCHANGED <<dataver, pumpsAt, heldBy, bumpDue, reader, loaded, cache, bumps>>

SetMotion(v) ==
  /\ pumping /\ ~bumpDue
  /\ bumps < MaxBumps
  /\ motion' = v
  /\ Report
  /\ bumpDue' = (v # motion)
  /\ UNCHANGED <<dataver, pumpsAt, heldBy, reader, loaded, cache, bumps>>

Bump ==
  /\ bumpDue
  /\ dataver' = Bumped
  /\ bumps' = bumps + 1
  /\ bumpDue' = FALSE
  /\ UNCHANGED <<motion, pumpVars, reader, loaded, cache>>
-----------------------------------------------------------------------------
(***************************************************************************)
(* OccupancyHandler::read for controller k, with or without its last       *)
(* version as a filter.  The executor serves one read at a time.           *)
(***************************************************************************)
LoadVersion(k) ==
  /\ reader = Nobody
  /\ reader' = k
  /\ loaded' = dataver
  /\ UNCHANGED <<motion, dataver, pumpVars, bumpDue, cache, bumps>>

(* with_dataver: the filter matches, and no value is sent. *)
SkipRead(k) ==
  /\ reader = k
  /\ cache[k] # NoCache /\ cache[k].version = loaded
  /\ reader' = Nobody
  /\ UNCHANGED <<motion, dataver, pumpVars, bumpDue, loaded, cache, bumps>>

SendValue(k) ==
  /\ reader = k
  /\ cache' = [cache EXCEPT ![k] = [version |-> loaded, motion |-> motion]]
  /\ reader' = Nobody
  /\ UNCHANGED <<motion, dataver, pumpVars, bumpDue, loaded, bumps>>

(* rs-matter bumps the version through the handler, between reads. *)
HandlerBump ==
  /\ reader = Nobody
  /\ bumps + (IF bumpDue THEN 1 ELSE 0) < MaxBumps
  /\ dataver' = Bumped
  /\ bumps' = bumps + 1
  /\ UNCHANGED <<motion, pumpVars, bumpDue, reader, loaded, cache>>

Pump    == (\E v \in BOOLEAN : SetMotion(v)) \/ Bump
Handler == \/ \E k \in Controllers : LoadVersion(k) \/ SkipRead(k) \/ SendValue(k)
           \/ HandlerBump
-----------------------------------------------------------------------------
OccTypeOK ==
  /\ motion \in BOOLEAN
  /\ dataver \in Versions
  /\ pumpsAt \in SUBSET Addresses /\ reporter \in Cameras \cup {None}
  /\ heldBy \in [Addresses -> SUBSET Cameras]
  /\ bumpDue \in BOOLEAN
  /\ reader \in Controllers \cup {Nobody}
  /\ loaded \in Versions
  /\ cache \in [Controllers -> Value \cup {NoCache}]
  /\ bumps \in 0 .. MaxBumps

(***************************************************************************)
(* A controller that holds the current data version holds the current      *)
(* value, unless the bump that will tell it otherwise is already due.  So  *)
(* no filtered read can hide a change for good: this is what the order set *)
(* then bump, and load version then load flag, is for.                     *)
(***************************************************************************)
CurrentVersionCurrentValue ==
  \A k \in Controllers :
    ~bumpDue /\ cache[k] # NoCache /\ cache[k].version = dataver =>
      cache[k].motion = motion

(***************************************************************************)
(* Removing a camera does not reset its motion flag, a pump whose handle   *)
(* was dropped goes on writing it, and no pump checks who answers at its   *)
(* address (onvif_bridge.rs:221-226, motion.rs:78-86).  Still, the flag is *)
(* only ever written from an address the slot's owner has had: the motion  *)
(* shown was seen by the owner, or by a camera that had an address of the  *)
(* owner too.  The second does happen when cameras trade addresses.        *)
(***************************************************************************)
MotionFromTheOwnersAddress ==
  /\ motion => reporter # None
  /\ reporter # None => \E a \in Addresses : {owner, reporter} \subseteq heldBy[a]
=============================================================================
