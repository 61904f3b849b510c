---------------------------- MODULE CameraEvents ----------------------------
(***************************************************************************)
(* The events that carry cameras through the bridge, and what a queue of   *)
(* them says about a camera.  Discovery sends DiscoveryEvents              *)
(* (crates/onvif-client/src/discovery.rs), the registry broadcasts         *)
(* RegistryEvents (crates/onvif-client/src/registry.rs).                   *)
(*                                                                         *)
(* A CameraDevice is abstracted to its id and the two traits the bridge    *)
(* branches on: motion (supports_motion) and video (its first profile has  *)
(* a video encoder).                                                       *)
(***************************************************************************)
EXTENDS CameraIds, Integers, Sequences

CONSTANT Traits    \* traits a camera may report when it is connected to

TraitRec == [motion : BOOLEAN, video : BOOLEAN]
ASSUME TraitsAssumption == Traits \subseteq TraitRec

CameraFound(c, t)    == [kind |-> "found", id |-> c, traits |-> t]
CameraLost(c)        == [kind |-> "lost", id |-> c]
CameraUnreachable(c) == [kind |-> "unreachable", id |-> c]

DiscoveryEvents ==
  [kind : {"found"}, id : Cameras, traits : Traits]
    \cup [kind : {"lost", "unreachable"}, id : Cameras]

Added(c, t)   == [kind |-> "added", id |-> c, traits |-> t]
Updated(c, t) == [kind |-> "updated", id |-> c, traits |-> t]
Removed(c)    == [kind |-> "removed", id |-> c]

RegistryEvents ==
  [kind : {"added", "updated"}, id : Cameras, traits : Traits]
    \cup [kind : {"removed"}, id : Cameras]

(***************************************************************************)
(* Settles(q, c, was): whether camera c is present once all of q has been  *)
(* handled by someone for whom it is present now iff `was`.                *)
(***************************************************************************)
Arrivals   == {"found", "added", "updated"}
Departures == {"lost", "removed"}

About(q, c) ==
  {i \in DOMAIN q : q[i].id = c /\ q[i].kind \in Arrivals \cup Departures}

Settles(q, c, was) ==
  \/ About(q, c) = {} /\ was
  \/ \E i \in About(q, c) :
       /\ q[i].kind \in Arrivals
       /\ \A j \in About(q, c) : j <= i
=============================================================================
