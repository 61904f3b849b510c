----------------------------- MODULE Discovery -----------------------------
(***************************************************************************)
(* Auto mode of camera discovery (crates/onvif-client/src/discovery.rs,    *)
(* run_auto_loop and scan_once): probe the network, connect to every       *)
(* device in turn, and give a camera three scans to come back before it    *)
(* is reported lost.  Cameras move between addresses, go away and fail to  *)
(* answer while a scan is under way.  DiscoveryFeed says what all this     *)
(* amounts to for the reader of the channel.                               *)
(*                                                                         *)
(* An action stands for the code between two awaits that complete.  A send *)
(* waits for room in the channel; the scan's own maps, which nobody else   *)
(* reads, change with it.                                                  *)
(***************************************************************************)
EXTENDS OnvifConnect, FiniteSets

CONSTANTS Abilities,     \* what a connection to each camera can learn at best
          Addresses,     \* records [host, port]
          StaticList,    \* DiscoveryConfig.static_cameras, in order
          MissThreshold, \* MISS_THRESHOLD
          ChanCap,       \* capacity of the mpsc channel
          Nowhere        \* no address

ASSUME DiscoveryAssumption ==
  /\ Abilities \in [Cameras -> Connections]
  /\ \A c \in Cameras : \A r \in SUBSET Abilities[c] : TraitsOf(r) \in Traits
  /\ StaticList \in Seq(Addresses)
  /\ MissThreshold \in Nat \ {0}
  /\ ChanCap \in Nat \ {0}
  /\ Nowhere \notin Addresses

VARIABLES
  where,      \* external: the address each camera answers at, or Nowhere
  pc,         \* "sleep", "connect" or "sweep"
  todo,       \* devices still to be connected to in this scan
  found,      \* found_ids
  unchecked,  \* ids_to_check without found_ids, still to be counted
  discovered, \* the address kept for each id of `discovered`, or Nowhere
  missed,     \* missed_scans, 0 for an id without an entry
  inbox,      \* the channel to the bridge loop
  window,     \* history: was it found in the last MissThreshold scans
  announced   \* history: the address in the last CameraFound sent

scanVars == <<pc, todo, found, unchecked, discovered, missed>>
vars     == <<where, scanVars, inbox, window, announced>>

Places == Addresses \cup {Nowhere}
Known  == {c \in Cameras : discovered[c] # Nowhere}

Alone(w) == \A c, d \in Cameras : w[c] = w[d] /\ w[c] # Nowhere => c = d

Init ==
  /\ where \in {w \in [Cameras -> Places] : Alone(w)}
  /\ pc = "sleep"
  /\ todo = {} /\ found = {} /\ unchecked = {}
  /\ discovered = [c \in Cameras |-> Nowhere]
  /\ missed = [c \in Cameras |-> 0]
  /\ inbox = <<>>
  /\ window = [c \in Cameras |-> [i \in 1 .. MissThreshold |-> FALSE]]
  /\ announced = [c \in Cameras |-> Nowhere]

SendWithoutRoom(e) == inbox' = Append(inbox, e)

(* tx.send(e).await completes once the channel has room. *)
Send(e) == Len(inbox) < ChanCap /\ inbox' = Append(inbox, e)
-----------------------------------------------------------------------------
(* External: a camera gets another address, goes away or comes back. *)
Move(c, p) ==
  /\ p # where[c]
  /\ where' = [where EXCEPT ![c] = p]
  /\ Alone(where')
  /\ UNCHANGED <<scanVars, inbox, window, announced>>
-----------------------------------------------------------------------------
(***************************************************************************)
(* merge_devices: one device per host name, a static one if there is one,  *)
(* and among the static ones of a host the first.  The order of the probe  *)
(* answers and of HashMap::into_values is arbitrary.                       *)
(***************************************************************************)
StaticSet == {StaticList[i] : i \in DOMAIN StaticList}

FirstStatic(a) ==
  \E i \in DOMAIN StaticList :
    /\ StaticList[i] = a
    /\ \A j \in 1 .. i - 1 : StaticList[j].host # a.host

Merged(probed, devices) ==
  /\ devices \subseteq probed \cup StaticSet
  /\ \A a \in probed \cup StaticSet : \E d \in devices : d.host = a.host
  /\ \A a, d \in devices : a.host = d.host => a = d
  /\ \A a \in devices :
       (\E b \in StaticSet : b.host = a.host) => FirstStatic(a)

(* A probe may miss any camera, and the sleep before it may be any length. *)
BeginScan ==
  /\ pc = "sleep"
  /\ \E probed \in SUBSET {where[c] : c \in Cameras} :
     \E devices \in SUBSET (probed \cup StaticSet) :
       /\ probed \subseteq Addresses
       /\ Merged(probed, devices)
       /\ todo' = devices
  /\ found' = {}
  /\ pc' = "connect"
  /\ UNCHANGED <<where, unchecked, discovered, missed, inbox, window, announced>>

(***************************************************************************)
(* connect_camera succeeds at an address where a camera answers all that   *)
(* it must.  Only an id that is not in `discovered` is announced, wherever *)
(* it was before, with what this connection learned of it.                 *)
(***************************************************************************)
Learned(c) == {TraitsOf(r) : r \in {q \in SUBSET Abilities[c] : Connects(q)}}

AnnounceAlways(c, a) ==
  \E t \in Learned(c) :
    /\ Send(CameraFound(c, t))
    /\ announced' = [announced EXCEPT ![c] = a]

AnnounceNew(c, a) ==
  IF discovered[c] = Nowhere
    THEN \E t \in Learned(c) :
           /\ Send(CameraFound(c, t))
           /\ announced' = [announced EXCEPT ![c] = a]
    ELSE UNCHANGED <<inbox, announced>>

KeepMisses(c)  == UNCHANGED missed
ClearMisses(c) == missed' = [missed EXCEPT ![c] = 0]

ConnectOk(c, a) ==
  /\ pc = "connect" /\ a \in todo
  /\ where[c] = a
  /\ todo' = todo \ {a}
  /\ found' = found \cup {c}
  /\ ClearMisses(c)
  /\ AnnounceNew(c, a)
  /\ discovered' = [discovered EXCEPT ![c] = a]
  /\ UNCHANGED <<where, pc, unchecked, window>>

(* Refused, not authorised, timed out: logged, and the scan goes on. *)
ConnectFails(a) ==
  /\ pc = "connect" /\ a \in todo
  /\ todo' = todo \ {a}
  /\ UNCHANGED <<where, pc, found, unchecked, discovered, missed, inbox,
                 window, announced>>
-----------------------------------------------------------------------------
(* The window moves by one scan: a history, read by no guard. *)
Shift(c) ==
  [i \in 1 .. MissThreshold |-> IF i = 1 THEN c \in found ELSE window[c][i - 1]]

BeginSweep ==
  /\ pc = "connect" /\ todo = {}
  /\ unchecked' = Known \ found
  /\ pc' = "sweep"
  /\ window' = [c \in Cameras |-> Shift(c)]
  /\ UNCHANGED <<where, todo, found, discovered, missed, inbox, announced>>

SweepUnreachable(c) ==
  /\ pc = "sweep" /\ c \in unchecked
  /\ missed[c] + 1 < MissThreshold
  /\ missed' = [missed EXCEPT ![c] = @ + 1]
  /\ unchecked' = unchecked \ {c}
  /\ Send(CameraUnreachable(c))
  /\ UNCHANGED <<where, pc, todo, found, discovered, window, announced>>

SweepLostKeepsEntry(c) ==
  /\ pc = "sweep" /\ c \in unchecked
  /\ missed[c] + 1 >= MissThreshold
  /\ missed' = [missed EXCEPT ![c] = 0]
  /\ unchecked' = unchecked \ {c}
  /\ Send(CameraLost(c))
  /\ UNCHANGED <<where, pc, todo, found, discovered, window, announced>>

SweepLost(c) ==
  /\ pc = "sweep" /\ c \in unchecked
  /\ missed[c] + 1 >= MissThreshold
  /\ missed' = [missed EXCEPT ![c] = 0]
  /\ discovered' = [discovered EXCEPT ![c] = Nowhere]
  /\ unchecked' = unchecked \ {c}
  /\ Send(CameraLost(c))
  /\ UNCHANGED <<where, pc, todo, found, window, announced>>

EndScan ==
  /\ pc = "sweep" /\ unchecked = {}
  /\ pc' = "sleep"
  /\ UNCHANGED <<where, todo, found, unchecked, discovered, missed, inbox,
                 window, announced>>

(* The bridge loop takes the oldest event. *)
Take ==
  /\ inbox # <<>>
  /\ inbox' = Tail(inbox)
  /\ UNCHANGED <<where, scanVars, window, announced>>
-----------------------------------------------------------------------------
Scan ==
  \/ BeginScan
  \/ \E a \in Addresses : ConnectFails(a) \/ \E c \in Cameras : ConnectOk(c, a)
  \/ BeginSweep
  \/ \E c \in Cameras : SweepUnreachable(c) \/ SweepLost(c)
  \/ EndScan

Next ==
  \/ Scan
  \/ Take
  \/ \E c \in Cameras, p \in Places : Move(c, p)

Spec == Init /\ [][Next]_vars

(***************************************************************************)
(* The scan task sleeps, probes and connects with timeouts and goes on for *)
(* ever, and the bridge loop keeps reading its channel.  Nothing is        *)
(* assumed of the cameras.                                                 *)
(***************************************************************************)
FairSpec == Spec /\ WF_vars(Scan) /\ WF_vars(Take)
-----------------------------------------------------------------------------
TypeOK ==
  /\ where \in [Cameras -> Places]
  /\ pc \in {"sleep", "connect", "sweep"}
  /\ todo \in SUBSET Addresses
  /\ found \in SUBSET Cameras /\ unchecked \in SUBSET Cameras
  /\ discovered \in [Cameras -> Places]
  /\ missed \in [Cameras -> 0 .. MissThreshold - 1]
  /\ inbox \in Seq(DiscoveryEvents) /\ Len(inbox) <= ChanCap
  /\ window \in [Cameras -> [1 .. MissThreshold -> BOOLEAN]]
  /\ announced \in [Cameras -> Places]

(***************************************************************************)
(* Between scans the cameras discovery keeps are exactly those it found in *)
(* at least one of the last MissThreshold scans: a camera is lost after    *)
(* that many consecutive misses (discovery.rs:16), not earlier for misses  *)
(* of long ago and not later.                                              *)
(***************************************************************************)
KeptIffRecentlySeen ==
  pc = "sleep" =>
    \A c \in Cameras :
      c \in Known <=> \E i \in 1 .. MissThreshold : window[c][i]

(***************************************************************************)
(* The reader of the channel sees each camera announced, reported          *)
(* unreachable while it is announced, and withdrawn, in that order, and    *)
(* the last word about it agrees with what discovery keeps.                *)
(***************************************************************************)
Feed == INSTANCE DiscoveryFeed
          WITH Modes <- {"auto"}, StaticHosts <- 0,
               known <- Known, untried <- 0, sender <- "auto"

ImplementsFeed == Feed!Feed

(***************************************************************************)
(* A camera that is gone for good is withdrawn, and one that stays away    *)
(* is not announced again.                                                 *)
(***************************************************************************)
AbsentIsLost ==
  \A c \in Cameras :
    <>[](where[c] = Nowhere) => <>[](c \notin Known)

(***************************************************************************)
(* registry.rs:1 calls the registry the central store of discovered        *)
(* cameras, and registry.rs:45 "Add or update a camera in the registry".   *)
(* A camera found again at another address is updated in the scan's own    *)
(* map only (violation run): what the registry was last told is stale.     *)
(***************************************************************************)
AnnouncedAddressIsCurrent ==
  \A c \in Known : announced[c] = discovered[c]
=============================================================================
