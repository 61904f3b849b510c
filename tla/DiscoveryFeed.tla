--------------------------- MODULE DiscoveryFeed ---------------------------
(***************************************************************************)
(* What camera discovery promises to the bridge loop that reads its        *)
(* channel: the abstract specification of                                  *)
(* crates/onvif-client/src/discovery.rs.  Discovery implements it for the  *)
(* periodic scan; CameraBridge runs on it in both modes.                   *)
(*                                                                         *)
(* In auto mode a camera that is not known may be announced, and a known   *)
(* one withdrawn or reported unreachable, over and over.  In static mode   *)
(* each configured host is tried once, successful ones are announced, and  *)
(* then the sender is dropped.                                             *)
(***************************************************************************)
EXTENDS CameraEvents

CONSTANTS Modes,        \* possible values of DiscoveryConfig.mode
          ChanCap,      \* capacity of the mpsc channel
          StaticHosts   \* length of the parsed static camera list

ASSUME FeedAssumption ==
  /\ Modes \subseteq {"auto", "static"}
  /\ ChanCap \in Nat \ {0}
  /\ StaticHosts \in Nat

VARIABLES
  known,    \* the cameras announced and not withdrawn (keys of `discovered`)
  inbox,    \* the mpsc channel to the bridge loop
  untried,  \* static mode: hosts still to be connected to
  sender    \* DiscoveryConfig.mode, or "gone" when the sender was dropped

feedVars == <<known, inbox, untried, sender>>

FeedInit ==
  /\ known = {}
  /\ inbox = <<>>
  /\ sender \in Modes
  /\ untried = IF sender = "static" THEN StaticHosts ELSE 0

SendWithoutRoom(e) == inbox' = Append(inbox, e)

(* tx.send(e).await completes once the channel has room. *)
Send(e) == Len(inbox) < ChanCap /\ inbox' = Append(inbox, e)

Announce(c, t) ==
  /\ sender = "auto"
  /\ c \notin known
  /\ known' = known \cup {c}
  /\ Send(CameraFound(c, t))
  /\ UNCHANGED <<untried, sender>>

Withdraw(c) ==
  /\ sender = "auto"
  /\ c \in known
  /\ known' = known \ {c}
  /\ Send(CameraLost(c))
  /\ UNCHANGED <<untried, sender>>

Notice(c) ==
  /\ sender = "auto"
  /\ c \in known
  /\ Send(CameraUnreachable(c))
  /\ UNCHANGED <<known, untried, sender>>

(***************************************************************************)
(* Static mode.  Two hosts may turn out to be the same camera: it is       *)
(* announced twice.                                                        *)
(***************************************************************************)
AnnounceStatic(c, t) ==
  /\ untried > 0
  /\ untried' = untried - 1
  /\ known' = known \cup {c}
  /\ Send(CameraFound(c, t))
  /\ UNCHANGED sender

FailStatic ==
  /\ untried > 0
  /\ untried' = untried - 1
  /\ UNCHANGED <<known, inbox, sender>>

CloseStatic ==
  /\ sender = "static"
  /\ untried = 0
  /\ sender' = "gone"
  /\ UNCHANGED <<known, inbox, untried>>

FeedNext ==
  \/ \E c \in Cameras, t \in Traits : Announce(c, t) \/ AnnounceStatic(c, t)
  \/ \E c \in Cameras : Withdraw(c) \/ Notice(c)
  \/ FailStatic
  \/ CloseStatic

(* The bridge loop takes the oldest event. *)
Take ==
  /\ inbox # <<>>
  /\ inbox' = Tail(inbox)
  /\ UNCHANGED <<known, untried, sender>>

Feed == FeedInit /\ [][FeedNext \/ Take]_feedVars
-----------------------------------------------------------------------------
FeedTypeOK ==
  /\ known \in SUBSET Cameras
  /\ inbox \in Seq(DiscoveryEvents)
  /\ Len(inbox) <= ChanCap
  /\ untried \in 0 .. StaticHosts
  /\ sender \in {"auto", "static", "gone"}
=============================================================================
