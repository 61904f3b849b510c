------------------------------- MODULE WebRtc -------------------------------
(***************************************************************************)
(* The WebRTC hooks of one camera slot (crates/bridge/src/hooks.rs:78-262):*)
(* an SDP offer is exchanged with go2rtc, the answer is buffered under its *)
(* session, and a work item tells the cluster's outbound worker to take it *)
(* and push it to the controller.                                          *)
(*                                                                         *)
(* The cluster handler is external: it opens a session for an offer or     *)
(* accepts a new offer on an open one, ends sessions, and its worker runs  *)
(* one work item at a time.  Everything here but the slot, which lives the *)
(* life of SlotLife, runs on the main thread, which the exchange blocks:   *)
(* between looking the name up and the end of the exchange only the bridge *)
(* thread moves.  The other callbacks do nothing: on_solicit_offer and     *)
(* on_answer reject, on_ice_candidates ignores.                            *)
(***************************************************************************)
EXTENDS SlotLife, Sequences, SequencesExt

CONSTANTS Sessions,   \* session ids the handler gives out, and reuses
          MaxOffers   \* bound: offers in a behaviour

ASSUME WebRtcAssumption == MaxOffers \in Nat /\ None \notin Sessions

VARIABLES
  answers,    \* BridgeWebRtcHooks.answers: the offer each one answers, 0: none
  outbound,   \* the channel of work items
  inHand,     \* the session whose answer the worker is about to take, or None
  exchanging, \* the session whose offer blocks the main thread, or None
  offers,     \* number of offers so far; an offer is named by its number
  open,       \* the handler's sessions
  accepted,   \* per session, its last offer that was accepted, 0: none (history)
  delivered,  \* the offers whose answers were taken, in order (history)
  asked       \* the stream each offer was sent to go2rtc for, None: refused (history)

hookVars == <<answers, outbound>>
rtcVars  == <<hookVars, inHand, exchanging, offers, open, accepted, delivered,
              asked>>

RtcInit ==
  /\ answers = [s \in Sessions |-> 0]
  /\ outbound = <<>>
  /\ inHand = None
  /\ exchanging = None
  /\ offers = 0
  /\ open = {}
  /\ accepted = [s \in Sessions |-> 0]
  /\ delivered = <<>>
  /\ asked = [n \in 1 .. MaxOffers |-> None]

MainThreadFree == exchanging = None
-----------------------------------------------------------------------------
OfferUnderAnotherSlot(s) ==
  /\ MainThreadFree
  /\ offers < MaxOffers
  /\ offers' = offers + 1
  /\ exchanging' = s
  /\ \E n \in Names : asked' = [asked EXCEPT ![offers'] = n]
  /\ UNCHANGED <<hookVars, inHand, open, accepted, delivered>>

(***************************************************************************)
(* on_offer.  A refused offer does not open a session, and leaves one that *)
(* is open as it was: with the answer to its last offer, if that has not   *)
(* been taken yet.                                                         *)
(***************************************************************************)
Offer(s) ==
  /\ MainThreadFree
  /\ offers < MaxOffers
  /\ offers' = offers + 1
  /\ exchanging' = IF name # None THEN s ELSE None
  /\ asked' = [asked EXCEPT ![offers'] = name]
  /\ UNCHANGED <<hookVars, inHand, open, accepted, delivered>>

ExchangeFails ==
  /\ exchanging # None
  /\ exchanging' = None
  /\ UNCHANGED <<hookVars, inHand, offers, open, accepted, delivered, asked>>

EnqueueNewSession(s) ==
  outbound' = IF s \in open THEN outbound ELSE Append(outbound, s)

Enqueue(s) == outbound' = Append(outbound, s)

ExchangeSucceeds ==
  /\ exchanging # None
  /\ answers' = [answers EXCEPT ![exchanging] = offers]
  /\ Enqueue(exchanging)
  /\ open' = open \cup {exchanging}
  /\ accepted' = [accepted EXCEPT ![exchanging] = offers]
  /\ exchanging' = None
  /\ UNCHANGED <<inHand, offers, delivered, asked>>

EndSessionKeepsAnswer(s) ==
  /\ MainThreadFree
  /\ s \in open
  /\ open' = open \ {s}
  /\ UNCHANGED <<hookVars, inHand, exchanging, offers, accepted, delivered, asked>>

(* on_end_session.  The work item stays in the queue. *)
EndSession(s) ==
  /\ MainThreadFree
  /\ s \in open
  /\ open' = open \ {s}
  /\ answers' = [answers EXCEPT ![s] = 0]
  /\ UNCHANGED <<outbound, inHand, exchanging, offers, accepted, delivered, asked>>
-----------------------------------------------------------------------------
NextOutbound ==
  /\ MainThreadFree
  /\ inHand = None /\ outbound # <<>>
  /\ inHand' = Head(outbound)
  /\ outbound' = Tail(outbound)
  /\ UNCHANGED <<answers, exchanging, offers, open, accepted, delivered, asked>>

TakeUncheckedAnswer ==
  /\ MainThreadFree
  /\ inHand # None
  /\ answers' = [answers EXCEPT ![inHand] = 0]
  /\ delivered' \in {delivered, Append(delivered, answers[inHand])}
  /\ inHand' = None
  /\ UNCHANGED <<outbound, exchanging, offers, open, accepted, asked>>

TakeAnswerKeeping ==
  /\ MainThreadFree
  /\ inHand # None /\ answers[inHand] # 0
  /\ delivered' \in {delivered, Append(delivered, answers[inHand])}
  /\ inHand' = None
  /\ UNCHANGED <<hookVars, exchanging, offers, open, accepted, asked>>

(***************************************************************************)
(* take_answer_sdp removes the answer, and then may find it larger than    *)
(* the outgoing buffer: it is lost.                                        *)
(***************************************************************************)
TakeAnswer ==
  /\ MainThreadFree
  /\ inHand # None /\ answers[inHand] # 0
  /\ answers' = [answers EXCEPT ![inHand] = 0]
  /\ delivered' \in {delivered, Append(delivered, answers[inHand])}
  /\ inHand' = None
  /\ UNCHANGED <<outbound, exchanging, offers, open, accepted, asked>>

NoAnswerToTake ==
  /\ MainThreadFree
  /\ inHand # None /\ answers[inHand] = 0
  /\ inHand' = None
  /\ UNCHANGED <<hookVars, exchanging, offers, open, accepted, delivered, asked>>

Worker == NextOutbound \/ TakeAnswer \/ NoAnswerToTake

Controller == \E s \in Sessions : Offer(s) \/ EndSession(s)
Exchange   == ExchangeFails \/ ExchangeSucceeds

RtcNext == Controller \/ Exchange \/ Worker
-----------------------------------------------------------------------------
RtcTypeOK ==
  /\ answers \in [Sessions -> 0 .. MaxOffers]
  /\ outbound \in Seq(Sessions) /\ Len(outbound) <= MaxOffers
  /\ inHand \in Sessions \cup {None}
  /\ exchanging \in Sessions \cup {None}
  /\ offers \in 0 .. MaxOffers
  /\ open \in SUBSET Sessions
  /\ accepted \in [Sessions -> 0 .. MaxOffers]
  /\ delivered \in Seq(1 .. MaxOffers)
  /\ asked \in [1 .. MaxOffers -> Names \cup {None}]

(***************************************************************************)
(* A controller is pushed an answer only while its session is open, only   *)
(* to the last offer that was accepted on it, and only once - although     *)
(* ended sessions leave their work items behind, ids are reused, and an    *)
(* offer on an open session puts a second work item into the queue.        *)
(***************************************************************************)
PushesFreshAnswer ==
  LET n == delivered'[Len(delivered')] IN
    /\ inHand \in open
    /\ n = accepted[inHand]
    /\ ~Contains(delivered, n)

OnlyFreshAnswers == [][delivered' # delivered => PushesFreshAnswer]_rtcVars

(***************************************************************************)
(* Every answer that is buffered has a work item that will take it: the    *)
(* buffer does not grow with answers nobody comes for.                     *)
(***************************************************************************)
NoOrphanAnswer ==
  \A s \in Sessions :
    answers[s] # 0 => s \in open /\ (inHand = s \/ Contains(outbound, s))

(***************************************************************************)
(* Whatever cameras came and went before an offer, during the exchange and *)
(* before the answer is pushed: what go2rtc was asked for is the stream    *)
(* name of the camera that owns the slot, and no offer is sent on for a    *)
(* slot without a camera.                                                  *)
(*                                                                         *)
(* It is about the name only.  A camera whose id has the same sanitized    *)
(* form has that name too, and go2rtc dials the URL it was last given,     *)
(* where another camera may answer by now: their video can be shown.       *)
(***************************************************************************)
OffersAskForTheOwner ==
  \A n \in 1 .. MaxOffers :
    asked[n] # None => owner # None /\ asked[n] = StreamName[owner]
=============================================================================
