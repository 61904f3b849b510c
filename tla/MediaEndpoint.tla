--------------------------- MODULE MediaEndpoint ---------------------------
(***************************************************************************)
(* The media side of one camera slot: the bridge thread lives the life of  *)
(* the slot, while the main thread runs the WebRTC hooks, the seed driver  *)
(* and the AV stream cluster, one poll at a time.  An SDP exchange blocks  *)
(* the main thread with everything on it, and has no time limit.           *)
(***************************************************************************)
EXTENDS WebRtc, AvStreams

vars == <<lifeVars, rtcVars, avVars>>

Init == LifeInit /\ RtcInit /\ AvInit

BridgeStep     == LifeNext /\ SendSeed /\ UNCHANGED rtcVars
RtcStep(A)     == A /\ UNCHANGED <<lifeVars, avVars>>
SeedDriverStep == MainThreadFree /\ SeedDriver /\ UNCHANGED <<lifeVars, rtcVars>>
StreamStep     == /\ MainThreadFree
                  /\ AllocateVideo \/ DeallocateVideo
                  /\ UNCHANGED <<lifeVars, rtcVars>>

Next ==
  \/ BridgeStep
  \/ RtcStep(RtcNext)
  \/ SeedDriverStep \/ StreamStep

(***************************************************************************)
(* The executor polls the outbound worker and the seed driver whenever     *)
(* they are ready and the thread is free, whatever controllers do.         *)
(* Nothing is assumed of go2rtc, controllers or cameras.                   *)
(***************************************************************************)
Spec ==
  /\ Init /\ [][Next]_vars
  /\ SF_vars(RtcStep(Worker))
  /\ SF_vars(SeedDriverStep)
-----------------------------------------------------------------------------
TypeOK == LifeTypeOK /\ RtcTypeOK /\ AvTypeOK

(***************************************************************************)
(* What is waiting for the main thread is served, unless an exchange with  *)
(* go2rtc never ends: every seed is handled and every buffered answer is   *)
(* taken or dropped with its session, however many offers fail, sessions   *)
(* end and cameras go.                                                     *)
(***************************************************************************)
Served ==
  /\ seedQueue # <<>> ~> seedQueue = <<>>
  /\ \A s \in Sessions, n \in 1 .. MaxOffers : answers[s] = n ~> answers[s] # n

OnlyGo2rtcDelays == Served \/ <>[](exchanging # None)
=============================================================================
