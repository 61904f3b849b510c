----------------------------- MODULE MotionPump -----------------------------
(***************************************************************************)
(* The motion pump of one camera (crates/onvif-client/src/motion.rs): it   *)
(* subscribes to the camera's motion events, pulls them, renews the        *)
(* subscription before its lifetime ends, and after any error starts over. *)
(*                                                                         *)
(* Time advances in ticks.  A call has two legs: the camera acts on the    *)
(* request (`done`), then the reply arrives.  Either leg may be lost or    *)
(* late; `slow` records that one took longer than MaxDelay.  Nothing       *)
(* unsubscribes: an abandoned subscription stays at the camera until its   *)
(* lifetime ends.  The bridge loop aborts the pump at any call when it     *)
(* removes the camera, and spawns one anew when discovery finds it again.  *)
(* A request that is acted on after its caller gave up is not modelled.    *)
(***************************************************************************)
EXTENDS Integers, Sequences

CONSTANTS Lifetime,       \* SUBSCRIPTION_LIFETIME
          RenewInterval,  \* RENEW_INTERVAL
          PullTimeout,    \* PULL_TIMEOUT
          Backoff,        \* RECONNECT_BACKOFF
          ScanInterval,   \* between the loss of a camera and its return
          BatchCap,       \* PULL_MAX_MESSAGES
          MaxDelay,       \* the time a leg of a call takes if it is not slow
          QueueCap,       \* bound: notifications waiting at the camera
          Noise           \* another topic, or no field that says the state

ASSUME PumpAssumption ==
  /\ Lifetime \in Nat /\ RenewInterval \in Nat \ {0} /\ PullTimeout \in Nat
  /\ Backoff \in Nat \ {0} /\ BatchCap \in Nat \ {0}
  /\ MaxDelay \in Nat /\ QueueCap \in Nat \ {0}
  /\ ScanInterval \in Nat /\ ScanInterval >= Backoff
  /\ Noise \notin BOOLEAN

(* The margin the constants leave: a check just before RENEW_INTERVAL, one *)
(* more pull, the renewal on its way, and the start of the lifetime before *)
(* the pump knew of it.                                                    *)
ASSUME MarginAssumption ==
  RenewInterval + PullTimeout + 4 * MaxDelay <= Lifetime

VARIABLES
  pc,         \* the call in flight, "sleep" or "stopped"
  done,       \* the camera has acted on that call
  waited,     \* ticks in this leg, sleep or stop, up to WaitCap
  age,        \* last_renew.elapsed(), up to Lifetime
  slow,       \* a leg of this subscription took longer than allowed (history)
  lease,      \* what is left of the pump's subscription at the camera
  old,        \* what is left of the abandoned ones
  inbox,      \* notifications waiting in the subscription
  batch,      \* notifications in the reply on its way
  motion,     \* the camera's motion state
  flag,       \* the value last given to on_change
  reachable   \* whether calls get through

callVars   == <<pc, done, waited>>
leaseVars  == <<lease, old>>
cameraVars == <<motion, reachable>>
vars == <<callVars, age, slow, leaseVars, inbox, batch, flag, cameraVars>>

Messages == BOOLEAN \cup {Noise}
WaitCap == PullTimeout + MaxDelay + ScanInterval
Lesser(a, b) == IF a < b THEN a ELSE b

Init ==
  /\ pc = "connect" /\ done = FALSE /\ waited = 0 /\ age = 0 /\ slow = FALSE
  /\ lease = 0 /\ old = <<>>
  /\ inbox = <<>> /\ batch = <<>>
  /\ motion \in BOOLEAN /\ flag = FALSE /\ reachable \in BOOLEAN
-----------------------------------------------------------------------------
(* The camera: a new subscription is told the current state first.         *)
Notify(m) ==
  /\ lease > 0 => Len(inbox) < QueueCap
  /\ inbox' = IF lease > 0 THEN Append(inbox, m) ELSE inbox

MotionChanges ==
  /\ motion' = ~motion
  /\ Notify(motion')
  /\ UNCHANGED <<callVars, age, slow, leaseVars, batch, flag, reachable>>

SendNoise ==
  /\ lease > 0
  /\ Notify(Noise)
  /\ UNCHANGED <<callVars, age, slow, leaseVars, batch, flag, cameraVars>>

ReachableChanges ==
  /\ reachable' = ~reachable
  /\ UNCHANGED <<callVars, age, slow, leaseVars, inbox, batch, flag, motion>>
-----------------------------------------------------------------------------
Call(name)    == pc' = name /\ done' = FALSE /\ waited' = 0
Arrives(name) == pc = name /\ ~done /\ reachable
Answered      == done' = TRUE /\ waited' = 0 /\ UNCHANGED pc
Returns(name) == pc = name /\ done /\ reachable

(* GetSystemDateAndTime, for the clock offset of the new client. *)
Connect ==
  /\ Arrives("connect")
  /\ Call("subscribe")
  /\ UNCHANGED <<age, slow, leaseVars, inbox, batch, flag, cameraVars>>

SubscribeAtCamera ==
  /\ Arrives("subscribe")
  /\ Answered
  /\ lease' = Lifetime
  /\ inbox' = <<motion>>
  /\ slow' = FALSE
  /\ UNCHANGED <<age, old, batch, flag, cameraVars>>

Subscribed ==
  /\ Returns("subscribe")
  /\ Call("pull")
  /\ age' = 0
  /\ UNCHANGED <<slow, leaseVars, inbox, batch, flag, cameraVars>>

PullAtCameraAll ==
  /\ Arrives("pull")
  /\ lease > 0
  /\ inbox # <<>> \/ waited >= PullTimeout
  /\ Answered
  /\ batch' = inbox
  /\ inbox' = <<>>
  /\ UNCHANGED <<age, slow, leaseVars, flag, cameraVars>>

(* A long poll: answered with what there is, or empty after its timeout. *)
PullAtCamera ==
  /\ Arrives("pull")
  /\ lease > 0
  /\ inbox # <<>> \/ waited >= PullTimeout
  /\ Answered
  /\ LET n == Lesser(BatchCap, Len(inbox)) IN
       /\ batch' = SubSeq(inbox, 1, n)
       /\ inbox' = SubSeq(inbox, n + 1, Len(inbox))
  /\ UNCHANGED <<age, slow, leaseVars, flag, cameraVars>>

DeliveredUpToNoise(s) ==
  LET n == CHOOSE k \in 0 .. Len(s) :
             /\ \A i \in 1 .. k : s[i] # Noise
             /\ k = Len(s) \/ s[k + 1] = Noise
  IN IF n = 0 THEN flag ELSE s[n]

(* What flag is after on_change for each notification of s. *)
Delivered(s) ==
  LET states == {i \in DOMAIN s : s[i] # Noise} IN
    IF states = {} THEN flag
                   ELSE s[CHOOSE i \in states : \A j \in states : j <= i]

PulledResetsAge ==
  /\ Returns("pull")
  /\ flag' = Delivered(batch)
  /\ batch' = <<>>
  /\ Call(IF age >= RenewInterval THEN "renew" ELSE "pull")
  /\ age' = 0
  /\ UNCHANGED <<slow, leaseVars, inbox, cameraVars>>

Pulled ==
  /\ Returns("pull")
  /\ flag' = Delivered(batch)
  /\ batch' = <<>>
  /\ Call(IF age >= RenewInterval THEN "renew" ELSE "pull")
  /\ UNCHANGED <<age, slow, leaseVars, inbox, cameraVars>>

RenewAtCamera ==
  /\ Arrives("renew")
  /\ lease > 0
  /\ Answered
  /\ lease' = Lifetime
  /\ UNCHANGED <<age, slow, old, inbox, batch, flag, cameraVars>>

Renewed ==
  /\ Returns("renew")
  /\ Call("pull")
  /\ age' = 0
  /\ UNCHANGED <<slow, leaseVars, inbox, batch, flag, cameraVars>>

Expired == pc \in {"pull", "renew"} /\ ~done /\ lease = 0

Abandon ==
  /\ lease' = 0
  /\ old' = IF lease > 0 THEN Append(old, lease) ELSE old
  /\ inbox' = <<>>
  /\ batch' = <<>>

(***************************************************************************)
(* Any call fails if the request or the reply is lost, and a pull or a     *)
(* renewal of a subscription that has expired does.  The pump forgets the  *)
(* subscription and sleeps.                                                *)
(***************************************************************************)
CallFails ==
  /\ pc \notin {"sleep", "stopped"}
  /\ ~reachable \/ Expired
  /\ Call("sleep")
  /\ Abandon
  /\ UNCHANGED <<age, slow, flag, cameraVars>>

WakeUpAtOnce ==
  /\ pc = "sleep"
  /\ Call("connect")
  /\ UNCHANGED <<age, slow, leaseVars, inbox, batch, flag, cameraVars>>

WakeUpResuming ==
  /\ pc = "sleep" /\ waited >= Backoff
  /\ Call("pull")
  /\ UNCHANGED <<age, slow, leaseVars, inbox, batch, flag, cameraVars>>

WakeUp ==
  /\ pc = "sleep" /\ waited >= Backoff
  /\ Call("connect")
  /\ UNCHANGED <<age, slow, leaseVars, inbox, batch, flag, cameraVars>>
-----------------------------------------------------------------------------
(* JoinHandle::abort: the task ends at the await it is in.  No unsubscribe. *)
Abort ==
  /\ pc # "stopped"
  /\ Call("stopped")
  /\ Abandon
  /\ UNCHANGED <<age, slow, flag, cameraVars>>

(* The camera is added again, a scan later at the earliest. *)
Respawn ==
  /\ pc = "stopped" /\ waited >= ScanInterval
  /\ Call("connect")
  /\ UNCHANGED <<age, slow, leaseVars, inbox, batch, flag, cameraVars>>
-----------------------------------------------------------------------------
Allowed == IF pc = "pull" /\ ~done THEN PullTimeout + MaxDelay ELSE MaxDelay

(* The abandoned subscriptions are in the order they were made: the first  *)
(* ones end first.                                                         *)
Ending(s) == CHOOSE k \in 0 .. Len(s) : \A i \in DOMAIN s : i <= k <=> s[i] = 1
Older(s)  == SubSeq([i \in DOMAIN s |-> s[i] - 1], Ending(s) + 1, Len(s))

Tick ==
  /\ waited' = Lesser(waited + 1, WaitCap)
  /\ age' = Lesser(age + 1, Lifetime)
  /\ slow' = (slow \/ (pc \notin {"sleep", "stopped"} /\ waited >= Allowed))
  /\ lease' = IF lease > 0 THEN lease - 1 ELSE 0
  /\ old' = Older(old)
  /\ UNCHANGED <<pc, done, inbox, batch, flag, cameraVars>>

Progress ==
  \/ Connect \/ SubscribeAtCamera \/ Subscribed
  \/ PullAtCamera \/ Pulled \/ RenewAtCamera \/ Renewed
  \/ CallFails \/ WakeUp

Next ==
  \/ MotionChanges \/ SendNoise \/ ReachableChanges
  \/ Progress \/ Abort \/ Respawn
  \/ Tick

Spec == Init /\ [][Next]_vars

(* A reachable camera answers, and time passes. *)
FairSpec == Spec /\ WF_vars(Progress) /\ WF_vars(Tick)
-----------------------------------------------------------------------------
TypeOK ==
  /\ pc \in {"connect", "subscribe", "pull", "renew", "sleep", "stopped"}
  /\ done \in BOOLEAN /\ slow \in BOOLEAN
  /\ motion \in BOOLEAN /\ flag \in BOOLEAN /\ reachable \in BOOLEAN
  /\ waited \in 0 .. WaitCap
  /\ age \in 0 .. Lifetime
  /\ lease \in 0 .. Lifetime
  /\ old \in Seq(1 .. Lifetime)
  /\ inbox \in Seq(Messages) /\ Len(inbox) <= QueueCap
  /\ batch \in Seq(Messages) /\ Len(batch) <= BatchCap

(***************************************************************************)
(* motion.rs:139, "Renew before the device's 60s deadline": the check      *)
(* after each pull never lets a subscription expire as long as each leg of *)
(* a call takes at most MaxDelay.                                          *)
(***************************************************************************)
Holding == pc \in {"pull", "renew"} \/ (pc = "subscribe" /\ done)
RenewedInTime == Holding /\ ~slow => lease > 0

(***************************************************************************)
(* Whatever calls were lost and however often the pump reconnected, the    *)
(* flag is what the camera says as soon as the notifications on their way  *)
(* have been delivered.                                                    *)
(***************************************************************************)
FlagFollowsCamera ==
  Holding /\ lease > 0 => Delivered(batch \o inbox) = motion

(***************************************************************************)
(* Reconnecting or aborted and spawned over and over, the pump never has   *)
(* more subscriptions at the camera than backoffs fit in a lifetime.       *)
(***************************************************************************)
SubscriptionsBounded ==
  (Len(old) + (IF lease > 0 THEN 1 ELSE 0) - 1) * Backoff < Lifetime

(***************************************************************************)
(* Once the pump is left running and the camera stays reachable, in time   *)
(* and in one state, the flag stays at that state, whatever failed before. *)
(***************************************************************************)
Recovers ==
  \A b \in BOOLEAN :
    <>[](pc # "stopped" /\ reachable /\ ~slow /\ motion = b) => <>[](flag = b)
=============================================================================
