-------------------------- MODULE MotionPump_proof --------------------------
(***************************************************************************)
(* Proofs about MotionPump, for all lifetimes, intervals, delays and queue *)
(* lengths that satisfy its assumptions: the renewal check is early        *)
(* enough, the flag follows the camera, the subscriptions left at a camera *)
(* are bounded, and every variable keeps its type.                         *)
(***************************************************************************)
EXTENDS MotionPump, SequenceTheorems, WellFoundedInduction, TLAPS

(* What the argument needs of the types. *)
FlagsOK == done \in BOOLEAN /\ slow \in BOOLEAN
ClockOK ==
  /\ waited \in Nat /\ age \in 0 .. Lifetime /\ lease \in 0 .. Lifetime

(* The pump counts from when it heard of the start of the lifetime, the    *)
(* camera from the start: at most MaxDelay apart.                          *)
InStep == lease + age >= Lifetime - MaxDelay

(* A lifetime has just begun and the pump does not know of it yet. *)
Fresh == waited <= MaxDelay /\ lease >= Lifetime - waited

(* How old the subscription is at most, at each point between renewals. *)
OnTime ==
  /\ pc \in {"subscribe", "renew"} /\ done => Fresh
  /\ pc = "pull" /\ ~done =>
       /\ InStep /\ waited <= PullTimeout + MaxDelay
       /\ age < RenewInterval + waited
  /\ pc = "pull" /\ done =>
       /\ InStep /\ waited <= MaxDelay
       /\ age < RenewInterval + PullTimeout + MaxDelay + waited
  /\ pc = "renew" /\ ~done =>
       /\ InStep /\ waited <= MaxDelay
       /\ age < RenewInterval + PullTimeout + 2 * MaxDelay + waited

IInv == FlagsOK /\ ClockOK /\ (~slow => OnTime)
-----------------------------------------------------------------------------
USE PumpAssumption, MarginAssumption
DEF PumpAssumption, MarginAssumption

(* The inductive invariant says more than the property. *)
LEMMA OnTimeSuffices == IInv => RenewedInTime
BY DEF IInv, FlagsOK, ClockOK, OnTime, Fresh, InStep, RenewedInTime, Holding

LEMMA InitOnTime == Init => IInv
<1> SUFFICES ASSUME Init PROVE IInv
  OBVIOUS
<1>1. FlagsOK
  BY DEF Init, FlagsOK
<1>2. ClockOK
  BY DEF Init, ClockOK
<1>3. OnTime
  BY DEF Init, OnTime
<1> QED
  BY <1>1, <1>2, <1>3 DEF IInv

LEMMA FlagsStay == FlagsOK /\ [Next]_vars => FlagsOK'
<1> SUFFICES ASSUME FlagsOK, [Next]_vars PROVE FlagsOK'
  OBVIOUS
<1> USE DEF FlagsOK
<1>1. CASE MotionChanges \/ SendNoise \/ ReachableChanges \/ UNCHANGED vars
  BY <1>1 DEF MotionChanges, SendNoise, ReachableChanges, vars, callVars
<1>2. CASE SubscribeAtCamera \/ PullAtCamera \/ RenewAtCamera
  BY <1>2 DEF SubscribeAtCamera, PullAtCamera, RenewAtCamera, Answered
<1>3. CASE \/ Connect \/ Subscribed \/ Pulled \/ Renewed
         \/ CallFails \/ WakeUp \/ Abort \/ Respawn
  BY <1>3 DEF Connect, Subscribed, Pulled, Renewed, CallFails, WakeUp, Abort,
              Respawn, Abandon, Call
<1>4. CASE Tick
  BY <1>4 DEF Tick
<1> QED
  BY <1>1, <1>2, <1>3, <1>4 DEF Next, Progress

LEMMA ClocksStay == ClockOK /\ [Next]_vars => ClockOK'
<1> SUFFICES ASSUME ClockOK, [Next]_vars PROVE ClockOK'
  OBVIOUS
<1> USE DEF ClockOK, leaseVars
<1>1. CASE MotionChanges \/ SendNoise \/ ReachableChanges \/ UNCHANGED vars
  BY <1>1 DEF MotionChanges, SendNoise, ReachableChanges, vars, callVars
<1>2. CASE SubscribeAtCamera \/ PullAtCamera \/ RenewAtCamera
  BY <1>2 DEF SubscribeAtCamera, PullAtCamera, RenewAtCamera, Answered
<1>3. CASE \/ Connect \/ Subscribed \/ Pulled \/ Renewed
         \/ CallFails \/ WakeUp \/ Abort \/ Respawn
  BY <1>3 DEF Connect, Subscribed, Pulled, Renewed, CallFails, WakeUp, Abort,
              Respawn, Abandon, Call
<1>4. CASE Tick
  BY <1>4 DEF Tick, Lesser, WaitCap
<1> QED
  BY <1>1, <1>2, <1>3, <1>4 DEF Next, Progress

(* While a call waits: every bound has room for the tick, or slow is set. *)
LEMMA TickOnTime ==
  ASSUME ClockOK, ~slow => OnTime, Tick, ~slow' PROVE OnTime'
<1>1. ~slow /\ (pc \in {"sleep", "stopped"} \/ ~(waited >= Allowed))
  BY DEF Tick
<1>2. OnTime
  BY <1>1
<1>3. pc \notin {"sleep", "stopped"} => waited' = waited + 1 /\ waited < Allowed
  BY <1>1 DEF ClockOK, Tick, Lesser, WaitCap, Allowed
<1>4. pc' = pc /\ done' = done /\ age' \in {age, age + 1}
  BY DEF ClockOK, Tick, Lesser
<1>5. InStep => InStep'
  BY DEF ClockOK, InStep, Tick, Lesser
<1> QED
  BY <1>2, <1>3, <1>4, <1>5 DEF ClockOK, OnTime, Fresh, Tick, Allowed

(* The camera acts: a lifetime begins, or messages are on their way. *)
LEMMA CameraOnTime ==
  ASSUME ClockOK, ~slow => OnTime, ~slow',
         SubscribeAtCamera \/ RenewAtCamera \/ PullAtCamera
  PROVE  OnTime'
<1>1. done' /\ pc' = pc /\ waited' = 0
  BY DEF SubscribeAtCamera, RenewAtCamera, PullAtCamera, Answered
<1>2. CASE SubscribeAtCamera \/ RenewAtCamera
  <2>1. lease' = Lifetime /\ pc # "pull"
    BY <1>2 DEF SubscribeAtCamera, RenewAtCamera, Arrives
  <2> QED
    BY <1>1, <2>1 DEF OnTime, Fresh
<1>3. CASE PullAtCamera
  <2>1. ~slow /\ ~done /\ pc = "pull" /\ age' = age /\ lease' = lease
    BY <1>3 DEF PullAtCamera, Arrives, leaseVars
  <2> QED
    BY <1>1, <2>1 DEF ClockOK, OnTime, InStep
<1> QED
  BY <1>2, <1>3

(* A reply arrives: the pump counts from zero, or checks its age. *)
LEMMA PumpOnTime ==
  ASSUME ClockOK, ~slow => OnTime, ~slow', Subscribed \/ Renewed \/ Pulled
  PROVE  OnTime'
<1>1. ~slow /\ done /\ ~done' /\ waited' = 0 /\ lease' = lease
  BY DEF Subscribed, Renewed, Pulled, Returns, Call, leaseVars
<1>2. CASE Subscribed \/ Renewed
  <2>1. pc \in {"subscribe", "renew"} /\ pc' = "pull" /\ age' = 0
    BY <1>2 DEF Subscribed, Renewed, Returns, Call
  <2> QED
    BY <1>1, <2>1 DEF ClockOK, OnTime, Fresh, InStep
<1>3. CASE Pulled
  <2>1. /\ pc = "pull" /\ age' = age
        /\ pc' = IF age >= RenewInterval THEN "renew" ELSE "pull"
    BY <1>3 DEF Pulled, Returns, Call
  <2> QED
    BY <1>1, <2>1 DEF ClockOK, OnTime, InStep
<1> QED
  BY <1>2, <1>3

(* Steps after which no subscription is held, or that leave the clocks. *)
LEMMA RestOnTime ==
  ASSUME ~slow => OnTime, ~slow',
         \/ Connect \/ CallFails \/ WakeUp \/ Abort \/ Respawn
         \/ MotionChanges \/ SendNoise \/ ReachableChanges \/ UNCHANGED vars
  PROVE  OnTime'
<1>1. CASE Connect \/ CallFails \/ WakeUp \/ Abort \/ Respawn
  <2>1. pc' \in {"connect", "subscribe", "sleep", "stopped"} /\ ~done'
    BY <1>1 DEF Connect, CallFails, WakeUp, Abort, Respawn, Call
  <2> QED
    BY <2>1 DEF OnTime
<1>2. CASE MotionChanges \/ SendNoise \/ ReachableChanges \/ UNCHANGED vars
  <2>1. UNCHANGED <<pc, done, waited, age, slow, lease>>
    BY <1>2 DEF MotionChanges, SendNoise, ReachableChanges, vars, callVars,
                leaseVars
  <2> QED
    BY <2>1 DEF OnTime, Fresh, InStep
<1> QED
  BY <1>1, <1>2

(***************************************************************************)
(* motion.rs:139, "Renew before the device's 60s deadline": with in-time   *)
(* calls no subscription in use expires.                                   *)
(***************************************************************************)
THEOREM AlwaysRenewedInTime == Spec => []RenewedInTime
<1>1. IInv /\ [Next]_vars => IInv'
  <2> SUFFICES ASSUME IInv, [Next]_vars PROVE IInv'
    OBVIOUS
  <2>1. FlagsOK' /\ ClockOK'
    BY FlagsStay, ClocksStay DEF IInv
  <2>2. ASSUME ~slow' PROVE OnTime'
    BY <2>2, TickOnTime, CameraOnTime, PumpOnTime, RestOnTime
       DEF IInv, Next, Progress
  <2> QED
    BY <2>1, <2>2 DEF IInv
<1> QED
  BY InitOnTime, OnTimeSuffices, <1>1, PTL DEF Spec
-----------------------------------------------------------------------------
(***************************************************************************)
(* What Delivered makes of a sequence.  It chooses the last state in it,   *)
(* so the first lemmas are about the greatest of a set of indices.         *)
(***************************************************************************)
LessThan == {p \in Nat \X Nat : p[1] < p[2]}

LEMMA LessThanWellFounded == IsWellFoundedOn(LessThan, Nat)
BY NatLessThanWellFounded DEF OpToRel, LessThan

LEMMA LeastIndex ==
  ASSUME NEW T \in SUBSET Nat, T # {}
  PROVE  \E x \in T : \A y \in T : x <= y
<1>1. PICK x \in T : \A y \in T : ~(<<y, x>> \in LessThan)
  BY LessThanWellFounded, WFMin
<1>2. \A y \in Nat : y < x => <<y, x>> \in LessThan
  BY DEF LessThan
<1>3. ASSUME NEW y \in T PROVE x <= y
  <2>1. ~(y < x)
    BY <1>1, <1>2
  <2> QED
    BY <2>1
<1> QED
  BY <1>3

LEMMA GreatestIndex ==
  ASSUME NEW n \in Nat, NEW T \in SUBSET (1 .. n), T # {}
  PROVE  \E x \in T : \A y \in T : y <= x
<1> DEFINE U == {n - i : i \in T}
<1>1. U \in SUBSET Nat
  <2>1. \A i \in T : n - i \in Nat
    OBVIOUS
  <2> QED
    BY <2>1
<1>2. U # {}
  OBVIOUS
<1>3. PICK u \in U : \A w \in U : u <= w
  <2> HIDE DEF U
  <2> QED
    BY <1>1, <1>2, LeastIndex
<1>4. PICK x \in T : u = n - x
  OBVIOUS
<1>5. ASSUME NEW y \in T PROVE y <= x
  <2>1. n - y \in U
    OBVIOUS
  <2>2. u <= n - y
    BY <1>3, <2>1
  <2> HIDE DEF U
  <2> QED
    BY <1>4, <2>2
<1> QED
  BY <1>5

AllNoise(s) == \A i \in DOMAIN s : s[i] = Noise

IsLastState(s, i) ==
  /\ i \in DOMAIN s /\ s[i] # Noise
  /\ \A j \in DOMAIN s : s[j] # Noise => j <= i

LEMMA DeliveredFacts ==
  ASSUME NEW s \in Seq(Messages)
  PROVE  /\ AllNoise(s) \/ \E i \in 1 .. Len(s) : IsLastState(s, i)
         /\ AllNoise(s) => Delivered(s) = flag
         /\ \A i \in 1 .. Len(s) : IsLastState(s, i) => Delivered(s) = s[i]
<1> DEFINE states == {i \in DOMAIN s : s[i] # Noise}
<1>1. DOMAIN s = 1 .. Len(s) /\ Len(s) \in Nat
  BY LenProperties
<1>2. states = {} <=> AllNoise(s)
  BY DEF AllNoise
<1>3. \A i \in 1 .. Len(s) :
        IsLastState(s, i) <=> i \in states /\ \A j \in states : j <= i
  BY <1>1 DEF IsLastState
<1>4. Delivered(s) = IF states = {} THEN flag
                     ELSE s[CHOOSE i \in states : \A j \in states : j <= i]
  BY DEF Delivered
<1>5. states \in SUBSET (1 .. Len(s))
  BY <1>1
<1> HIDE DEF states
<1>6. states # {} => \E i \in states : \A j \in states : j <= i
  BY <1>1, <1>5, GreatestIndex
<1>7. ASSUME NEW i \in 1 .. Len(s), IsLastState(s, i) PROVE Delivered(s) = s[i]
  <2>1. i \in states /\ \A j \in states : j <= i
    BY <1>3, <1>7
  <2> DEFINE k == CHOOSE l \in states : \A j \in states : j <= l
  <2>2. k \in states /\ \A j \in states : j <= k
    BY <2>1
  <2>3. Delivered(s) = s[k]
    BY <1>4, <2>1
  <2> HIDE DEF k
  <2>4. k <= i /\ i <= k
    BY <2>1, <2>2
  <2>5. k = i
    BY <1>1, <1>5, <2>1, <2>2, <2>4
  <2> QED
    BY <2>3, <2>5
<1> QED
  BY <1>2, <1>3, <1>4, <1>5, <1>6, <1>7

LEMMA DeliveredType ==
  ASSUME NEW s \in Seq(Messages), flag \in BOOLEAN
  PROVE  Delivered(s) \in BOOLEAN
<1>1. \A i \in 1 .. Len(s) : s[i] \in Messages
  BY ElementOfSeq
<1>2. ASSUME NEW i \in 1 .. Len(s), IsLastState(s, i)
      PROVE  Delivered(s) \in BOOLEAN
  BY <1>1, <1>2, DeliveredFacts DEF IsLastState, Messages
<1> QED
  BY <1>2, DeliveredFacts

LEMMA DeliveredAppend ==
  ASSUME NEW s \in Seq(Messages), NEW m \in Messages
  PROVE  Delivered(Append(s, m)) = IF m = Noise THEN Delivered(s) ELSE m
<1> DEFINE t == Append(s, m)
          n == Len(s)
<1>1. /\ t \in Seq(Messages) /\ n \in Nat /\ Len(t) = n + 1
      /\ DOMAIN s = 1 .. n /\ DOMAIN t = 1 .. n + 1
      /\ t[n + 1] = m /\ \A i \in 1 .. n : t[i] = s[i]
  BY LenProperties, AppendProperties
<1> HIDE DEF t, n
<1>2. CASE m # Noise
  <2>1. IsLastState(t, n + 1)
    BY <1>1, <1>2 DEF IsLastState
  <2>2. n + 1 \in 1 .. Len(t)
    BY <1>1
  <2>3. Delivered(t) = t[n + 1]
    BY <1>1, <2>1, <2>2, DeliveredFacts
  <2> QED
    BY <1>1, <1>2, <2>3 DEF t
<1>3. CASE m = Noise
  <2>1. AllNoise(s) => AllNoise(t)
    BY <1>1, <1>3 DEF AllNoise
  <2>2. \A i \in 1 .. n : IsLastState(s, i) => IsLastState(t, i)
    BY <1>1, <1>3 DEF IsLastState
  <2>3. ASSUME AllNoise(s) PROVE Delivered(t) = Delivered(s)
    BY <1>1, <2>1, <2>3, DeliveredFacts
  <2>4. ASSUME NEW i \in 1 .. n, IsLastState(s, i) PROVE Delivered(t) = Delivered(s)
    <3>1. i \in 1 .. Len(s) /\ i \in 1 .. Len(t) /\ IsLastState(t, i)
      BY <1>1, <2>2, <2>4 DEF n
    <3>2. Delivered(t) = t[i] /\ Delivered(s) = s[i]
      BY <1>1, <2>4, <3>1, DeliveredFacts
    <3> QED
      BY <1>1, <3>2
  <2>5. AllNoise(s) \/ \E i \in 1 .. n : IsLastState(s, i)
    BY DeliveredFacts DEF n
  <2>6. Delivered(t) = Delivered(s)
    BY <2>3, <2>4, <2>5
  <2> QED
    BY <1>3, <2>6 DEF t
<1> QED
  BY <1>2, <1>3

(* Delivering a batch and then what follows is delivering all of it.       *)
LEMMA DeliveredInTwo ==
  ASSUME NEW s \in Seq(Messages), NEW t \in Seq(Messages),
         flag' = Delivered(s)
  PROVE  Delivered(t)' = Delivered(s \o t)
<1> DEFINE u == s \o t
          n == Len(s)
<1>1. /\ u \in Seq(Messages) /\ n \in Nat /\ Len(t) \in Nat
      /\ Len(u) = n + Len(t)
      /\ DOMAIN s = 1 .. n /\ DOMAIN t = 1 .. Len(t)
      /\ DOMAIN u = 1 .. Len(u)
      /\ \A i \in 1 .. n : u[i] = s[i]
      /\ \A i \in 1 .. Len(t) : u[n + i] = t[i]
  BY LenProperties, ConcatProperties
<1> HIDE DEF u, n
<1>2. ASSUME NEW i \in 1 .. Len(u) PROVE i \in 1 .. n \/ i - n \in 1 .. Len(t)
  BY <1>1
<1>3. \A i \in 1 .. Len(u) : i \in 1 .. n \/ u[i] = t[i - n]
  <2> SUFFICES ASSUME NEW i \in 1 .. Len(u), i \notin 1 .. n
               PROVE  u[i] = t[i - n]
    OBVIOUS
  <2>1. PICK j \in 1 .. Len(t) : i = n + j /\ j = i - n
    BY <1>1, <1>2
  <2> QED
    BY <1>1, <2>1
<1>4. CASE AllNoise(t)
  <2>1. Delivered(t)' = Delivered(s)
    <3>1. Delivered(t)' = flag'
      BY <1>4 DEF Delivered, AllNoise
    <3> QED
      BY <3>1
  <2>2. \A i \in 1 .. Len(u) : i \in 1 .. n \/ u[i] = Noise
    BY <1>1, <1>2, <1>3, <1>4 DEF AllNoise
  <2>3. CASE AllNoise(s)
    <3>1. AllNoise(u)
      BY <1>1, <2>2, <2>3 DEF AllNoise
    <3> QED
      BY <1>1, <2>1, <2>3, <3>1, DeliveredFacts DEF u
  <2>4. ASSUME NEW i \in 1 .. n, IsLastState(s, i)
        PROVE  Delivered(u) = Delivered(s)
    <3>1. i \in 1 .. Len(s) /\ i \in 1 .. Len(u)
      BY <1>1 DEF n
    <3>2. IsLastState(u, i)
      BY <1>1, <2>2, <2>4, <3>1 DEF IsLastState
    <3>3. Delivered(u) = u[i] /\ Delivered(s) = s[i]
      BY <1>1, <2>4, <3>1, <3>2, DeliveredFacts
    <3> QED
      BY <1>1, <3>3
  <2> QED
    BY <2>1, <2>3, <2>4, DeliveredFacts DEF u, n
<1>5. ASSUME NEW i \in 1 .. Len(t), IsLastState(t, i)
      PROVE  Delivered(t)' = Delivered(u)
  <2>1. Delivered(t)' = t[i]
    <3>1. Delivered(t) = t[i] /\ ~AllNoise(t)
      BY <1>1, <1>5, DeliveredFacts DEF IsLastState, AllNoise
    <3>2. {j \in DOMAIN t : t[j] # Noise} # {}
      BY <3>1 DEF AllNoise
    <3> QED
      BY <3>1, <3>2 DEF Delivered
  <2>2. n + i \in 1 .. Len(u)
    BY <1>1
  <2>3. \A j \in 1 .. Len(u) : u[j] # Noise => j <= n + i
    <3> SUFFICES ASSUME NEW j \in 1 .. Len(u), u[j] # Noise PROVE j <= n + i
      OBVIOUS
    <3>1. CASE j \in 1 .. n
      BY <1>1, <3>1
    <3>2. CASE j \notin 1 .. n
      <4>1. PICK k \in 1 .. Len(t) : k = j - n /\ u[j] = t[k]
        BY <1>2, <1>3, <3>2
      <4>2. k <= i
        BY <1>1, <1>5, <4>1 DEF IsLastState
      <4> QED
        BY <1>1, <4>1, <4>2
    <3> QED
      BY <3>1, <3>2
  <2>4. IsLastState(u, n + i) /\ u[n + i] = t[i]
    BY <1>1, <1>5, <2>2, <2>3 DEF IsLastState
  <2> QED
    BY <1>1, <2>1, <2>2, <2>4, DeliveredFacts
<1> QED
  BY <1>4, <1>5, DeliveredFacts DEF u
-----------------------------------------------------------------------------
(***************************************************************************)
(* The types of the queue, the batch and the flag.  ClockOK has those of   *)
(* the clocks, OldInv below that of the abandoned subscriptions.           *)
(***************************************************************************)
QueueOK ==
  /\ pc \in {"connect", "subscribe", "pull", "renew", "sleep", "stopped"}
  /\ waited <= WaitCap
  /\ motion \in BOOLEAN /\ flag \in BOOLEAN /\ reachable \in BOOLEAN
  /\ inbox \in Seq(Messages) /\ Len(inbox) <= QueueCap
  /\ batch \in Seq(Messages) /\ Len(batch) <= BatchCap

(* What a pull takes, and what it leaves.                                  *)
LEMMA PullSplits ==
  ASSUME QueueOK, PullAtCamera
  PROVE  /\ batch' \in Seq(Messages) /\ Len(batch') <= BatchCap
         /\ inbox' \in Seq(Messages) /\ Len(inbox') <= QueueCap
         /\ batch' \o inbox' = inbox
<1> DEFINE l == Len(inbox)
           n == Lesser(BatchCap, l)
<1>1. inbox \in Seq(Messages) /\ l \in Nat /\ l <= QueueCap
  BY LenProperties DEF QueueOK
<1>2. n \in Nat /\ n <= l /\ n <= BatchCap
  BY <1>1 DEF Lesser
<1>3. batch' = SubSeq(inbox, 1, n) /\ inbox' = SubSeq(inbox, n + 1, l)
  BY DEF PullAtCamera
<1>4. \A i \in 1 .. l : inbox[i] \in Messages
  BY <1>1, ElementOfSeq
<1> HIDE DEF n
<1>5. batch' \in Seq(Messages) /\ Len(batch') <= BatchCap
  <2>1. \A i \in 1 .. n : inbox[i] \in Messages
    BY <1>1, <1>2, <1>4
  <2>2. /\ SubSeq(inbox, 1, n) \in Seq(Messages)
        /\ Len(SubSeq(inbox, 1, n)) = IF 1 <= n THEN n - 1 + 1 ELSE 0
    BY <1>2, <2>1, SubSeqProperties
  <2> QED
    BY <1>2, <1>3, <2>2
<1>6. inbox' \in Seq(Messages) /\ Len(inbox') <= QueueCap
  <2>1. \A i \in n + 1 .. l : inbox[i] \in Messages
    BY <1>1, <1>2, <1>4
  <2>2. /\ SubSeq(inbox, n + 1, l) \in Seq(Messages)
        /\ Len(SubSeq(inbox, n + 1, l))
             = IF n + 1 <= l THEN l - (n + 1) + 1 ELSE 0
    BY <1>1, <1>2, <2>1, SubSeqProperties
  <2> QED
    BY <1>1, <1>2, <1>3, <2>2
<1>7. SubSeq(inbox, 1, n) \o SubSeq(inbox, n + 1, l) = SubSeq(inbox, 1, l)
  <2>1. 1 \in 1 .. l + 1 /\ n \in 1 - 1 .. l /\ l \in n .. l
    BY <1>1, <1>2
  <2> QED
    BY <1>1, <2>1, ConcatAdjacentSubSeq
<1> QED
  BY <1>1, <1>3, <1>5, <1>6, <1>7, SubSeqFull

LEMMA NotifyFacts ==
  ASSUME QueueOK, NEW m \in Messages, Notify(m)
  PROVE  /\ inbox' \in Seq(Messages) /\ Len(inbox') <= QueueCap
         /\ lease > 0 => inbox' = Append(inbox, m)
<1>1. CASE lease > 0
  <2>1. inbox' = Append(inbox, m) /\ Len(inbox) < QueueCap
    BY <1>1 DEF Notify
  <2>2. Len(inbox') = Len(inbox) + 1 /\ inbox' \in Seq(Messages)
    BY <2>1, AppendProperties DEF QueueOK
  <2>3. Len(inbox) \in Nat
    BY LenProperties DEF QueueOK
  <2> QED
    BY <2>1, <2>2, <2>3
<1>2. CASE ~(lease > 0)
  BY <1>2 DEF Notify, QueueOK
<1> QED
  BY <1>1, <1>2

LEMMA EmptyQueue == <<>> \in Seq(Messages) /\ Len(<<>>) = 0
OBVIOUS

LEMMA QueueStays == ClockOK /\ QueueOK /\ [Next]_vars => QueueOK'
<1> SUFFICES ASSUME ClockOK, QueueOK, [Next]_vars PROVE QueueOK'
  OBVIOUS
<1> USE DEF QueueOK, cameraVars, callVars
<1>0. WaitCap \in Nat /\ 0 <= WaitCap /\ 0 <= BatchCap /\ 0 <= QueueCap
  BY DEF WaitCap
<1>1. CASE MotionChanges
  <2>1. motion' \in BOOLEAN /\ motion' \in Messages
    BY <1>1 DEF MotionChanges, Messages
  <2>2. inbox' \in Seq(Messages) /\ Len(inbox') <= QueueCap
    BY <1>1, <2>1, NotifyFacts DEF MotionChanges
  <2> QED
    BY <1>1, <2>1, <2>2 DEF MotionChanges
<1>2. CASE SendNoise
  <2>1. inbox' \in Seq(Messages) /\ Len(inbox') <= QueueCap
    BY <1>2, NotifyFacts DEF SendNoise, Messages
  <2> QED
    BY <1>2, <2>1 DEF SendNoise
<1>3. CASE ReachableChanges \/ UNCHANGED vars
  BY <1>3 DEF ReachableChanges, vars
<1>4. CASE SubscribeAtCamera
  <2>1. motion \in Messages
    BY DEF Messages
  <2>2. inbox' \in Seq(Messages) /\ Len(inbox') = 1
    BY <1>4, <2>1 DEF SubscribeAtCamera
  <2> QED
    BY <1>0, <1>4, <2>2 DEF SubscribeAtCamera, Answered
<1>5. CASE PullAtCamera
  BY <1>0, <1>5, PullSplits DEF PullAtCamera, Answered
<1>6. CASE RenewAtCamera
  BY <1>0, <1>6 DEF RenewAtCamera, Answered
<1>7. CASE Connect \/ Subscribed \/ Renewed \/ WakeUp \/ Respawn
  BY <1>0, <1>7 DEF Connect, Subscribed, Renewed, WakeUp, Respawn, Call
<1>8. CASE Pulled
  <2>1. flag' \in BOOLEAN
    BY <1>8, DeliveredType DEF Pulled
  <2>2. batch' = <<>> /\ waited' = 0 /\ pc' \in {"renew", "pull"}
        /\ UNCHANGED <<motion, reachable, inbox>>
    BY <1>8 DEF Pulled, Call
  <2> QED
    BY <1>0, <2>1, <2>2, EmptyQueue
<1>9. CASE CallFails \/ Abort
  <2>1. batch' = <<>> /\ inbox' = <<>> /\ waited' = 0
        /\ pc' \in {"sleep", "stopped"} /\ UNCHANGED <<motion, reachable, flag>>
    BY <1>9 DEF CallFails, Abort, Abandon, Call
  <2> QED
    BY <1>0, <2>1, EmptyQueue
<1>10. CASE Tick
  <2>1. waited' <= WaitCap
    BY <1>0, <1>10 DEF Tick, Lesser, ClockOK
  <2> QED
    BY <1>10, <2>1 DEF Tick
<1> QED
  BY <1>1, <1>2, <1>3, <1>4, <1>5, <1>6, <1>7, <1>8, <1>9, <1>10
     DEF Next, Progress

LEMMA InitQueueOK == Init => QueueOK
<1> SUFFICES ASSUME Init PROVE QueueOK
  OBVIOUS
<1>1. waited <= WaitCap
  BY DEF Init, WaitCap
<1>2. /\ inbox \in Seq(Messages) /\ Len(inbox) <= QueueCap
      /\ batch \in Seq(Messages) /\ Len(batch) <= BatchCap
  BY EmptyQueue DEF Init
<1>3. flag \in BOOLEAN /\ motion \in BOOLEAN /\ reachable \in BOOLEAN
  BY DEF Init
<1> QED
  BY <1>1, <1>2, <1>3 DEF Init, QueueOK
-----------------------------------------------------------------------------
(***************************************************************************)
(* The flag, the batch on its way and the queue at the camera together say *)
(* what the camera says, from the subscription on.  A batch is only on its *)
(* way while a pull returns.                                               *)
(***************************************************************************)
FlagInv ==
  /\ batch # <<>> => pc = "pull" /\ done
  /\ FlagFollowsCamera

(* A notification comes after all that is on its way.                      *)
LEMMA NotifiedLast ==
  ASSUME QueueOK, NEW m \in Messages, inbox' = Append(inbox, m),
         UNCHANGED <<batch, flag>>
  PROVE  Delivered(batch \o inbox)'
           = IF m = Noise THEN Delivered(batch \o inbox) ELSE m
<1> DEFINE u == batch \o inbox
<1>1. batch \in Seq(Messages) /\ inbox \in Seq(Messages)
  BY DEF QueueOK
<1>2. batch \o Append(inbox, m) = Append(u, m)
  <2>1. <<m>> \in Seq(Messages)
    OBVIOUS
  <2>2. Append(inbox, m) = inbox \o <<m>>
    BY <1>1, AppendIsConcat
  <2>3. (batch \o inbox) \o <<m>> = batch \o (inbox \o <<m>>)
    BY <1>1, <2>1, ConcatAssociative
  <2>4. u \in Seq(Messages)
    BY <1>1, ConcatProperties
  <2>5. Append(u, m) = u \o <<m>>
    BY <2>4, AppendIsConcat
  <2> QED
    BY <2>2, <2>3, <2>5
<1>3. u \in Seq(Messages)
  BY <1>1, ConcatProperties
<1>4. (batch \o inbox)' = Append(u, m)
  BY <1>2
<1> HIDE DEF u
<1>5. Delivered(Append(u, m)) = IF m = Noise THEN Delivered(u) ELSE m
  BY <1>3, DeliveredAppend
<1>6. Delivered(batch \o inbox)' = Delivered(Append(u, m))
  BY <1>4 DEF Delivered
<1> QED
  BY <1>5, <1>6 DEF u

LEMMA FlagInvStays ==
  ASSUME FlagsOK, ClockOK, QueueOK, FlagInv, [Next]_vars
  PROVE  FlagInv'
<1> USE DEF callVars, cameraVars, leaseVars
<1>1. ASSUME UNCHANGED <<batch, inbox, flag>>
      PROVE  Delivered(batch \o inbox)' = Delivered(batch \o inbox)
  BY <1>1 DEF Delivered
<1>2. CASE MotionChanges
  <2>1. motion' \in Messages /\ motion' # Noise
    BY <1>2 DEF MotionChanges, QueueOK, Messages
  <2>2. lease > 0 => Delivered(batch \o inbox)' = motion'
    <3> DEFINE m == motion'
    <3>1. m \in Messages /\ m # Noise /\ Notify(m)
      BY <1>2, <2>1 DEF MotionChanges
    <3>2. lease > 0 => inbox' = Append(inbox, m)
      BY <3>1, NotifyFacts
    <3>3. UNCHANGED <<batch, flag>>
      BY <1>2 DEF MotionChanges
    <3> HIDE DEF m
    <3>4. lease > 0 => Delivered(batch \o inbox)' = m
      BY <3>1, <3>2, <3>3, NotifiedLast
    <3> QED
      BY <3>4 DEF m
  <2>3. UNCHANGED <<pc, done, lease, batch>>
    BY <1>2 DEF MotionChanges
  <2> QED
    BY <2>2, <2>3 DEF FlagInv, FlagFollowsCamera
<1>3. CASE SendNoise
  <2>1. inbox' = Append(inbox, Noise) /\ Noise \in Messages
        /\ UNCHANGED <<pc, done, lease, batch, flag, motion>>
    BY <1>3 DEF SendNoise, Notify, Messages
  <2>2. Delivered(batch \o inbox)' = Delivered(batch \o inbox)
    BY <2>1, NotifiedLast
  <2> QED
    BY <2>1, <2>2 DEF FlagInv, FlagFollowsCamera, Holding
<1>4. CASE ReachableChanges \/ UNCHANGED vars
  <2>1. UNCHANGED <<pc, done, lease, batch, inbox, flag, motion>>
    BY <1>4 DEF ReachableChanges, vars
  <2> QED
    BY <1>1, <2>1 DEF FlagInv, FlagFollowsCamera, Holding
<1>5. CASE SubscribeAtCamera
  <2>1. /\ batch = <<>> /\ batch' = <<>> /\ inbox' = <<motion>>
        /\ motion' = motion /\ flag' = flag
    BY <1>5 DEF SubscribeAtCamera, Arrives, FlagInv
  <2>2. motion \in Messages /\ motion # Noise
    BY DEF QueueOK, Messages
  <2>3. Delivered(batch \o inbox)' = motion
    <3> DEFINE m == motion
               e == <<>>
    <3>1. m \in Messages /\ m # Noise /\ e \in Seq(Messages)
      BY <2>2
    <3>2. (batch \o inbox)' = Append(e, m)
      <4>1. <<m>> \in Seq(Messages) /\ Append(e, m) = <<m>>
        BY <3>1
      <4>2. <<>> \o <<m>> = <<m>>
        BY <4>1, ConcatEmptySeq
      <4> QED
        BY <2>1, <4>1, <4>2
    <3> HIDE DEF m, e
    <3>3. Delivered(Append(e, m)) = m
      BY <3>1, DeliveredAppend
    <3>4. Delivered(batch \o inbox)' = Delivered(Append(e, m))
      BY <2>1, <3>2 DEF Delivered
    <3> QED
      BY <3>3, <3>4 DEF m
  <2> QED
    BY <2>1, <2>3 DEF FlagInv, FlagFollowsCamera
<1>6. CASE PullAtCamera
  <2>1. /\ batch = <<>> /\ pc = "pull" /\ pc' = "pull" /\ done' = TRUE
        /\ UNCHANGED <<lease, flag, motion>> /\ lease > 0
    BY <1>6 DEF PullAtCamera, Arrives, Answered, FlagInv
  <2>2. batch' \o inbox' = inbox /\ batch \o inbox = inbox
    <3>1. inbox \in Seq(Messages)
      BY DEF QueueOK
    <3>2. <<>> \o inbox = inbox
      BY <3>1, ConcatEmptySeq
    <3> QED
      BY <1>6, <2>1, <3>2, PullSplits
  <2>3. Delivered(batch \o inbox)' = Delivered(batch \o inbox)
    BY <2>1, <2>2 DEF Delivered
  <2> QED
    BY <2>1, <2>3 DEF FlagInv, FlagFollowsCamera, Holding
<1>7. CASE Pulled
  <2>1. /\ pc = "pull" /\ flag' = Delivered(batch) /\ batch' = <<>>
        /\ UNCHANGED <<lease, inbox, motion>>
    BY <1>7 DEF Pulled, Returns
  <2>2. Delivered(batch \o inbox)' = Delivered(batch \o inbox)
    <3> PICK b \in Seq(Messages), q \in Seq(Messages) : b = batch /\ q = inbox
      BY DEF QueueOK
    <3>1. flag' = Delivered(b)
      BY <2>1
    <3>2. Delivered(q)' = Delivered(b \o q)
      BY <3>1, DeliveredInTwo
    <3>3. (batch \o inbox)' = q
      <4>1. <<>> \o q = q
        BY ConcatEmptySeq
      <4> QED
        BY <2>1, <4>1
    <3>4. Delivered(batch \o inbox)' = Delivered(q)'
      BY <3>3 DEF Delivered
    <3> QED
      BY <3>2, <3>4
  <2> QED
    BY <2>1, <2>2 DEF FlagInv, FlagFollowsCamera, Holding
<1>8. CASE Subscribed \/ RenewAtCamera \/ Renewed \/ Tick
  <2>1. UNCHANGED <<batch, inbox, flag, motion>>
    BY <1>8 DEF Subscribed, RenewAtCamera, Renewed, Tick
  <2>2. batch = <<>> \/ (pc' = pc /\ done' = done)
    BY <1>8 DEF Subscribed, RenewAtCamera, Renewed, Tick, Returns, Arrives,
                FlagInv
  <2>3. Holding' /\ lease' > 0 => Holding /\ lease > 0
    BY <1>8 DEF Subscribed, RenewAtCamera, Renewed, Tick, Returns, Arrives,
                Holding, ClockOK
  <2> QED
    BY <1>1, <2>1, <2>2, <2>3 DEF FlagInv, FlagFollowsCamera
<1>9. CASE Connect \/ WakeUp \/ Respawn \/ CallFails \/ Abort
  <2>1. pc' \in {"connect", "subscribe", "sleep", "stopped"} /\ ~done'
    BY <1>9 DEF Connect, WakeUp, Respawn, CallFails, Abort, Call
  <2>2. batch' = <<>>
    BY <1>9 DEF Connect, WakeUp, Respawn, CallFails, Abort, Abandon, Arrives,
                FlagInv
  <2> QED
    BY <2>1, <2>2 DEF FlagInv, FlagFollowsCamera, Holding
<1> QED
  BY <1>2, <1>3, <1>4, <1>5, <1>6, <1>7, <1>8, <1>9 DEF Next, Progress

(* QueueOK and FlagInv are inductive, given the types of the clocks.       *)
LEMMA FlagInvHolds ==
  Init /\ [][Next]_vars => [](FlagsOK /\ ClockOK /\ QueueOK /\ FlagInv)
<1>1. Init => FlagsOK /\ ClockOK
  BY InitOnTime DEF IInv
<1>2. Init => FlagInv
  BY DEF Init, FlagInv, FlagFollowsCamera
<1> QED
  BY <1>1, <1>2, InitQueueOK, FlagsStay, ClocksStay, QueueStays, FlagInvStays, PTL

(***************************************************************************)
(* motion.rs:111-137: whatever calls were lost and however often the pump  *)
(* started over, with what is on its way the flag is what the camera says. *)
(***************************************************************************)
THEOREM FlagIsTheCameras == Spec => []FlagFollowsCamera
<1>1. FlagInv => FlagFollowsCamera
  BY DEF FlagInv
<1> QED
  BY <1>1, FlagInvHolds, PTL DEF Spec
-----------------------------------------------------------------------------
(***************************************************************************)
(* The abandoned subscriptions are a backoff apart: a subscription is only *)
(* made when the pump has slept since it abandoned the last one, or was    *)
(* stopped and spawned again, a scan later.                                *)
(***************************************************************************)
Spaced(s) ==
  \A i, j \in 1 .. Len(s) : i < j => (j - i) * Backoff <= s[j] - s[i]

(* All of them end at least n ticks before x. *)
EndBefore(s, n, x) == \A i \in 1 .. Len(s) : s[i] + n <= x

OldInv ==
  /\ old \in Seq(1 .. Lifetime)
  /\ Spaced(old)
  /\ lease > 0 => Holding /\ EndBefore(old, Backoff, lease)
  /\ pc \in {"sleep", "stopped"} => EndBefore(old, waited, Lifetime)
  /\ pc = "connect" \/ (pc = "subscribe" /\ ~done) =>
       EndBefore(old, Backoff, Lifetime)

LEMMA TimesNext ==
  ASSUME NEW a \in Int, NEW b \in Int
  PROVE  (a + 1) * b = a * b + b
OBVIOUS

LEMMA TimesPositive ==
  ASSUME NEW a \in Nat \ {0}, NEW b \in Nat \ {0}
  PROVE  a * b >= 1
OBVIOUS

(* A tick ends at most one of them, and leaves the spaces. *)
LEMMA OlderFacts ==
  ASSUME NEW s \in Seq(1 .. Lifetime), Spaced(s)
  PROVE  \E k \in {0, 1} :
           /\ Older(s) \in Seq(1 .. Lifetime)
           /\ k <= Len(s) /\ Len(Older(s)) = Len(s) - k
           /\ \A i \in 1 .. Len(Older(s)) : Older(s)[i] = s[i + k] - 1
<1> DEFINE n == Len(s)
           IsEnding(k) == \A i \in DOMAIN s : i <= k <=> s[i] = 1
<1>1. n \in Nat /\ DOMAIN s = 1 .. n /\ \A i \in 1 .. n : s[i] \in 1 .. Lifetime
  BY LenProperties, ElementOfSeq
<1> HIDE DEF n
<1>2. ASSUME NEW i \in 1 .. n, i # 1 PROVE s[i] > 1
  <2>1. 1 \in 1 .. n /\ 1 < i /\ i - 1 \in Nat \ {0}
    BY <1>1, <1>2
  <2> DEFINE p == (i - 1) * Backoff
  <2>2. p <= s[i] - s[1]
    BY <2>1 DEF Spaced, n
  <2>3. p >= 1
    BY <2>1, TimesPositive
  <2>4. s[i] \in Int /\ s[1] \in Int /\ s[1] >= 1
    BY <1>1, <2>1
  <2>5. p \in Int
    BY <2>1
  <2> HIDE DEF p
  <2> QED
    BY <2>2, <2>3, <2>4, <2>5
<1>3. \E k \in 0 .. n : IsEnding(k)
  <2>1. CASE n > 0 /\ s[1] = 1
    <3>1. 1 \in 0 .. n /\ IsEnding(1)
      BY <1>1, <1>2, <2>1
    <3> QED
      BY <3>1
  <2>2. CASE ~(n > 0 /\ s[1] = 1)
    <3>1. 0 \in 0 .. n /\ IsEnding(0)
      BY <1>1, <1>2, <2>2
    <3> QED
      BY <3>1
  <2> QED
    BY <2>1, <2>2
<1>4. PICK k \in 0 .. n : k = Ending(s) /\ IsEnding(k)
  <2>1. Ending(s) = CHOOSE k \in 0 .. n : IsEnding(k)
    BY DEF Ending, n
  <2> HIDE DEF IsEnding
  <2> QED
    BY <1>3, <2>1
<1>5. k \in {0, 1}
  <2>1. ASSUME 2 \in 1 .. n, 2 <= k PROVE FALSE
    <3>1. s[2] = 1
      BY <1>1, <1>4, <2>1
    <3>2. s[2] > 1
      BY <1>2, <2>1
    <3> QED
      BY <3>1, <3>2
  <2> QED
    BY <1>1, <2>1
<1> DEFINE aged == [i \in DOMAIN s |-> s[i] - 1]
<1>6. \A i \in k + 1 .. n : aged[i] = s[i] - 1 /\ aged[i] \in 1 .. Lifetime
  <2> SUFFICES ASSUME NEW i \in k + 1 .. n
               PROVE  aged[i] = s[i] - 1 /\ aged[i] \in 1 .. Lifetime
    OBVIOUS
  <2>1. i \in DOMAIN s /\ ~(i <= k)
    BY <1>1, <1>4
  <2>2. s[i] # 1 /\ s[i] \in 1 .. Lifetime
    BY <1>1, <1>4, <2>1
  <2>3. aged[i] = s[i] - 1
    BY <2>1
  <2> HIDE DEF aged
  <2> QED
    BY <2>2, <2>3
<1> HIDE DEF aged, IsEnding
<1>7. Older(s) = SubSeq(aged, k + 1, n)
  BY <1>4 DEF Older, aged, n
<1>8. /\ SubSeq(aged, k + 1, n) \in Seq(1 .. Lifetime)
      /\ Len(SubSeq(aged, k + 1, n)) = IF k + 1 <= n THEN n - (k + 1) + 1 ELSE 0
      /\ \A i \in 1 .. n - (k + 1) + 1 :
           SubSeq(aged, k + 1, n)[i] = aged[(k + 1) + i - 1]
  <2>1. PICK m \in Int : m = k + 1
    BY <1>5
  <2>2. n \in Int /\ \A i \in m .. n : aged[i] \in 1 .. Lifetime
    BY <1>1, <1>6, <2>1
  <2>3. /\ SubSeq(aged, m, n) \in Seq(1 .. Lifetime)
        /\ Len(SubSeq(aged, m, n)) = IF m <= n THEN n - m + 1 ELSE 0
        /\ \A i \in 1 .. n - m + 1 : SubSeq(aged, m, n)[i] = aged[m + i - 1]
    BY <2>2, SubSeqProperties
  <2> QED
    BY <2>1, <2>3
<1>9. Len(Older(s)) = n - k
  BY <1>1, <1>4, <1>7, <1>8
<1>10. ASSUME NEW i \in 1 .. n - k PROVE Older(s)[i] = s[i + k] - 1
  <2>1. /\ i \in 1 .. n - (k + 1) + 1 /\ (k + 1) + i - 1 = i + k
        /\ i + k \in k + 1 .. n
    <3>1. n \in Nat /\ k \in Nat /\ i \in Nat /\ 1 <= i /\ i <= n - k
      BY <1>1, <1>5
    <3> QED
      BY <3>1
  <2> QED
    BY <1>6, <1>7, <1>8, <2>1
<1>11. Older(s) \in Seq(1 .. Lifetime) /\ k <= n
  BY <1>4, <1>7, <1>8
<1> QED
  BY <1>5, <1>9, <1>10, <1>11 DEF n

LEMMA OlderSpaced ==
  ASSUME NEW s \in Seq(1 .. Lifetime), Spaced(s)
  PROVE  /\ Older(s) \in Seq(1 .. Lifetime) /\ Spaced(Older(s))
         /\ \A n, x \in Int : EndBefore(s, n, x) => EndBefore(Older(s), n + 1, x)
         /\ \A n, x \in Int : EndBefore(s, n, x) => EndBefore(Older(s), n, x - 1)
<1> DEFINE t == Older(s)
<1>1. PICK k \in {0, 1} :
        /\ t \in Seq(1 .. Lifetime) /\ k <= Len(s) /\ Len(t) = Len(s) - k
        /\ \A i \in 1 .. Len(t) : t[i] = s[i + k] - 1
  BY OlderFacts
<1>2. /\ Len(s) \in Nat /\ Len(t) \in Nat
      /\ \A i \in 1 .. Len(s) : s[i] \in Int
  BY <1>1, LenProperties, ElementOfSeq
<1> HIDE DEF t
<1>3. \A i \in 1 .. Len(t) : i + k \in 1 .. Len(s) /\ s[i + k] \in Int
  BY <1>1, <1>2
<1>4. ASSUME NEW i \in 1 .. Len(t), NEW j \in 1 .. Len(t), i < j
      PROVE  (j - i) * Backoff <= t[j] - t[i]
  <2> DEFINE a == i + k
             b == j + k
  <2>1. a \in 1 .. Len(s) /\ b \in 1 .. Len(s) /\ a < b /\ b - a = j - i
    BY <1>2, <1>3, <1>4
  <2>2. t[i] = s[a] - 1 /\ t[j] = s[b] - 1 /\ s[a] \in Int /\ s[b] \in Int
    BY <1>1, <1>3
  <2> HIDE DEF a, b
  <2>3. (b - a) * Backoff <= s[b] - s[a]
    BY <2>1 DEF Spaced
  <2>4. t[j] - t[i] = s[b] - s[a]
    <3>1. PICK u \in Int, v \in Int : u = s[a] /\ v = s[b]
      BY <2>2
    <3>2. t[i] = u - 1 /\ t[j] = v - 1
      BY <2>2, <3>1
    <3>3. (v - 1) - (u - 1) = v - u
      OBVIOUS
    <3> QED
      BY <3>1, <3>2, <3>3
  <2> QED
    BY <2>1, <2>3, <2>4
<1>5. ASSUME NEW n \in Int, NEW x \in Int, EndBefore(s, n, x)
      PROVE  EndBefore(t, n + 1, x) /\ EndBefore(t, n, x - 1)
  <2> SUFFICES ASSUME NEW i \in 1 .. Len(t)
               PROVE  t[i] + (n + 1) <= x /\ t[i] + n <= x - 1
    BY DEF EndBefore
  <2>1. t[i] = s[i + k] - 1 /\ s[i + k] \in Int
    BY <1>1, <1>3
  <2>2. s[i + k] + n <= x
    BY <1>3, <1>5 DEF EndBefore
  <2>3. PICK u \in Int : u = s[i + k]
    BY <2>1
  <2>4. u + n <= x /\ t[i] = u - 1
    BY <2>1, <2>2, <2>3
  <2>5. (u - 1) + (n + 1) <= x /\ (u - 1) + n <= x - 1
    BY <2>4
  <2> QED
    BY <2>4, <2>5
<1> QED
  BY <1>1, <1>4, <1>5 DEF Spaced, t

(* Abandoning one more, Backoff after the last.                            *)
LEMMA AppendSpaced ==
  ASSUME NEW s \in Seq(1 .. Lifetime), Spaced(s), NEW x \in 1 .. Lifetime,
         EndBefore(s, Backoff, x)
  PROVE  /\ Append(s, x) \in Seq(1 .. Lifetime) /\ Spaced(Append(s, x))
         /\ EndBefore(Append(s, x), 0, Lifetime)
<1> DEFINE t == Append(s, x)
           n == Len(s)
<1>1. /\ n \in Nat /\ t \in Seq(1 .. Lifetime) /\ Len(t) = n + 1
      /\ \A i \in 1 .. n : t[i] = s[i]
      /\ t[n + 1] = x
  BY LenProperties, AppendProperties
<1>2. \A i \in 1 .. n : s[i] \in 1 .. Lifetime
  BY ElementOfSeq
<1> HIDE DEF t, n
<1>3. ASSUME NEW i \in 1 .. n + 1, NEW j \in 1 .. n + 1, i < j
      PROVE  (j - i) * Backoff <= t[j] - t[i]
  <2>0. i \in 1 .. n
    BY <1>1, <1>3
  <2>1. CASE j \in 1 .. n
    <3>1. (j - i) * Backoff <= s[j] - s[i]
      BY <1>3, <2>0, <2>1 DEF Spaced, n
    <3> QED
      BY <1>1, <2>0, <2>1, <3>1
  <2>2. CASE j = n + 1
    <3>0. n \in 1 .. n /\ s[i] \in Int /\ s[n] \in Int
      <4>1. n \in 1 .. n
        BY <1>1, <2>0
      <4> QED
        BY <1>2, <2>0, <4>1
    <3>1. PICK u \in Int, v \in Int : u = s[i] /\ v = s[n]
      BY <3>0
    <3>2. v + Backoff <= x
      BY <3>0, <3>1 DEF EndBefore, n
    <3>3. (n - i) * Backoff <= v - u
      <4>1. CASE i = n
        <5>1. v = u /\ n - i = 0
          BY <1>1, <3>1, <4>1
        <5>2. 0 * Backoff = 0
          OBVIOUS
        <5> QED
          BY <5>1, <5>2
      <4>2. CASE i # n
        <5>1. i < n /\ n \in 1 .. n
          BY <1>1, <2>0, <4>2
        <5> QED
          BY <2>0, <3>1, <5>1 DEF Spaced, n
      <4> QED
        BY <4>1, <4>2
    <3>4. ((n - i) + 1) * Backoff = (n - i) * Backoff + Backoff
      BY <1>1, TimesNext
    <3> DEFINE q == (n - i) * Backoff
    <3>5. q \in Int
      BY <1>1
    <3>6. j - i = (n - i) + 1 /\ t[i] = u /\ t[j] = x
      BY <1>1, <2>0, <2>2, <3>1
    <3> HIDE DEF q
    <3>7. q + Backoff <= x - u
      <4>1. q <= v - u
        BY <3>3 DEF q
      <4>2. q \in Int /\ u \in Int /\ v \in Int /\ x \in Int /\ Backoff \in Int
        BY <3>5
      <4> HIDE PumpAssumption, MarginAssumption
      <4> QED
        BY <3>2, <4>1, <4>2
    <3>8. ((n - i) + 1) * Backoff <= x - u
      BY <3>4, <3>7 DEF q
    <3> QED
      BY <3>6, <3>8
  <2> QED
    BY <1>1, <2>1, <2>2
<1>4. ASSUME NEW i \in 1 .. n + 1 PROVE t[i] + 0 <= Lifetime
  <2>1. i \in 1 .. n \/ i = n + 1
    BY <1>1
  <2>2. t[i] \in 1 .. Lifetime
    BY <1>1, <1>2, <2>1
  <2> QED
    BY <2>2
<1> QED
  BY <1>1, <1>3, <1>4 DEF Spaced, EndBefore, t

LEMMA SoonerEnds ==
  ASSUME NEW s \in Seq(1 .. Lifetime), NEW n \in Int, NEW x \in Int,
         EndBefore(s, n, x)
  PROVE  \A m, y \in Int : m <= n /\ x <= y => EndBefore(s, m, y)
<1>1. \A i \in 1 .. Len(s) : s[i] \in 1 .. Lifetime
  BY ElementOfSeq
<1> QED
  BY <1>1 DEF EndBefore

LEMMA AllEnd ==
  ASSUME NEW s \in Seq(1 .. Lifetime)
  PROVE  EndBefore(s, 0, Lifetime)
<1>1. \A i \in 1 .. Len(s) : s[i] \in 1 .. Lifetime
  BY ElementOfSeq
<1> QED
  BY <1>1 DEF EndBefore

LEMMA AbandonOld ==
  ASSUME ClockOK, OldInv, Abandon
  PROVE  /\ old' \in Seq(1 .. Lifetime) /\ Spaced(old')
         /\ EndBefore(old', 0, Lifetime) /\ lease' = 0
<1>1. CASE lease > 0
  <2>1. lease \in 1 .. Lifetime /\ EndBefore(old, Backoff, lease)
    BY <1>1 DEF ClockOK, OldInv
  <2>2. old' = Append(old, lease) /\ lease' = 0
    BY <1>1 DEF Abandon
  <2> QED
    BY <2>1, <2>2, AppendSpaced DEF OldInv
<1>2. CASE ~(lease > 0)
  <2>1. old' = old /\ lease' = 0
    BY <1>2 DEF Abandon
  <2> QED
    BY <2>1, AllEnd DEF OldInv
<1> QED
  BY <1>1, <1>2

LEMMA InitOldInv == Init => OldInv
BY DEF Init, OldInv, Spaced, EndBefore

LEMMA OldInvStays ==
  ASSUME FlagsOK, ClockOK, OldInv, [Next]_vars
  PROVE  OldInv'
<1> USE DEF callVars, cameraVars, leaseVars
<1>0. /\ old \in Seq(1 .. Lifetime) /\ Spaced(old)
      /\ lease > 0 => Holding /\ EndBefore(old, Backoff, lease)
  BY DEF OldInv
<1>1. CASE MotionChanges \/ SendNoise \/ ReachableChanges \/ UNCHANGED vars
  <2>1. UNCHANGED <<pc, done, waited, lease, old>>
    BY <1>1 DEF MotionChanges, SendNoise, ReachableChanges, vars
  <2> QED
    BY <2>1 DEF OldInv, Holding
<1>2. CASE Connect
  <2>1. /\ pc = "connect" /\ pc' = "subscribe" /\ ~done'
        /\ UNCHANGED <<lease, old>>
    BY <1>2 DEF Connect, Arrives, Call
  <2>2. ~(lease > 0)
    BY <1>0, <2>1 DEF Holding
  <2> QED
    BY <2>1, <2>2 DEF OldInv
<1>3. CASE SubscribeAtCamera
  <2>1. /\ pc = "subscribe" /\ ~done /\ pc' = pc /\ done'
        /\ lease' = Lifetime /\ old' = old
    BY <1>3 DEF SubscribeAtCamera, Arrives, Answered
  <2> QED
    BY <2>1 DEF OldInv, Holding
<1>4. CASE RenewAtCamera
  <2>1. /\ pc = "renew" /\ pc' = pc /\ lease > 0
        /\ lease' = Lifetime /\ old' = old
    BY <1>4 DEF RenewAtCamera, Arrives, Answered
  <2>2. EndBefore(old, Backoff, Lifetime)
    <3>1. lease \in Int /\ lease <= Lifetime /\ Backoff \in Int
      BY DEF ClockOK
    <3> QED
      BY <1>0, <2>1, <3>1, SoonerEnds
  <2> QED
    BY <2>1, <2>2 DEF OldInv, Holding
<1>5. CASE Subscribed \/ PullAtCamera \/ Pulled \/ Renewed
  <2>1. /\ pc' \in {"pull", "renew"} /\ UNCHANGED <<lease, old>>
    BY <1>5 DEF Subscribed, PullAtCamera, Pulled, Renewed, Call, Answered, Arrives
  <2> QED
    BY <1>0, <2>1 DEF OldInv, Holding
<1>6. CASE CallFails \/ Abort
  <2>1. /\ Abandon /\ pc' \in {"sleep", "stopped"} /\ waited' = 0
    BY <1>6 DEF CallFails, Abort, Call
  <2> QED
    BY <2>1, AbandonOld DEF OldInv
<1>7. CASE WakeUp \/ Respawn
  <2>1. /\ pc \in {"sleep", "stopped"} /\ pc' = "connect"
        /\ UNCHANGED <<lease, old>> /\ waited >= Backoff
    BY <1>7 DEF WakeUp, Respawn, Call, ClockOK
  <2>2. ~(lease > 0)
    BY <1>0, <2>1 DEF Holding
  <2>3. EndBefore(old, waited, Lifetime)
    BY <2>1 DEF OldInv
  <2>4. EndBefore(old, Backoff, Lifetime)
    BY <1>0, <2>1, <2>3, SoonerEnds DEF ClockOK
  <2> QED
    BY <2>1, <2>2, <2>4 DEF OldInv
<1>8. CASE Tick
  <2>1. /\ old' = Older(old) /\ UNCHANGED <<pc, done>>
        /\ lease' = IF lease > 0 THEN lease - 1 ELSE 0
        /\ waited' = Lesser(waited + 1, WaitCap)
    BY <1>8 DEF Tick
  <2>2. old' \in Seq(1 .. Lifetime) /\ Spaced(old')
    BY <1>0, <2>1, OlderSpaced
  <2>3. lease' > 0 => Holding' /\ EndBefore(old', Backoff, lease')
    <3>1. lease' > 0 => lease > 0 /\ lease \in Int /\ lease' = lease - 1
      BY <2>1 DEF ClockOK
    <3>2. Backoff \in Int
      OBVIOUS
    <3> QED
      BY <1>0, <2>1, <3>1, <3>2, OlderSpaced DEF Holding
  <2>4. ASSUME EndBefore(old, waited, Lifetime)
        PROVE  EndBefore(old', waited', Lifetime)
    <3>1. /\ waited \in Int /\ waited + 1 \in Int /\ waited' \in Int
          /\ waited' <= waited + 1 /\ Lifetime \in Int /\ Lifetime <= Lifetime
      BY <2>1 DEF ClockOK, Lesser, WaitCap
    <3>2. EndBefore(old', waited + 1, Lifetime)
      BY <1>0, <2>1, <2>4, <3>1, OlderSpaced
    <3> QED
      BY <2>2, <3>1, <3>2, SoonerEnds
  <2>5. ASSUME EndBefore(old, Backoff, Lifetime)
        PROVE  EndBefore(old', Backoff, Lifetime)
    <3>1. EndBefore(old', Backoff + 1, Lifetime) /\ Backoff + 1 \in Int
          /\ Backoff \in Int /\ Backoff <= Backoff + 1
          /\ Lifetime \in Int /\ Lifetime <= Lifetime
      BY <1>0, <2>1, <2>5, OlderSpaced
    <3> QED
      BY <2>2, <3>1, SoonerEnds
  <2> QED
    BY <2>1, <2>2, <2>3, <2>4, <2>5 DEF OldInv
<1> QED
  BY <1>1, <1>2, <1>3, <1>4, <1>5, <1>6, <1>7, <1>8 DEF Next, Progress

LEMMA OldInvHolds == Init /\ [][Next]_vars => [](ClockOK /\ OldInv)
<1>1. Init => FlagsOK /\ ClockOK
  BY InitOnTime DEF IInv
<1> QED
  BY <1>1, InitOldInv, FlagsStay, ClocksStay, OldInvStays, PTL

(* n spaced ones, the first of which has not ended, need (n - 1) backoffs. *)
LEMMA SpacedLength ==
  ASSUME NEW s \in Seq(1 .. Lifetime), Spaced(s), Len(s) > 0
  PROVE  /\ Len(s) \in Nat /\ s[Len(s)] \in 1 .. Lifetime
         /\ (Len(s) - 1) * Backoff <= s[Len(s)] - 1
<1> DEFINE n == Len(s)
<1>1. n \in Nat /\ 1 \in 1 .. n /\ n \in 1 .. n
  BY LenProperties
<1>2. PICK u \in 1 .. Lifetime, v \in 1 .. Lifetime : u = s[1] /\ v = s[n]
  BY <1>1, ElementOfSeq
<1>3. (n - 1) * Backoff <= v - 1
  <2>1. CASE n = 1
    <3>1. (n - 1) * Backoff = 0
      BY <2>1
    <3> QED
      BY <1>2, <3>1
  <2>2. CASE n # 1
    <3> DEFINE q == (n - 1) * Backoff
    <3>1. q <= v - u /\ q \in Int
      BY <1>1, <1>2, <2>2 DEF Spaced
    <3> HIDE DEF q
    <3>2. q <= v - 1
      BY <1>2, <3>1
    <3> QED
      BY <3>2 DEF q
  <2> QED
    BY <2>1, <2>2
<1> QED
  BY <1>1, <1>2, <1>3

(***************************************************************************)
(* motion.rs:61-70 with onvif_bridge.rs:282-284: nothing unsubscribes, and *)
(* yet reconnecting or aborted over and over, a pump has no more           *)
(* subscriptions at its camera than backoffs fit in a lifetime.            *)
(***************************************************************************)
THEOREM FewSubscriptions == Spec => []SubscriptionsBounded
<1>1. ASSUME ClockOK, OldInv PROVE SubscriptionsBounded
  <2> DEFINE n == Len(old)
  <2>1. old \in Seq(1 .. Lifetime) /\ Spaced(old) /\ n \in Nat
    BY <1>1, LenProperties DEF OldInv
  <2>2. Lifetime \in Nat /\ Lifetime >= 1 /\ Backoff \in Nat \ {0}
    OBVIOUS
  <2>3. CASE lease > 0 /\ n > 0
    <3> DEFINE q == (n - 1) * Backoff
    <3>1. PICK v \in 1 .. Lifetime : v = old[n] /\ q <= v - 1
      BY <2>1, <2>3, SpacedLength
    <3>2. v + Backoff <= lease /\ lease <= Lifetime /\ lease \in Int
      <4>1. n \in 1 .. n
        BY <2>1, <2>3
      <4> QED
        BY <1>1, <2>3, <3>1, <4>1 DEF OldInv, EndBefore, ClockOK
    <3>3. ((n - 1) + 1) * Backoff = q + Backoff /\ q \in Int
      BY <2>1, TimesNext
    <3> HIDE DEF q
    <3>4. q + Backoff < Lifetime
      BY <2>2, <3>1, <3>2, <3>3
    <3>5. n + 1 - 1 = (n - 1) + 1
      BY <2>1
    <3>6. (n + 1 - 1) * Backoff < Lifetime
      BY <3>3, <3>4, <3>5
    <3> QED
      BY <2>3, <3>6 DEF SubscriptionsBounded
  <2>4. CASE ~(lease > 0) /\ n > 0
    <3> DEFINE q == (n - 1) * Backoff
    <3>1. PICK v \in 1 .. Lifetime : v = old[n] /\ q <= v - 1
      BY <2>1, <2>4, SpacedLength
    <3>2. q \in Int
      BY <2>1
    <3> HIDE DEF q
    <3>3. q < Lifetime
      BY <2>2, <3>1, <3>2
    <3>4. n + 0 - 1 = n - 1
      BY <2>1
    <3>5. (n + 0 - 1) * Backoff < Lifetime
      BY <3>3, <3>4 DEF q
    <3> QED
      BY <2>4, <3>5 DEF SubscriptionsBounded
  <2>5. CASE n = 0
    <3>1. (0 + 1 - 1) * Backoff < Lifetime /\ (0 + 0 - 1) * Backoff < Lifetime
      BY <2>2
    <3> QED
      BY <2>5, <3>1 DEF SubscriptionsBounded
  <2> QED
    BY <2>1, <2>3, <2>4, <2>5
<1> QED
  BY <1>1, OldInvHolds, PTL DEF Spec

(***************************************************************************)
(* The pump and the camera keep their types: no batch is larger than       *)
(* PULL_MAX_MESSAGES, whatever was queued.                                 *)
(***************************************************************************)
THEOREM PumpTypes == Spec => []TypeOK
<1>1. FlagsOK /\ ClockOK /\ QueueOK /\ OldInv => TypeOK
  BY DEF FlagsOK, ClockOK, QueueOK, OldInv, TypeOK, WaitCap
<1> QED
  BY <1>1, FlagInvHolds, OldInvHolds, PTL DEF Spec
=============================================================================
