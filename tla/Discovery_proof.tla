-------------------------- MODULE Discovery_proof --------------------------
(***************************************************************************)
(* Proofs about Discovery, for any cameras, addresses, static list, miss   *)
(* threshold and channel capacity: its types, that the grace period is     *)
(* exact, and that the scan implements DiscoveryFeed.                      *)
(***************************************************************************)
EXTENDS Discovery, SequenceTheorems, TLAPS

USE TraitsAssumption, DiscoveryAssumption

LEMMA EventTypes ==
  ASSUME NEW c \in Cameras
  PROVE  /\ CameraLost(c) \in DiscoveryEvents
         /\ CameraUnreachable(c) \in DiscoveryEvents
         /\ \A t \in Traits : CameraFound(c, t) \in DiscoveryEvents
BY DEF CameraLost, CameraUnreachable, CameraFound, DiscoveryEvents

LEMMA LearnedTypes ==
  ASSUME NEW c \in Cameras
  PROVE  Learned(c) \subseteq Traits
BY DEF Learned

LEMMA SendTypes ==
  ASSUME TypeOK, NEW e \in DiscoveryEvents, Send(e)
  PROVE  inbox' \in Seq(DiscoveryEvents) /\ Len(inbox') <= ChanCap
BY AppendProperties DEF TypeOK, Send

(* What a connection changes, apart from what it announces. *)
LEMMA AnnounceTypes ==
  ASSUME TypeOK, NEW c \in Cameras, NEW a \in Addresses, AnnounceNew(c, a)
  PROVE  /\ inbox' \in Seq(DiscoveryEvents) /\ Len(inbox') <= ChanCap
         /\ announced' \in [Cameras -> Places]
<1>1. CASE discovered[c] = Nowhere
  <2>1. PICK t \in Traits :
          Send(CameraFound(c, t)) /\ announced' = [announced EXCEPT ![c] = a]
    BY <1>1, LearnedTypes DEF AnnounceNew
  <2>2. announced' \in [Cameras -> Places]
    BY <2>1 DEF TypeOK, Places
  <2> QED
    BY <2>1, <2>2, EventTypes, SendTypes
<1>2. CASE discovered[c] # Nowhere
  BY <1>2 DEF AnnounceNew, TypeOK
<1> QED
  BY <1>1, <1>2

LEMMA InitTypeOK == Init => TypeOK
<1> SUFFICES ASSUME Init PROVE TypeOK
  OBVIOUS
<1>1. missed \in [Cameras -> 0 .. MissThreshold - 1]
  BY DEF Init
<1>2. /\ discovered \in [Cameras -> Places] /\ announced \in [Cameras -> Places]
      /\ window \in [Cameras -> [1 .. MissThreshold -> BOOLEAN]]
  BY DEF Init, Places
<1>3. inbox \in Seq(DiscoveryEvents) /\ Len(inbox) <= ChanCap
  BY DEF Init
<1> QED
  BY <1>1, <1>2, <1>3 DEF Init, TypeOK

LEMMA ShiftTypes ==
  ASSUME TypeOK, NEW c \in Cameras
  PROVE  Shift(c) \in [1 .. MissThreshold -> BOOLEAN]
<1>1. \A j \in 1 .. MissThreshold : window[c][j] \in BOOLEAN
  BY DEF TypeOK
<1>2. \A i \in 1 .. MissThreshold : i = 1 \/ i - 1 \in 1 .. MissThreshold
  OBVIOUS
<1>3. ASSUME NEW i \in 1 .. MissThreshold
      PROVE  (IF i = 1 THEN c \in found ELSE window[c][i - 1]) \in BOOLEAN
  <2> DEFINE j == i - 1
  <2>1. i = 1 \/ j \in 1 .. MissThreshold
    BY <1>2
  <2> HIDE DEF j
  <2>2. i = 1 \/ window[c][j] \in BOOLEAN
    BY <1>1, <2>1
  <2>3. (c \in found) \in BOOLEAN
    OBVIOUS
  <2>4. (IF i = 1 THEN c \in found ELSE window[c][j]) \in BOOLEAN
    BY <2>2, <2>3, Zenon
  <2> QED
    BY <2>4 DEF j
<1> QED
  BY <1>3, Zenon DEF Shift

LEMMA NextTypeOK == TypeOK /\ [Next]_vars => TypeOK'
<1> SUFFICES ASSUME TypeOK, [Next]_vars PROVE TypeOK'
  OBVIOUS
<1> USE DEF TypeOK, scanVars
<1>1. CASE BeginScan
  <2>1. todo' \subseteq Addresses
    BY <1>1 DEF BeginScan, Merged, StaticSet
  <2> QED
    BY <1>1, <2>1 DEF BeginScan
<1>2. ASSUME NEW a \in Addresses, ConnectFails(a) PROVE TypeOK'
  BY <1>2 DEF ConnectFails
<1>3. ASSUME NEW a \in Addresses, NEW c \in Cameras, ConnectOk(c, a) PROVE TypeOK'
  <2>1. /\ missed' \in [Cameras -> 0 .. MissThreshold - 1]
        /\ discovered' \in [Cameras -> Places]
    BY <1>3 DEF ConnectOk, ClearMisses, Places
  <2> QED
    BY <1>3, <2>1, AnnounceTypes DEF ConnectOk
<1>4. CASE BeginSweep
  <2>1. \A c \in Cameras : Shift(c) \in [1 .. MissThreshold -> BOOLEAN]
    BY ShiftTypes
  <2>2. window' \in [Cameras -> [1 .. MissThreshold -> BOOLEAN]]
    BY <1>4, <2>1 DEF BeginSweep
  <2> QED
    BY <1>4, <2>2 DEF BeginSweep, Known
<1>5. ASSUME NEW c \in Cameras, SweepUnreachable(c) PROVE TypeOK'
  <2>1. missed' \in [Cameras -> 0 .. MissThreshold - 1]
    BY <1>5 DEF SweepUnreachable
  <2> QED
    BY <1>5, <2>1, EventTypes, SendTypes DEF SweepUnreachable
<1>6. ASSUME NEW c \in Cameras, SweepLost(c) PROVE TypeOK'
  <2>1. /\ missed' \in [Cameras -> 0 .. MissThreshold - 1]
        /\ discovered' \in [Cameras -> Places]
    BY <1>6 DEF SweepLost, Places
  <2> QED
    BY <1>6, <2>1, EventTypes, SendTypes DEF SweepLost
<1>7. CASE EndScan
  BY <1>7 DEF EndScan
<1>8. CASE Take
  BY <1>8 DEF Take
<1>9. ASSUME NEW c \in Cameras, NEW p \in Places, Move(c, p) PROVE TypeOK'
  BY <1>9 DEF Move
<1>10. CASE UNCHANGED vars
  BY <1>10 DEF vars
<1> QED
  BY <1>1, <1>2, <1>3, <1>4, <1>5, <1>6, <1>7, <1>8, <1>9, <1>10 DEF Next, Scan

(***************************************************************************)
(* discovery.rs:110-231: the scan keeps its types; no count of misses      *)
(* reaches the threshold, and the channel is never over its capacity.      *)
(***************************************************************************)
THEOREM DiscoveryTypes == Spec => []TypeOK
BY InitTypeOK, NextTypeOK, PTL DEF Spec
-----------------------------------------------------------------------------
(***************************************************************************)
(* The count of misses of a camera is the length of the run of scans, up   *)
(* to the last one, that did not find it.  The scan brings the count up to *)
(* date first for the cameras it finds and last for those it sweeps.       *)
(***************************************************************************)
Run(c, k) ==
  /\ \A i \in 1 .. MissThreshold : i <= k => ~window[c][i]
  /\ k < MissThreshold => window[c][k + 1]

Counted(c) ==
  IF c \in Known THEN Run(c, missed[c])
                 ELSE missed[c] = 0 /\ Run(c, MissThreshold)

CountInv ==
  \A c \in Cameras :
    /\ pc = "sleep" => Counted(c)
    /\ pc = "connect" => IF c \in found THEN c \in Known /\ missed[c] = 0
                                        ELSE Counted(c)
    /\ pc = "sweep" => IF c \in unchecked THEN c \in Known /\ Run(c, missed[c] + 1)
                                          ELSE Counted(c)

(* Only what is kept is swept. *)
SweepInv ==
  /\ unchecked \subseteq Known
  /\ pc # "sweep" => unchecked = {}

LEMMA KnownFacts ==
  ASSUME TypeOK
  PROVE  \A c \in Cameras : c \in Known <=> discovered[c] # Nowhere
BY DEF Known

LEMMA InitCountInv == Init => CountInv /\ SweepInv
<1> SUFFICES ASSUME Init PROVE CountInv /\ SweepInv
  OBVIOUS
<1>1. Known = {}
  BY DEF Init, Known
<1>2. \A c \in Cameras, i \in 1 .. MissThreshold : window[c][i] = FALSE
  BY DEF Init
<1>3. \A c \in Cameras : missed[c] = 0
  BY DEF Init
<1>4. \A c \in Cameras : Run(c, MissThreshold)
  <2>1. ~(MissThreshold < MissThreshold)
    OBVIOUS
  <2> QED
    BY <1>2, <2>1, Zenon DEF Run
<1> QED
  BY <1>1, <1>3, <1>4 DEF CountInv, SweepInv, Counted, Init

(* What a scan makes of the run of each camera. *)
LEMMA ShiftedWindow ==
  ASSUME window' = [d \in Cameras |-> Shift(d)], NEW c \in Cameras
  PROVE  /\ window'[c][1] = (c \in found)
         /\ \A j \in 1 .. MissThreshold - 1 : window'[c][j + 1] = window[c][j]
<1>1. \A i \in 1 .. MissThreshold :
        window'[c][i] = IF i = 1 THEN c \in found ELSE window[c][i - 1]
  BY Zenon DEF Shift
<1>2. 1 \in 1 .. MissThreshold
  OBVIOUS
<1>3. window'[c][1] = (c \in found)
  BY <1>1, <1>2, Zenon
<1>4. ASSUME NEW j \in 1 .. MissThreshold - 1
      PROVE  window'[c][j + 1] = window[c][j]
  <2>1. j + 1 \in 1 .. MissThreshold /\ j + 1 # 1 /\ (j + 1) - 1 = j
    OBVIOUS
  <2> DEFINE i == j + 1
  <2>2. window'[c][i] = IF i = 1 THEN c \in found ELSE window[c][i - 1]
    BY <1>1, <2>1
  <2>3. i # 1 /\ i - 1 = j
    BY <2>1
  <2> HIDE DEF i
  <2>4. window'[c][i] = window[c][j]
    BY <2>2, <2>3, Zenon
  <2> QED
    BY <2>4 DEF i
<1> QED
  BY <1>3, <1>4

LEMMA FoundRun ==
  ASSUME window' = [d \in Cameras |-> Shift(d)], NEW c \in Cameras, c \in found
  PROVE  Run(c, 0)'
<1>1. /\ \A i \in 1 .. MissThreshold : ~(i <= 0)
      /\ 0 + 1 = 1
  OBVIOUS
<1>2. window'[c][1]
  BY ShiftedWindow
<1> QED
  BY <1>1, <1>2 DEF Run

LEMMA MissedRun ==
  ASSUME window' = [d \in Cameras |-> Shift(d)], NEW c \in Cameras,
         c \notin found, NEW k \in 0 .. MissThreshold, Run(c, k)
  PROVE  Run(c, k + 1)'
<1>1. ASSUME NEW i \in 1 .. MissThreshold, i <= k + 1 PROVE ~window'[c][i]
  <2>1. CASE i = 1
    BY <2>1, ShiftedWindow
  <2>2. CASE i # 1
    <3> DEFINE j == i - 1
    <3>1. /\ j \in 1 .. MissThreshold - 1 /\ j \in 1 .. MissThreshold
          /\ j <= k /\ j + 1 = i
      BY <1>1, <2>2
    <3> HIDE DEF j
    <3>2. ~window[c][j]
      BY <3>1, Zenon DEF Run
    <3>3. window'[c][j + 1] = window[c][j]
      BY <3>1, ShiftedWindow
    <3> QED
      BY <3>1, <3>2, <3>3
  <2> QED
    BY <2>1, <2>2
<1>2. ASSUME k + 1 < MissThreshold PROVE window'[c][(k + 1) + 1]
  <2> DEFINE j == k + 1
  <2>1. j \in 1 .. MissThreshold - 1 /\ k < MissThreshold
    BY <1>2
  <2>2. window[c][j]
    BY <2>1, Zenon DEF Run
  <2> HIDE DEF j
  <2>3. window'[c][j + 1] = window[c][j]
    BY <2>1, ShiftedWindow
  <2>4. window'[c][j + 1]
    BY <2>2, <2>3
  <2> QED
    BY <2>4 DEF j
<1> QED
  BY <1>1, <1>2, Zenon DEF Run

(* A camera whose entries a step leaves alone stays counted. *)
LEMMA CountedStays ==
  ASSUME TypeOK, TypeOK', NEW c \in Cameras, Counted(c), window' = window,
         missed'[c] = missed[c], discovered'[c] = discovered[c]
  PROVE  Counted(c)'
<1>1. c \in Known' <=> c \in Known
  BY DEF Known
<1>2. \A k : Run(c, k) => Run(c, k)'
  BY Zenon DEF Run
<1> QED
  BY <1>1, <1>2 DEF Counted

LEMMA SweptStays ==
  ASSUME NEW c \in Cameras, Run(c, missed[c] + 1), window' = window,
         missed'[c] = missed[c]
  PROVE  Run(c, missed[c] + 1)'
BY Zenon DEF Run

LEMMA NextCountInv ==
  ASSUME TypeOK, TypeOK', CountInv, SweepInv, [Next]_vars
  PROVE  CountInv' /\ SweepInv'
<1> USE DEF scanVars
<1>0. \A c \in Cameras : c \in Known <=> discovered[c] # Nowhere
  BY KnownFacts
<1>1. ASSUME UNCHANGED <<window, missed, discovered>>
      PROVE  /\ Known' = Known
             /\ \A c \in Cameras : Counted(c)' <=> Counted(c)
             /\ \A c \in Cameras : \A k : Run(c, k)' <=> Run(c, k)
  BY <1>1, Zenon DEF Known, Counted, Run
<1>2. CASE UNCHANGED <<pc, todo, found, unchecked, discovered, missed, window>>
  BY <1>1, <1>2 DEF CountInv, SweepInv
<1>3. CASE BeginScan
  BY <1>1, <1>3 DEF BeginScan, CountInv, SweepInv
<1>4. ASSUME NEW a \in Addresses, ConnectFails(a) PROVE CountInv' /\ SweepInv'
  BY <1>1, <1>4 DEF ConnectFails, CountInv, SweepInv
<1>5. ASSUME NEW a \in Addresses, NEW c \in Cameras, ConnectOk(c, a)
      PROVE  CountInv' /\ SweepInv'
  <2>1. /\ missed' = [missed EXCEPT ![c] = 0]
        /\ discovered' = [discovered EXCEPT ![c] = a]
        /\ found' = found \cup {c} /\ UNCHANGED <<pc, unchecked, window>>
        /\ pc = "connect" /\ a # Nowhere
    BY <1>5 DEF ConnectOk, ClearMisses
  <2>2. /\ missed'[c] = 0 /\ discovered'[c] = a
        /\ \A d \in Cameras : d # c =>
             missed'[d] = missed[d] /\ discovered'[d] = discovered[d]
    BY <2>1 DEF TypeOK
  <2>3. /\ c \in Known'
        /\ \A d \in Cameras : d # c => (d \in Known' <=> d \in Known)
    BY <2>1, <2>2 DEF Known
  <2>4. \A d \in Cameras : d # c /\ Counted(d) => Counted(d)'
    BY <2>1, <2>2, CountedStays
  <2> QED
    BY <2>1, <2>2, <2>3, <2>4 DEF CountInv, SweepInv
<1>6. CASE BeginSweep
  <2>1. /\ pc = "connect" /\ pc' = "sweep" /\ unchecked' = Known \ found
        /\ UNCHANGED <<found, discovered, missed>>
        /\ window' = [c \in Cameras |-> Shift(c)]
    BY <1>6 DEF BeginSweep
  <2>2. Known' = Known
    BY <2>1 DEF Known
  <2>3. ASSUME NEW c \in Cameras
        PROVE  IF c \in unchecked' THEN c \in Known' /\ Run(c, missed[c] + 1)'
                                   ELSE Counted(c)'
    <3>1. PICK k \in 0 .. MissThreshold - 1 : k = missed[c] /\ k = missed'[c]
      BY <2>1 DEF TypeOK
    <3>2. CASE c \in found
      <4>1. c \in Known /\ k = 0
        BY <2>1, <3>1, <3>2 DEF CountInv
      <4>2. Run(c, 0)'
        BY <2>1, <3>2, FoundRun
      <4> QED
        BY <2>1, <2>2, <3>1, <3>2, <4>1, <4>2 DEF Counted
    <3>3. CASE c \notin found /\ c \in Known
      <4>1. Run(c, k)
        BY <2>1, <3>1, <3>3 DEF CountInv, Counted
      <4>2. Run(c, k + 1)'
        BY <2>1, <3>1, <3>3, <4>1, MissedRun
      <4> QED
        BY <2>1, <2>2, <3>1, <3>3, <4>2
    <3>4. CASE c \notin found /\ c \notin Known
      <4>1. Run(c, MissThreshold) /\ k = 0
        BY <2>1, <3>1, <3>4 DEF CountInv, Counted
      <4>2. Run(c, MissThreshold + 1)'
        BY <2>1, <3>4, <4>1, MissedRun
      <4>3. Run(c, MissThreshold)'
        BY <4>2 DEF Run
      <4> QED
        BY <2>1, <2>2, <3>1, <3>4, <4>1, <4>3 DEF Counted
    <3> QED
      BY <3>2, <3>3, <3>4
  <2> QED
    BY <2>1, <2>2, <2>3 DEF CountInv, SweepInv
<1>7. ASSUME NEW c \in Cameras, SweepUnreachable(c) PROVE CountInv' /\ SweepInv'
  <2>1. PICK k \in 0 .. MissThreshold - 1 : k = missed[c]
    BY DEF TypeOK
  <2>2. /\ pc = "sweep" /\ c \in unchecked /\ unchecked' = unchecked \ {c}
        /\ missed' = [missed EXCEPT ![c] = k + 1]
        /\ UNCHANGED <<pc, todo, found, discovered, window>>
    BY <1>7, <2>1 DEF SweepUnreachable
  <2>3. /\ missed'[c] = k + 1
        /\ \A d \in Cameras : d # c => missed'[d] = missed[d]
    BY <2>2 DEF TypeOK
  <2>4. Known' = Known /\ c \in Known /\ Run(c, k + 1)
    BY <2>1, <2>2 DEF Known, CountInv
  <2>5. Run(c, k + 1)'
    BY <2>2, <2>4, Zenon DEF Run
  <2>6. Counted(c)'
    BY <2>3, <2>4, <2>5 DEF Counted
  <2>7. \A d \in Cameras : d # c =>
          /\ Counted(d) => Counted(d)'
          /\ Run(d, missed[d] + 1) => Run(d, missed[d] + 1)'
    BY <2>2, <2>3, CountedStays, SweptStays
  <2> QED
    BY <2>2, <2>4, <2>6, <2>7 DEF CountInv, SweepInv
<1>8. ASSUME NEW c \in Cameras, SweepLost(c) PROVE CountInv' /\ SweepInv'
  <2>1. PICK k \in 0 .. MissThreshold - 1 : k = missed[c]
    BY DEF TypeOK
  <2>2. /\ pc = "sweep" /\ c \in unchecked /\ unchecked' = unchecked \ {c}
        /\ k + 1 >= MissThreshold
        /\ missed' = [missed EXCEPT ![c] = 0]
        /\ discovered' = [discovered EXCEPT ![c] = Nowhere]
        /\ UNCHANGED <<pc, todo, found, window>>
    BY <1>8, <2>1 DEF SweepLost
  <2>3. /\ missed'[c] = 0 /\ discovered'[c] = Nowhere
        /\ \A d \in Cameras : d # c =>
             missed'[d] = missed[d] /\ discovered'[d] = discovered[d]
    BY <2>2 DEF TypeOK
  <2>4. Known' = Known \ {c}
    BY <2>3 DEF Known
  <2>5. k + 1 = MissThreshold /\ Run(c, k + 1)
    BY <2>1, <2>2 DEF CountInv
  <2>6. Run(c, MissThreshold)'
    BY <2>2, <2>5, Zenon DEF Run
  <2>7. Counted(c)'
    BY <2>3, <2>4, <2>6 DEF Counted
  <2>8. \A d \in Cameras : d # c =>
          /\ Counted(d) => Counted(d)'
          /\ Run(d, missed[d] + 1) => Run(d, missed[d] + 1)'
    BY <2>2, <2>3, CountedStays, SweptStays
  <2> QED
    BY <2>2, <2>4, <2>7, <2>8 DEF CountInv, SweepInv
<1>9. CASE EndScan
  BY <1>1, <1>9 DEF EndScan, CountInv, SweepInv
<1>10. ASSUME NEW c \in Cameras, NEW p \in Places, Move(c, p)
       PROVE  CountInv' /\ SweepInv'
  BY <1>2, <1>10 DEF Move
<1> QED
  BY <1>2, <1>3, <1>4, <1>5, <1>6, <1>7, <1>8, <1>9, <1>10
     DEF Next, Scan, Take, vars

LEMMA CountInvHolds == Spec => [](TypeOK /\ CountInv /\ SweepInv)
<1>1. TypeOK /\ CountInv /\ SweepInv /\ TypeOK' /\ [Next]_vars
        => (CountInv /\ SweepInv)'
  BY NextCountInv
<1> QED
  BY <1>1, DiscoveryTypes, InitCountInv, PTL DEF Spec

(***************************************************************************)
(* discovery.rs:16 and 192-222: between scans the cameras kept are those   *)
(* found in one of the last MISS_THRESHOLD scans, whatever the threshold.  *)
(***************************************************************************)
THEOREM GracePeriodIsExact == Spec => []KeptIffRecentlySeen
<1>1. TypeOK /\ CountInv => KeptIffRecentlySeen
  <2> SUFFICES ASSUME TypeOK, CountInv, pc = "sleep", NEW c \in Cameras
               PROVE  c \in Known <=> \E i \in 1 .. MissThreshold : window[c][i]
    BY DEF KeptIffRecentlySeen
  <2>1. Counted(c)
    BY DEF CountInv
  <2>2. CASE c \in Known
    <3>1. PICK k \in 0 .. MissThreshold - 1 : k = missed[c]
      BY DEF TypeOK
    <3>2. k + 1 \in 1 .. MissThreshold /\ k < MissThreshold
      OBVIOUS
    <3>3. Run(c, k)
      BY <2>1, <2>2, <3>1 DEF Counted
    <3>4. window[c][k + 1]
      BY <3>2, <3>3, Zenon DEF Run
    <3> QED
      BY <2>2, <3>2, <3>4
  <2>3. CASE c \notin Known
    <3>1. Run(c, MissThreshold)
      BY <2>1, <2>3 DEF Counted
    <3>2. \A i \in 1 .. MissThreshold : i <= MissThreshold
      OBVIOUS
    <3>3. \A i \in 1 .. MissThreshold : ~window[c][i]
      BY <3>1, <3>2, Zenon DEF Run
    <3> QED
      BY <2>3, <3>3
  <2> QED
    BY <2>2, <2>3
<1> QED
  BY <1>1, CountInvHolds, PTL
-----------------------------------------------------------------------------
(***************************************************************************)
(* What each step of the scan is to the reader of the channel.             *)
(***************************************************************************)
LEMMA FeedStep ==
  ASSUME TypeOK, SweepInv, [Next]_vars
  PROVE  [Feed!FeedNext \/ Feed!Take]_(Feed!feedVars)
<1> USE DEF scanVars, Feed!feedVars
<1>1. discovered' = discovered => Known' = Known
  BY DEF Known
<1>2. CASE UNCHANGED <<discovered, inbox>>
  BY <1>1, <1>2
<1>3. ASSUME NEW a \in Addresses, NEW c \in Cameras, ConnectOk(c, a)
      PROVE  [Feed!FeedNext \/ Feed!Take]_(Feed!feedVars)
  <2>1. discovered' = [discovered EXCEPT ![c] = a] /\ AnnounceNew(c, a) /\ a # Nowhere
    BY <1>3 DEF ConnectOk
  <2>2. Known' = Known \cup {c}
    BY <2>1 DEF Known, TypeOK
  <2>3. CASE discovered[c] = Nowhere
    <3>1. PICK t \in Traits : Send(CameraFound(c, t))
      BY <2>1, <2>3, LearnedTypes DEF AnnounceNew
    <3>2. c \notin Known
      BY <2>3 DEF Known
    <3>3. Feed!Announce(c, t)
      BY <2>2, <3>1, <3>2
         DEF Feed!Announce, Feed!Send, Send, Feed!CameraFound, CameraFound
    <3> QED
      BY <3>3 DEF Feed!FeedNext
  <2>4. CASE discovered[c] # Nowhere
    <3>1. Known' = Known
      BY <2>2, <2>4 DEF Known
    <3> QED
      BY <2>1, <2>4, <3>1 DEF AnnounceNew
  <2> QED
    BY <2>3, <2>4
<1>4. ASSUME NEW c \in Cameras, SweepUnreachable(c)
      PROVE  [Feed!FeedNext \/ Feed!Take]_(Feed!feedVars)
  <2>1. Feed!Notice(c)
    BY <1>1, <1>4
       DEF SweepUnreachable, SweepInv, Feed!Notice, Feed!Send, Send,
           Feed!CameraUnreachable, CameraUnreachable
  <2> QED
    BY <2>1 DEF Feed!FeedNext
<1>5. ASSUME NEW c \in Cameras, SweepLost(c)
      PROVE  [Feed!FeedNext \/ Feed!Take]_(Feed!feedVars)
  <2>1. Known' = Known \ {c}
    BY <1>5 DEF SweepLost, Known, TypeOK
  <2>2. Feed!Withdraw(c)
    BY <1>5, <2>1
       DEF SweepLost, SweepInv, Feed!Withdraw, Feed!Send, Send,
           Feed!CameraLost, CameraLost
  <2> QED
    BY <2>2 DEF Feed!FeedNext
<1>6. CASE Take
  BY <1>1, <1>6 DEF Take, Feed!Take
<1> QED
  BY <1>2, <1>3, <1>4, <1>5, <1>6
     DEF Next, Scan, BeginScan, ConnectFails, BeginSweep, EndScan, Move, vars

(***************************************************************************)
(* discovery.rs:110-231: the scan is a DiscoveryFeed.  What CameraBridge   *)
(* shows of the bridge on that feed holds of it on the scan.               *)
(***************************************************************************)
THEOREM ScanImplementsFeed == Spec => ImplementsFeed
<1>1. Init => Feed!FeedInit
  BY DEF Init, Feed!FeedInit, Known
<1>2. TypeOK /\ SweepInv /\ [Next]_vars
        => [Feed!FeedNext \/ Feed!Take]_(Feed!feedVars)
  BY FeedStep
<1> QED
  BY <1>1, <1>2, CountInvHolds, PTL DEF Spec, ImplementsFeed, Feed!Feed
=============================================================================
