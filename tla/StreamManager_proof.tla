------------------------ MODULE StreamManager_proof ------------------------
(***************************************************************************)
(* Proofs about StreamManager, for any cameras, names, URLs, channel       *)
(* capacity and number of probes: its types, and what an idle stream       *)
(* manager leaves in go2rtc if nothing failed.                             *)
(***************************************************************************)
EXTENDS StreamManager, SequenceTheorems, TLAPS

USE StreamsAssumption DEF StreamsAssumption

Event == [kind : {"added", "removed"}, id : Cameras, url : Uris]

LEMMA QueueFacts ==
  ASSUME TypeOK
  PROVE  /\ queue \in Seq(Event) /\ Len(queue) \in Nat
         /\ \A i \in 1 .. Len(queue) : queue[i] \in Event
BY LenProperties, ElementOfSeq DEF TypeOK, Event

LEMMA HeadFacts ==
  ASSUME TypeOK, queue # <<>>
  PROVE  /\ Head(queue) \in Event /\ Head(queue) = queue[1]
         /\ Tail(queue) \in Seq(Event) /\ Len(Tail(queue)) = Len(queue) - 1
         /\ Len(queue) >= 1
         /\ \A i \in 1 .. Len(Tail(queue)) : Tail(queue)[i] = queue[i + 1]
<1>1. queue \in Seq(Event) /\ Len(queue) \in Nat
  BY QueueFacts
<1> QED
  BY <1>1, HeadTailProperties

LEMMA NameFacts ==
  ASSUME TypeOK, camera # NoCamera
  PROVE  camera \in Cameras /\ Name \in Names
BY DEF TypeOK, Name

(* The start-up, which has no camera in hand and leaves the streams alone. *)
StartUp == SpawnLocal \/ ProbeOk \/ ProbeFails \/ ProbeHangs \/ HungProbeEnds

(* There is a camera in hand from its event to the last call for it. *)
Calls == {"query", "replace", "add", "remove"}

HandOK ==
  /\ pc \in Calls => camera # NoCamera
  /\ pc \notin Calls => camera = NoCamera
-----------------------------------------------------------------------------
LEMMA BroadcastTypes ==
  ASSUME TypeOK, NEW e \in Event, Broadcast(e)
  PROVE  /\ queue' \in Seq(Event) /\ Len(queue') <= RegistryCap
         /\ lagged' \in BOOLEAN /\ faulty' \in BOOLEAN
<1>0. queue \in Seq(Event) /\ Len(queue) \in Nat /\ Len(queue) <= RegistryCap
  BY QueueFacts DEF TypeOK
<1>1. CASE Len(queue) < RegistryCap
  <2>1. queue' = Append(queue, e) /\ UNCHANGED <<lagged, faulty>>
    BY <1>1 DEF Broadcast
  <2>2. queue' \in Seq(Event) /\ Len(queue') = Len(queue) + 1
    BY <1>0, <2>1, AppendProperties
  <2> QED
    BY <1>0, <1>1, <2>1, <2>2 DEF TypeOK
<1>2. CASE ~(Len(queue) < RegistryCap)
  <2>1. queue' = Append(Tail(queue), e) /\ lagged' = TRUE /\ faulty' = TRUE
    BY <1>2 DEF Broadcast
  <2>2. queue # <<>>
    BY <1>0, <1>2
  <2>3. Tail(queue) \in Seq(Event) /\ Len(Tail(queue)) = Len(queue) - 1
    BY <2>2, HeadFacts
  <2>4. queue' \in Seq(Event) /\ Len(queue') = Len(Tail(queue)) + 1
    BY <2>1, <2>3, AppendProperties
  <2> QED
    BY <1>0, <2>1, <2>3, <2>4
<1> QED
  BY <1>1, <1>2

LEMMA InitTypeOK == Init => TypeOK /\ HandOK
<1> SUFFICES ASSUME Init PROVE TypeOK /\ HandOK
  OBVIOUS
<1>1. /\ queue \in Seq([kind : {"added", "removed"}, id : Cameras, url : Uris])
      /\ Len(queue) <= RegistryCap
  BY DEF Init
<1>2. /\ registry \in [Cameras -> Uris \cup {Gone}]
      /\ streams \in [Names -> Urls \cup {Gone}] /\ url \in Uris
  BY DEF Init, Uris
<1>3. TypeOK
  <2>1. probes \in 0 .. ProbeLimit
    BY DEF Init
  <2>2. /\ lagged \in BOOLEAN /\ go2rtc \in {"up", "down"} /\ keeper \in BOOLEAN
        /\ pc \in {"spawn", "probe"}
        /\ camera \in Cameras \cup {NoCamera} /\ seen \in SUBSET Cameras
        /\ faulty \in BOOLEAN
    BY DEF Init
  <2> QED
    BY <1>1, <1>2, <2>1, <2>2 DEF TypeOK
<1>4. HandOK
  BY DEF Init, HandOK, Calls
<1> QED
  BY <1>3, <1>4

(* The steps that change the registry. *)
LEMMA RegistryTypes ==
  ASSUME TypeOK, HandOK, NEW c \in Cameras,
         RemoveCamera(c) \/ \E u \in UrisOf[c] : AddCamera(c, u)
  PROVE  TypeOK' /\ HandOK'
<1>1. PICK e \in Event : Broadcast(e)
  <2>1. CASE RemoveCamera(c)
    <3>1. [kind |-> "removed", id |-> c, url |-> NoUrl] \in Event
      BY DEF Event, Uris
    <3> QED
      BY <2>1, <3>1 DEF RemoveCamera
  <2>2. ASSUME NEW u \in UrisOf[c], AddCamera(c, u)
        PROVE  \E e \in Event : Broadcast(e)
    <3>1. u \in Uris
      BY DEF Uris
    <3>2. [kind |-> "added", id |-> c, url |-> u] \in Event
      BY <3>1 DEF Event
    <3> QED
      BY <2>2, <3>2 DEF AddCamera
  <2> QED
    BY <2>1, <2>2
<1>2. /\ queue' \in Seq(Event) /\ Len(queue') <= RegistryCap
      /\ lagged' \in BOOLEAN /\ faulty' \in BOOLEAN
  BY <1>1, BroadcastTypes
<1>3. registry' \in [Cameras -> Uris \cup {Gone}] /\ seen' \in SUBSET Cameras
  <2>1. CASE RemoveCamera(c)
    BY <2>1 DEF RemoveCamera, TypeOK
  <2>2. ASSUME NEW u \in UrisOf[c], AddCamera(c, u)
        PROVE  registry' \in [Cameras -> Uris \cup {Gone}] /\ seen' \in SUBSET Cameras
    <3>1. u \in Uris
      BY DEF Uris
    <3> QED
      BY <2>2, <3>1 DEF AddCamera, TypeOK
  <2> QED
    BY <2>1, <2>2
<1>4. UNCHANGED <<rtcVars, probes, pc, camera, url>>
  BY DEF RemoveCamera, AddCamera
<1> QED
  BY <1>2, <1>3, <1>4 DEF TypeOK, HandOK, Event, rtcVars

(* A call, answered or not: it is the last one of its event, or not. *)
LEMMA CallOutcome ==
  ASSUME NEW next, CallFails(next) \/ CallAnswered(next)
  PROVE  /\ UNCHANGED <<registry, queue, lagged, seen, go2rtc, keeper, probes>>
         /\ faulty' \in {faulty, TRUE}
         /\ CallAnswered(next) => faulty' = faulty
         /\ next = "recv" => pc' = "recv" /\ camera' = NoCamera /\ url' = NoUrl
         /\ next # "recv" => pc' = next /\ UNCHANGED <<camera, url>>
BY DEF CallFails, CallAnswered, Goto, busVars

LEMMA StreamsTypes ==
  ASSUME TypeOK, HandOK, pc \in Calls
  PROVE  /\ Deleted \in [Names -> Urls \cup {Gone}]
         /\ pc = "add" => Inserted \in [Names -> Urls \cup {Gone}]
<1>1. Name \in Names
  BY NameFacts DEF HandOK
<1> QED
  BY <1>1 DEF TypeOK, Deleted, Inserted

Call == QueryMatches \/ QueryDiffers \/ QueryAbsent \/ QueryUnknown \/ Replace \/ Add \/ Remove

LEMMA CallTypes ==
  ASSUME TypeOK, HandOK, Call
  PROVE  TypeOK' /\ HandOK'
<1>1. pc \in Calls /\ streams' \in [Names -> Urls \cup {Gone}]
  <2>1. pc \in Calls
    BY DEF Call, QueryMatches, QueryDiffers, QueryAbsent, QueryUnknown,
           Replace, Add, Remove, Calls
  <2> QED
    BY <2>1, StreamsTypes
       DEF Call, QueryMatches, QueryDiffers, QueryAbsent, QueryUnknown,
           Replace, Add, Remove, LostCall, TypeOK
<1>2. /\ UNCHANGED <<registry, queue, lagged, seen, go2rtc, keeper, probes>>
      /\ faulty' \in {faulty, TRUE}
      /\ \/ pc' = "recv" /\ camera' = NoCamera /\ url' = NoUrl
         \/ /\ pc \in {"query", "replace"} /\ pc' \in {"replace", "add"}
            /\ UNCHANGED <<camera, url>>
  <2>1. CASE QueryMatches
    BY <2>1, CallOutcome DEF QueryMatches
  <2>2. CASE QueryDiffers
    BY <2>2, CallOutcome DEF QueryDiffers
  <2>3. CASE QueryAbsent
    BY <2>3, CallOutcome DEF QueryAbsent
  <2>4. CASE QueryUnknown
    BY <2>4, CallOutcome DEF QueryUnknown
  <2>5. CASE Replace
    BY <2>5, CallOutcome DEF Replace
  <2>6. CASE Add
    BY <2>6, CallOutcome DEF Add
  <2>7. CASE Remove
    BY <2>7, CallOutcome DEF Remove
  <2> QED
    BY <2>1, <2>2, <2>3, <2>4, <2>5, <2>6, <2>7 DEF Call
<1>3. CASE pc' = "recv" /\ camera' = NoCamera /\ url' = NoUrl
  BY <1>1, <1>2, <1>3 DEF TypeOK, HandOK, Calls, Uris
<1>4. CASE /\ pc \in {"query", "replace"} /\ pc' \in {"replace", "add"}
           /\ UNCHANGED <<camera, url>>
  BY <1>1, <1>2, <1>4 DEF TypeOK, HandOK, Calls
<1> QED
  BY <1>2, <1>3, <1>4

LEMMA NextTypeOK ==
  ASSUME TypeOK, HandOK, [Next]_vars
  PROVE  TypeOK' /\ HandOK'
<1> USE DEF rtcVars, busVars
<1>1. CASE StartUp
  <2> USE DEF StartUp
  <2>1. /\ UNCHANGED <<registry, queue, lagged, seen, go2rtc, streams, camera, url, faulty>>
        /\ pc \in {"spawn", "probe", "hung"} /\ pc' \in {"probe", "hung", "recv"}
    BY <1>1 DEF SpawnLocal, ProbeOk, ProbeFails, ProbeHangs, HungProbeEnds
  <2>2. keeper' \in BOOLEAN
    BY <1>1 DEF SpawnLocal, ProbeOk, ProbeFails, ProbeHangs, HungProbeEnds, TypeOK
  <2>3. probes' \in 0 .. ProbeLimit
    <3>1. probes \in 0 .. ProbeLimit
      BY DEF TypeOK
    <3>2. CASE SpawnLocal
      BY <3>1, <3>2 DEF SpawnLocal
    <3>3. CASE ProbeOk
      BY <3>3 DEF ProbeOk
    <3>4. CASE ProbeFails
      BY <3>1, <3>4 DEF ProbeFails
    <3>5. CASE ProbeHangs
      BY <3>1, <3>5 DEF ProbeHangs
    <3>6. CASE HungProbeEnds
      BY <3>1, <3>6 DEF HungProbeEnds
    <3> QED
      BY <1>1, <3>2, <3>3, <3>4, <3>5, <3>6
  <2> QED
    BY <2>1, <2>2, <2>3 DEF TypeOK, HandOK, Calls
<1>2. CASE RecvCamera
  <2>1. /\ pc = "recv" /\ queue # <<>> /\ queue' = Tail(queue)
        /\ UNCHANGED <<registry, lagged, seen, go2rtc, streams, keeper, probes, faulty>>
    BY <1>2 DEF RecvCamera, TakeEvent
  <2>2. PICK e \in Event : e = Head(queue)
    BY <2>1, HeadFacts
  <2>3. queue' \in Seq(Event) /\ Len(queue') <= RegistryCap
    BY <2>1, HeadFacts, QueueFacts DEF TypeOK
  <2>4. \/ pc' = "remove" /\ camera' = e.id /\ url' = e.url
        \/ pc' = "query" /\ camera' = e.id /\ url' = e.url /\ e.url # NoUrl
        \/ UNCHANGED <<pc, camera, url>>
    BY <1>2, <2>2 DEF RecvCamera, HandleEvent
  <2>5. e.id \in Cameras /\ e.url \in Uris /\ (e.url # NoUrl => e.url \in Urls)
    BY DEF Event, Uris
  <2>6. /\ pc' \in {"remove", "query", pc}
        /\ camera' \in Cameras \cup {NoCamera} /\ url' \in Uris
        /\ pc' \in {"query", "replace", "add"} => url' \in Urls
    BY <2>1, <2>4, <2>5 DEF TypeOK
  <2>7. TypeOK'
    BY <2>1, <2>3, <2>6 DEF TypeOK, Event
  <2>8. HandOK'
    BY <2>1, <2>4, <2>5 DEF HandOK, Calls
  <2> QED
    BY <2>7, <2>8
<1>3. CASE RecvLagged \/ Respawn \/ UNCHANGED vars
  <2>1. /\ UNCHANGED <<registry, queue, seen, streams, keeper, probes, pc, camera, url, faulty>>
        /\ lagged' \in {lagged, FALSE} /\ go2rtc' \in {go2rtc, "up"}
    BY <1>3 DEF RecvLagged, Respawn, vars
  <2>2. lagged' \in BOOLEAN /\ go2rtc' \in {"up", "down"}
    BY <2>1 DEF TypeOK
  <2>3. TypeOK'
    BY <2>1, <2>2 DEF TypeOK
  <2>4. HandOK'
    BY <2>1 DEF HandOK
  <2> QED
    BY <2>3, <2>4
<1>4. CASE Exit
  <2>1. streams' \in [Names -> Urls \cup {Gone}]
    BY <1>4 DEF Exit
  <2> QED
    BY <1>4, <2>1 DEF Exit, TypeOK, HandOK
<1>5. CASE Call
  BY <1>5, CallTypes
<1>6. ASSUME NEW c \in Cameras,
             RemoveCamera(c) \/ \E u \in UrisOf[c] : AddCamera(c, u)
      PROVE  TypeOK' /\ HandOK'
  BY <1>6, RegistryTypes
<1> QED
  BY <1>1, <1>2, <1>3, <1>4, <1>5, <1>6 DEF Next, Manager, StartUp, Call

LEMMA TypesHold == Spec => [](TypeOK /\ HandOK)
BY InitTypeOK, NextTypeOK, PTL DEF Spec

(***************************************************************************)
(* stream_manager.rs: the stream manager and go2rtc keep their types, and  *)
(* a camera is only registered with a URL (stream_manager.rs:28-31).       *)
(***************************************************************************)
THEOREM StreamTypes == Spec => []TypeOK
BY TypesHold, PTL
-----------------------------------------------------------------------------
(***************************************************************************)
(* What holds between two events.  A camera is pending from the event that *)
(* announces it to the end of the calls for it, and while it is, go2rtc    *)
(* may have anything for it.  As long as nothing was lost, the last queued *)
(* event about a camera, or the one in hand if none is queued, says what   *)
(* the registry says now, and a camera that is not pending has what the    *)
(* registry says, unless it has no URL.  A name serves nothing, or one of  *)
(* its cameras is pending, has no URL or has the URL that is served.       *)
(***************************************************************************)
Queued(c)  == \E i \in 1 .. Len(queue) : queue[i].id = c
Pending(c) == camera = c \/ Queued(c)
IsLast(i)  == \A j \in 1 .. Len(queue) : j > i => queue[j].id # queue[i].id

SeenInv ==
  /\ \A i \in 1 .. Len(queue) : queue[i].id \in seen
  /\ camera # NoCamera => camera \in seen
  /\ \A c \in Cameras : registry[c] # Gone => c \in seen

QueueInv ==
  \A i \in 1 .. Len(queue) : IsLast(i) =>
    /\ queue[i].kind = "added"   => registry[queue[i].id] = queue[i].url
    /\ queue[i].kind = "removed" => registry[queue[i].id] = Gone

HandInv ==
  pc \in Calls /\ ~Queued(camera) =>
    /\ pc = "remove" => registry[camera] = Gone
    /\ pc # "remove" => registry[camera] = url

AddInv == pc = "add" => streams[Name] = Gone

AloneInv ==
  \A c \in seen : AloneOnName(c) =>
    Pending(c) \/ registry[c] = NoUrl \/ streams[StreamName[c]] = registry[c]

NameInv ==
  \A n \in Names :
    \/ Namesakes(n) \cap seen = {}
    \/ streams[n] = Gone
    \/ \E c \in Namesakes(n) \cap seen :
         Pending(c) \/ registry[c] = NoUrl \/ registry[c] = streams[n]

SyncInv   == QueueInv /\ HandInv /\ AddInv /\ AloneInv /\ NameInv
StreamInv == SeenInv /\ (~faulty => SyncInv)

LEMMA InitStreamInv == Init => StreamInv
<1> SUFFICES ASSUME Init PROVE StreamInv
  OBVIOUS
<1>1. /\ queue = <<>> /\ Len(queue) = 0 /\ camera = NoCamera /\ seen = {}
      /\ pc \notin Calls
      /\ \A c \in Cameras : registry[c] = Gone
  BY DEF Init, Calls
<1>2. SeenInv /\ QueueInv
  BY <1>1 DEF SeenInv, QueueInv
<1>3. HandInv /\ AddInv
  BY <1>1 DEF HandInv, AddInv, Calls
<1>4. AloneInv /\ NameInv
  BY <1>1 DEF AloneInv, NameInv
<1> QED
  BY <1>2, <1>3, <1>4 DEF StreamInv, SyncInv
-----------------------------------------------------------------------------
(* What a change of the registry does: it is announced, and nothing else. *)
LEMMA RegistryStep ==
  ASSUME TypeOK, SeenInv, NEW c \in Cameras,
         RemoveCamera(c) \/ \E u \in UrisOf[c] : AddCamera(c, u)
  PROVE  \E e \in Event, w \in Uris \cup {Gone} :
           /\ e.id = c /\ Broadcast(e)
           /\ e.kind = "added" => w = e.url
           /\ e.kind = "removed" => w = Gone
           /\ registry' = [registry EXCEPT ![c] = w]
           /\ seen' = seen \cup {c}
           /\ UNCHANGED <<rtcVars, probes, pc, camera, url>>
<1>1. CASE RemoveCamera(c)
  <2> DEFINE e == [kind |-> "removed", id |-> c, url |-> NoUrl]
  <2>1. e \in Event /\ e.id = c /\ e.kind = "removed"
    BY DEF Event, Uris
  <2>2. c \in seen /\ seen' = seen
    BY <1>1 DEF RemoveCamera, SeenInv
  <2>3. seen' = seen \cup {c}
    BY <2>2
  <2>4. /\ Broadcast(e) /\ registry' = [registry EXCEPT ![c] = Gone]
        /\ UNCHANGED <<rtcVars, probes, pc, camera, url>>
    BY <1>1 DEF RemoveCamera
  <2> HIDE DEF e
  <2> QED
    BY <2>1, <2>3, <2>4
<1>2. ASSUME NEW u \in UrisOf[c], AddCamera(c, u)
      PROVE  \E e \in Event, w \in Uris \cup {Gone} :
               /\ e.id = c /\ Broadcast(e)
               /\ e.kind = "added" => w = e.url
               /\ e.kind = "removed" => w = Gone
               /\ registry' = [registry EXCEPT ![c] = w]
               /\ seen' = seen \cup {c}
               /\ UNCHANGED <<rtcVars, probes, pc, camera, url>>
  <2> DEFINE e == [kind |-> "added", id |-> c, url |-> u]
  <2>1. e \in Event /\ e.id = c /\ e.kind = "added" /\ e.url = u /\ u \in Uris
    BY DEF Event, Uris
  <2>2. /\ Broadcast(e) /\ registry' = [registry EXCEPT ![c] = u]
        /\ seen' = seen \cup {c}
        /\ UNCHANGED <<rtcVars, probes, pc, camera, url>>
    BY <1>2 DEF AddCamera
  <2> HIDE DEF e
  <2> QED
    BY <2>1, <2>2
<1> QED
  BY <1>1, <1>2

(* An event that is announced goes to the end of the queue. *)
LEMMA BroadcastQueue ==
  ASSUME TypeOK, NEW e \in Event, Broadcast(e)
  PROVE  /\ \A i \in 1 .. Len(queue') :
              queue'[i] = e \/ \E j \in 1 .. Len(queue) : queue'[i] = queue[j]
         /\ ~faulty' => /\ ~faulty
                        /\ Len(queue') = Len(queue) + 1
                        /\ queue'[Len(queue) + 1] = e
                        /\ \A i \in 1 .. Len(queue) : queue'[i] = queue[i]
<1>0. queue \in Seq(Event) /\ Len(queue) \in Nat
  BY QueueFacts
<1>1. CASE Len(queue) < RegistryCap
  <2>1. queue' = Append(queue, e) /\ UNCHANGED <<lagged, faulty>>
    BY <1>1 DEF Broadcast
  <2>2. /\ Len(queue') = Len(queue) + 1 /\ queue'[Len(queue) + 1] = e
        /\ \A i \in 1 .. Len(queue) : queue'[i] = queue[i]
    BY <1>0, <2>1, AppendProperties
  <2>3. \A i \in 1 .. Len(queue') : i = Len(queue) + 1 \/ i \in 1 .. Len(queue)
    BY <1>0, <2>2
  <2> QED
    BY <2>1, <2>2, <2>3
<1>2. CASE ~(Len(queue) < RegistryCap)
  <2>1. queue' = Append(Tail(queue), e) /\ faulty' = TRUE
    BY <1>2 DEF Broadcast
  <2>2. queue # <<>>
    BY <1>0, <1>2
  <2>3. /\ Tail(queue) \in Seq(Event) /\ Len(Tail(queue)) = Len(queue) - 1
        /\ \A i \in 1 .. Len(Tail(queue)) : Tail(queue)[i] = queue[i + 1]
    BY <2>2, HeadFacts
  <2>4. /\ Len(queue') = Len(Tail(queue)) + 1
        /\ queue'[Len(Tail(queue)) + 1] = e
        /\ \A i \in 1 .. Len(Tail(queue)) : queue'[i] = Tail(queue)[i]
    BY <2>1, <2>3, AppendProperties
  <2>5. ASSUME NEW i \in 1 .. Len(queue')
        PROVE  queue'[i] = e \/ \E j \in 1 .. Len(queue) : queue'[i] = queue[j]
    <3>1. CASE i = Len(queue)
      BY <1>0, <2>3, <2>4, <3>1
    <3>2. CASE i # Len(queue)
      <4>1. i \in 1 .. Len(Tail(queue)) /\ i + 1 \in 1 .. Len(queue)
        BY <1>0, <2>3, <2>4, <3>2
      <4> QED
        BY <2>3, <2>4, <4>1
    <3> QED
      BY <3>1, <3>2
  <2> QED
    BY <2>1, <2>5
<1> QED
  BY <1>1, <1>2

(* The camera of the first event stays pending until it was handled. *)
LEMMA TailQueue ==
  ASSUME TypeOK, queue # <<>>, queue' = Tail(queue)
  PROVE  /\ Len(queue) \in Nat \ {0} /\ Len(queue') = Len(queue) - 1
         /\ \A i \in 1 .. Len(queue') : i + 1 \in 1 .. Len(queue) /\ queue'[i] = queue[i + 1]
         /\ \A i \in 2 .. Len(queue) : i - 1 \in 1 .. Len(queue') /\ queue'[i - 1] = queue[i]
<1>1. Len(queue) \in Nat \ {0} /\ Len(queue') = Len(queue) - 1
  BY HeadFacts, QueueFacts
<1>2. \A i \in 1 .. Len(queue') : i + 1 \in 1 .. Len(queue) /\ queue'[i] = queue[i + 1]
  BY <1>1, HeadFacts
<1>3. ASSUME NEW i \in 2 .. Len(queue)
      PROVE  i - 1 \in 1 .. Len(queue') /\ queue'[i - 1] = queue[i]
  <2>1. i - 1 \in 1 .. Len(queue') /\ (i - 1) + 1 = i
    BY <1>1
  <2> QED
    BY <1>2, <2>1
<1> QED
  BY <1>1, <1>2, <1>3

LEMMA TailQueued ==
  ASSUME TypeOK, queue # <<>>, queue' = Tail(queue)
  PROVE  /\ \A c : Queued(c)' => Queued(c)
         /\ \A c : Queued(c) => Queued(c)' \/ c = queue[1].id
         /\ \A c : c = queue[1].id /\ ~Queued(c)' => IsLast(1)
<1>1. ASSUME NEW c, Queued(c)' PROVE Queued(c)
  BY <1>1, TailQueue DEF Queued
<1>2. ASSUME NEW c, Queued(c), c # queue[1].id PROVE Queued(c)'
  <2>1. PICK i \in 1 .. Len(queue) : queue[i].id = c
    BY <1>2 DEF Queued
  <2>2. i \in 2 .. Len(queue)
    BY <1>2, <2>1, TailQueue
  <2> QED
    BY <2>1, <2>2, TailQueue DEF Queued
<1>3. ASSUME NEW c, c = queue[1].id, ~Queued(c)' PROVE IsLast(1)
  <2>1. ASSUME NEW j \in 1 .. Len(queue), j > 1 PROVE queue[j].id # queue[1].id
    <3>1. j \in 2 .. Len(queue)
      BY <2>1, TailQueue
    <3>2. PICK k \in 1 .. Len(queue') : queue'[k] = queue[j]
      BY <3>1, TailQueue
    <3> QED
      BY <1>3, <3>2 DEF Queued
  <2> QED
    BY <2>1 DEF IsLast
<1> QED
  BY <1>1, <1>2, <1>3
-----------------------------------------------------------------------------
LEMMA SeenPreserved ==
  ASSUME TypeOK, HandOK, SeenInv, [Next]_vars
  PROVE  SeenInv'
<1> USE DEF rtcVars, busVars
<1>1. CASE RecvCamera
  <2>1. /\ queue # <<>> /\ queue' = Tail(queue) /\ UNCHANGED <<registry, seen>>
        /\ camera' = Head(queue).id \/ camera' = camera
    BY <1>1 DEF RecvCamera, TakeEvent, HandleEvent
  <2>2. Head(queue) = queue[1] /\ 1 \in 1 .. Len(queue)
    BY <2>1, HeadFacts, TailQueue
  <2>3. \A i \in 1 .. Len(queue') : queue'[i].id \in seen
    BY <2>1, TailQueue DEF SeenInv
  <2>4. camera' # NoCamera => camera' \in seen
    BY <2>1, <2>2 DEF SeenInv
  <2> QED
    BY <2>1, <2>3, <2>4 DEF SeenInv
<1>2. ASSUME NEW c \in Cameras,
             RemoveCamera(c) \/ \E u \in UrisOf[c] : AddCamera(c, u)
      PROVE  SeenInv'
  <2>1. PICK e \in Event, w \in Uris \cup {Gone} :
          /\ e.id = c /\ Broadcast(e)
          /\ registry' = [registry EXCEPT ![c] = w]
          /\ seen' = seen \cup {c}
          /\ UNCHANGED camera
    BY <1>2, RegistryStep
  <2>2. \A i \in 1 .. Len(queue') : queue'[i].id \in seen'
    <3>1. \A i \in 1 .. Len(queue') :
            queue'[i] = e \/ \E j \in 1 .. Len(queue) : queue'[i] = queue[j]
      BY <2>1, BroadcastQueue
    <3> QED
      BY <2>1, <3>1 DEF SeenInv
  <2>3. \A d \in Cameras : registry'[d] # Gone => d \in seen'
    BY <2>1 DEF SeenInv, TypeOK
  <2> QED
    BY <2>1, <2>2, <2>3 DEF SeenInv
<1>3. CASE Call
  <2>1. UNCHANGED <<registry, queue, seen>> /\ camera' \in {camera, NoCamera}
    BY <1>3, CallOutcome DEF Call, QueryMatches, QueryDiffers, QueryAbsent,
                             QueryUnknown, Replace, Add, Remove
  <2> QED
    BY <2>1 DEF SeenInv
<1>4. CASE StartUp \/ RecvLagged \/ Exit \/ Respawn \/ UNCHANGED vars
  <2>1. UNCHANGED <<registry, queue, seen, camera>>
    BY <1>4 DEF StartUp, SpawnLocal, ProbeOk, ProbeFails, ProbeHangs, HungProbeEnds,
                RecvLagged, Exit, Respawn, vars
  <2> QED
    BY <2>1 DEF SeenInv
<1> QED
  BY <1>1, <1>2, <1>3, <1>4 DEF Next, Manager, StartUp, Call

(* The registry changes: the camera is pending, by its last event. *)
LEMMA RegistrySync ==
  ASSUME TypeOK, HandOK, SeenInv, SyncInv, NEW c \in Cameras,
         RemoveCamera(c) \/ \E u \in UrisOf[c] : AddCamera(c, u), ~faulty'
  PROVE  SyncInv'
<1>1. PICK e \in Event, w \in Uris \cup {Gone} :
        /\ e.id = c /\ Broadcast(e)
        /\ e.kind = "added" => w = e.url
        /\ e.kind = "removed" => w = Gone
        /\ registry' = [registry EXCEPT ![c] = w]
        /\ seen' = seen \cup {c}
        /\ UNCHANGED <<streams, pc, camera, url>>
  BY RegistryStep DEF rtcVars
<1>2. /\ Len(queue) \in Nat /\ Len(queue') = Len(queue) + 1
      /\ queue'[Len(queue) + 1] = e
      /\ \A i \in 1 .. Len(queue) : queue'[i] = queue[i]
  BY <1>1, BroadcastQueue, QueueFacts
<1>3. \A d \in Cameras : d # c => registry'[d] = registry[d]
  BY <1>1 DEF TypeOK
<1>4. registry'[c] = w
  BY <1>1 DEF TypeOK
<1>5. \A d : Queued(d) => Queued(d)'
  <2>1. \A i \in 1 .. Len(queue) : i \in 1 .. Len(queue')
    BY <1>2
  <2> QED
    BY <1>2, <2>1 DEF Queued
<1>6. Queued(c)'
  <2>1. Len(queue) + 1 \in 1 .. Len(queue')
    BY <1>2
  <2> QED
    BY <1>1, <1>2, <2>1 DEF Queued
<1>7. QueueInv'
  <2>1. ASSUME NEW i \in 1 .. Len(queue'), IsLast(i)'
        PROVE  /\ queue'[i].kind = "added"   => registry'[queue'[i].id] = queue'[i].url
               /\ queue'[i].kind = "removed" => registry'[queue'[i].id] = Gone
    <3>1. CASE i = Len(queue) + 1
      BY <1>1, <1>2, <1>4, <3>1
    <3>2. CASE i # Len(queue) + 1
      <4>1. i \in 1 .. Len(queue) /\ queue'[i] = queue[i]
        BY <1>2, <3>2
      <4>2. queue[i].id # c
        <5>1. Len(queue) + 1 \in 1 .. Len(queue') /\ Len(queue) + 1 > i
          BY <1>2, <4>1
        <5> QED
          BY <1>1, <1>2, <2>1, <4>1, <5>1 DEF IsLast
      <4>3. IsLast(i)
        <5>1. \A j \in 1 .. Len(queue) : j \in 1 .. Len(queue')
          BY <1>2
        <5> QED
          BY <1>2, <2>1, <4>1, <5>1 DEF IsLast
      <4>4. queue[i].id \in Cameras
        BY <4>1, QueueFacts DEF Event
      <4>5. registry'[queue[i].id] = registry[queue[i].id]
        BY <1>3, <4>2, <4>4
      <4> QED
        BY <4>1, <4>3, <4>5 DEF SyncInv, QueueInv
    <3> QED
      BY <3>1, <3>2
  <2> QED
    BY <2>1 DEF QueueInv
<1>8. HandInv'
  <2> SUFFICES ASSUME pc \in Calls, ~Queued(camera)'
               PROVE  /\ pc = "remove" => registry'[camera] = Gone
                      /\ pc # "remove" => registry'[camera] = url
    BY <1>1 DEF HandInv
  <2>1. ~Queued(camera) /\ camera # c
    <3>1. camera' = camera
      BY <1>1
    <3>2. \A d : d = camera' => ~Queued(d)'
      BY DEF Queued
    <3> QED
      BY <1>5, <1>6, <3>1, <3>2
  <2>2. camera \in Cameras
    BY NameFacts DEF HandOK
  <2> QED
    BY <1>3, <2>1, <2>2 DEF SyncInv, HandInv
<1>9. AddInv'
  BY <1>1 DEF SyncInv, AddInv, Name
<1>10. \A d : Pending(d) => Pending(d)'
  BY <1>1, <1>5 DEF Pending
<1>11. Pending(c)'
  BY <1>6 DEF Pending
<1>12. AloneInv'
  <2>1. ASSUME NEW d \in seen', AloneOnName(d)
        PROVE  Pending(d)' \/ registry'[d] = NoUrl \/ streams'[StreamName[d]] = registry'[d]
    <3>1. CASE d = c
      BY <1>11, <3>1
    <3>2. CASE d # c
      <4>1. d \in seen /\ d \in Cameras
        BY <1>1, <3>2 DEF TypeOK
      <4> QED
        BY <1>1, <1>3, <1>10, <2>1, <3>2, <4>1 DEF SyncInv, AloneInv
    <3> QED
      BY <3>1, <3>2
  <2>2. \A d : AloneOnName(d)' <=> AloneOnName(d)
    BY DEF AloneOnName, Namesakes
  <2> QED
    BY <2>1, <2>2 DEF AloneInv
<1>13. NameInv'
  <2>1. ASSUME NEW n \in Names
        PROVE  \/ Namesakes(n) \cap seen' = {}
               \/ streams'[n] = Gone
               \/ \E d \in Namesakes(n) \cap seen' :
                    Pending(d)' \/ registry'[d] = NoUrl \/ registry'[d] = streams'[n]
    <3>1. CASE c \in Namesakes(n)
      BY <1>1, <1>11, <3>1
    <3>2. CASE c \notin Namesakes(n)
      <4>1. Namesakes(n) \cap seen' = Namesakes(n) \cap seen
        BY <1>1, <3>2
      <4>2. ASSUME NEW d \in Namesakes(n) \cap seen,
                   Pending(d) \/ registry[d] = NoUrl \/ registry[d] = streams[n]
            PROVE  Pending(d)' \/ registry'[d] = NoUrl \/ registry'[d] = streams'[n]
        <5>1. d \in Cameras /\ d # c
          BY <3>2 DEF Namesakes
        <5> QED
          BY <1>1, <1>3, <1>10, <4>2, <5>1
      <4> QED
        BY <1>1, <4>1, <4>2 DEF SyncInv, NameInv
    <3> QED
      BY <3>1, <3>2
  <2> QED
    BY <2>1 DEF NameInv, Namesakes
<1> QED
  BY <1>7, <1>8, <1>9, <1>12, <1>13 DEF SyncInv

(* An event is taken: its camera is in hand, or it has no URL. *)
LEMMA TakeSync ==
  ASSUME TypeOK, HandOK, SeenInv, SyncInv, RecvCamera
  PROVE  SyncInv'
<1>1. /\ queue # <<>> /\ queue' = Tail(queue) /\ pc = "recv"
      /\ UNCHANGED <<registry, seen, streams>>
  BY DEF RecvCamera, TakeEvent, rtcVars
<1>2. PICK e \in Event : e = queue[1] /\ e = Head(queue)
  BY <1>1, HeadFacts
<1>3. \/ e.kind = "removed" /\ pc' = "remove" /\ camera' = e.id /\ url' = e.url
      \/ e.kind = "added" /\ pc' = "query" /\ camera' = e.id /\ url' = e.url
      \/ e.kind = "added" /\ e.url = NoUrl /\ UNCHANGED <<pc, camera, url>>
  BY <1>2 DEF RecvCamera, HandleEvent, Event
<1>4. camera = NoCamera
  BY <1>1 DEF HandOK, Calls
<1>5. Len(queue) \in Nat \ {0} /\ 1 \in 1 .. Len(queue)
  BY <1>1, TailQueue
(* What the registry says of the camera, unless it is queued once more. *)
<1>6. ~Queued(e.id)' =>
        /\ e.kind = "added"   => registry[e.id] = e.url
        /\ e.kind = "removed" => registry[e.id] = Gone
  <2>1. ASSUME ~Queued(e.id)' PROVE IsLast(1)
    BY <1>1, <1>2, <2>1, TailQueued
  <2> QED
    BY <1>2, <1>5, <2>1 DEF SyncInv, QueueInv
<1>7. QueueInv'
  <2>1. ASSUME NEW i \in 1 .. Len(queue'), IsLast(i)'
        PROVE  /\ queue'[i].kind = "added"   => registry[queue'[i].id] = queue'[i].url
               /\ queue'[i].kind = "removed" => registry[queue'[i].id] = Gone
    <3>1. i + 1 \in 1 .. Len(queue) /\ queue'[i] = queue[i + 1]
      BY <1>1, TailQueue
    <3>2. ASSUME NEW j \in 1 .. Len(queue), j > i + 1
          PROVE  queue[j].id # queue[i + 1].id
      <4>1. j \in 2 .. Len(queue) /\ j - 1 > i
        BY <3>2
      <4>2. j - 1 \in 1 .. Len(queue') /\ queue'[j - 1] = queue[j]
        BY <1>1, <4>1, TailQueue
      <4> QED
        BY <2>1, <3>1, <4>1, <4>2 DEF IsLast
    <3>3. IsLast(i + 1)
      BY <3>2 DEF IsLast
    <3> QED
      BY <3>1, <3>3 DEF SyncInv, QueueInv
  <2> QED
    BY <1>1, <2>1 DEF QueueInv
<1>8. HandInv'
  <2>1. CASE UNCHANGED <<pc, camera, url>>
    BY <1>1, <2>1 DEF HandInv, Calls
  <2>2. CASE camera' = e.id /\ url' = e.url
    <3>1. ASSUME ~Queued(camera)'
          PROVE  ~Queued(e.id)'
      BY <2>2, <3>1 DEF Queued
    <3> QED
      BY <1>1, <1>3, <1>6, <2>2, <3>1 DEF HandInv, Calls, Event
  <2> QED
    BY <1>3, <2>1, <2>2
<1>9. AddInv'
  BY <1>1, <1>3 DEF AddInv
<1>10. \A d \in Cameras : Pending(d) => Pending(d)' \/ d = e.id
  BY <1>1, <1>2, <1>4, TailQueued DEF Pending
<1>11. Pending(e.id)' \/ registry[e.id] = NoUrl
  <2>1. CASE camera' = e.id
    BY <2>1 DEF Pending
  <2>2. CASE camera' # e.id
    BY <1>3, <1>6, <2>2 DEF Pending
  <2> QED
    BY <2>1, <2>2
<1>12. AloneInv'
  <2>1. ASSUME NEW d \in seen, AloneOnName(d)
        PROVE  Pending(d)' \/ registry[d] = NoUrl \/ streams[StreamName[d]] = registry[d]
    BY <1>10, <1>11, <2>1 DEF SyncInv, AloneInv, TypeOK
  <2> QED
    BY <1>1, <2>1 DEF AloneInv, AloneOnName, Namesakes
<1>13. NameInv'
  <2>1. ASSUME NEW n \in Names, NEW d \in Namesakes(n) \cap seen,
               Pending(d) \/ registry[d] = NoUrl \/ registry[d] = streams[n]
        PROVE  Pending(d)' \/ registry[d] = NoUrl \/ registry[d] = streams[n]
    BY <1>10, <1>11, <2>1 DEF Namesakes
  <2> QED
    BY <1>1, <2>1 DEF SyncInv, NameInv, Namesakes
<1> QED
  BY <1>7, <1>8, <1>9, <1>12, <1>13 DEF SyncInv

(* A call that does not fail, by what it does to the stream. *)
LEMMA GoodCalls ==
  ASSUME TypeOK, HandOK, SyncInv, Call, ~faulty'
  PROVE  /\ pc \in Calls /\ UNCHANGED <<registry, queue, seen>>
         /\ \/ /\ pc' = "recv" /\ camera' = NoCamera
               /\ streams' = [streams EXCEPT ![Name] =
                                IF pc = "remove" THEN Gone ELSE url]
            \/ /\ pc # "remove" /\ pc' # "remove" /\ pc' \in Calls
               /\ UNCHANGED <<camera, url>>
               /\ streams' = streams \/ streams' = Deleted
               /\ pc' = "add" => streams'[Name] = Gone
<1>0. Name \in Names /\ streams \in [Names -> Urls \cup {Gone}] /\ pc \in Calls
  <2>1. pc \in Calls
    BY DEF Call, QueryMatches, QueryDiffers, QueryAbsent, QueryUnknown,
           Replace, Add, Remove, Calls
  <2> QED
    BY <2>1, NameFacts DEF HandOK, TypeOK
<1>1. \A next : ~CallFails(next)
  BY DEF CallFails
<1>2. CASE QueryMatches
  <2>1. pc = "query" /\ streams[Name] = url /\ CallAnswered("recv") /\ UNCHANGED streams
    BY <1>2 DEF QueryMatches
  <2>2. streams' = [streams EXCEPT ![Name] = url]
    BY <1>0, <2>1
  <2> QED
    BY <1>0, <2>1, <2>2, CallOutcome
<1>3. CASE QueryDiffers
  <2>1. pc = "query" /\ CallAnswered("replace") /\ streams' = streams
    BY <1>3 DEF QueryDiffers
  <2>2. pc' = "replace" /\ UNCHANGED <<registry, queue, seen, camera, url>>
    BY <2>1 DEF CallAnswered, Goto, busVars
  <2> QED
    BY <1>0, <2>1, <2>2 DEF Calls
<1>4. CASE QueryAbsent
  <2>1. pc = "query" /\ CallAnswered("add") /\ streams' = streams /\ streams[Name] = Gone
    BY <1>4 DEF QueryAbsent
  <2>2. pc' = "add" /\ UNCHANGED <<registry, queue, seen, camera, url>>
    BY <2>1 DEF CallAnswered, Goto, busVars
  <2> QED
    BY <1>0, <2>1, <2>2 DEF Calls
<1>5. CASE QueryUnknown
  BY <1>1, <1>5 DEF QueryUnknown
<1>6. CASE Replace
  <2>1. pc = "replace" /\ CallAnswered("add") /\ streams' = Deleted
    BY <1>1, <1>6 DEF Replace
  <2>2. streams'[Name] = Gone
    BY <1>0, <2>1 DEF Deleted
  <2>3. pc' = "add" /\ UNCHANGED <<registry, queue, seen, camera, url>>
    BY <2>1 DEF CallAnswered, Goto, busVars
  <2> QED
    BY <1>0, <2>1, <2>2, <2>3 DEF Calls
<1>7. CASE Add
  <2>1. pc = "add" /\ CallAnswered("recv") /\ streams' = Inserted
    BY <1>1, <1>7 DEF Add
  <2>2. streams' = [streams EXCEPT ![Name] = url]
    BY <2>1 DEF Inserted, SyncInv, AddInv
  <2> QED
    BY <1>0, <2>1, <2>2, CallOutcome
<1>8. CASE Remove
  <2>1. pc = "remove" /\ CallAnswered("recv") /\ streams' = Deleted
    BY <1>1, <1>8 DEF Remove
  <2> QED
    BY <1>0, <2>1, CallOutcome DEF Deleted
<1> QED
  BY <1>2, <1>3, <1>4, <1>5, <1>6, <1>7, <1>8 DEF Call

LEMMA CallSync ==
  ASSUME TypeOK, HandOK, SeenInv, SyncInv, Call, ~faulty'
  PROVE  SyncInv'
<1>1. /\ pc \in Calls /\ UNCHANGED <<registry, queue, seen>>
      /\ \/ /\ pc' = "recv" /\ camera' = NoCamera
            /\ streams' = [streams EXCEPT ![Name] =
                             IF pc = "remove" THEN Gone ELSE url]
         \/ /\ pc # "remove" /\ pc' # "remove" /\ pc' \in Calls
            /\ UNCHANGED <<camera, url>>
            /\ streams' = streams \/ streams' = Deleted
            /\ pc' = "add" => streams'[Name] = Gone
  BY GoodCalls
<1>2. /\ camera \in Cameras /\ camera \in seen /\ Name \in Names
      /\ Name = StreamName[camera] /\ streams \in [Names -> Urls \cup {Gone}]
  BY <1>1, NameFacts DEF HandOK, SeenInv, TypeOK, Name
<1>3. /\ \A d : Queued(d)' <=> Queued(d)
      /\ QueueInv'
  BY <1>1 DEF SyncInv, Queued, QueueInv, IsLast
<1>4. \A n \in Names : n # Name => streams'[n] = streams[n]
  BY <1>1, <1>2 DEF Deleted
<1>5. \A d \in Cameras : AloneOnName(d) /\ d # camera => StreamName[d] # Name
  BY <1>2 DEF AloneOnName, Namesakes
<1>6. CASE /\ pc' = "recv" /\ camera' = NoCamera
           /\ streams' = [streams EXCEPT ![Name] = IF pc = "remove" THEN Gone ELSE url]
  <2>1. HandInv' /\ AddInv'
    BY <1>6 DEF HandInv, AddInv, Calls
  <2>2. ~Queued(camera) => streams'[Name] = registry[camera]
    BY <1>1, <1>2, <1>6 DEF SyncInv, HandInv
  <2>3. \A d \in Cameras : d # camera => (Pending(d) => Pending(d)')
    BY <1>3 DEF Pending
  <2>4. \A d : Queued(d) => Pending(d)'
    BY <1>3 DEF Pending
  <2>5. AloneInv'
    <3>1. ASSUME NEW d \in seen, AloneOnName(d)
          PROVE  Pending(d)' \/ registry[d] = NoUrl \/ streams'[StreamName[d]] = registry[d]
      <4>1. CASE d = camera
        BY <1>2, <2>2, <2>4, <4>1
      <4>2. CASE d # camera
        <5>1. d \in Cameras /\ StreamName[d] \in Names /\ StreamName[d] # Name
          BY <1>5, <3>1, <4>2 DEF TypeOK
        <5>2. streams'[StreamName[d]] = streams[StreamName[d]]
          BY <1>4, <5>1
        <5> QED
          BY <2>3, <3>1, <4>2, <5>1, <5>2 DEF SyncInv, AloneInv
      <4> QED
        BY <4>1, <4>2
    <3> QED
      BY <1>1, <3>1 DEF AloneInv, AloneOnName, Namesakes
  <2>6. NameInv'
    <3>1. ASSUME NEW n \in Names
          PROVE  \/ Namesakes(n) \cap seen = {}
                 \/ streams'[n] = Gone
                 \/ \E d \in Namesakes(n) \cap seen :
                      Pending(d)' \/ registry[d] = NoUrl \/ registry[d] = streams'[n]
      <4>1. CASE n = Name
        <5>1. camera \in Namesakes(n) \cap seen
          BY <1>2, <4>1 DEF Namesakes
        <5> QED
          BY <2>2, <2>4, <4>1, <5>1
      <4>2. CASE n # Name
        <5>1. ASSUME NEW d \in Namesakes(n) \cap seen,
                     Pending(d) \/ registry[d] = NoUrl \/ registry[d] = streams[n]
              PROVE  Pending(d)' \/ registry[d] = NoUrl \/ registry[d] = streams'[n]
          <6>1. d \in Cameras /\ d # camera
            BY <1>2, <4>2 DEF Namesakes
          <6> QED
            BY <1>4, <2>3, <4>2, <5>1, <6>1
        <5>2. streams'[n] = streams[n]
          BY <1>4, <4>2
        <5> QED
          BY <5>1, <5>2 DEF SyncInv, NameInv
      <4> QED
        BY <4>1, <4>2
    <3> QED
      BY <1>1, <3>1 DEF NameInv, Namesakes
  <2> QED
    BY <1>3, <2>1, <2>5, <2>6 DEF SyncInv
<1>7. CASE /\ pc # "remove" /\ pc' # "remove" /\ pc' \in Calls
           /\ UNCHANGED <<camera, url>>
           /\ streams' = streams \/ streams' = Deleted
           /\ pc' = "add" => streams'[Name] = Gone
  <2>1. \A d : Pending(d)' <=> Pending(d)
    BY <1>3, <1>7 DEF Pending
  <2>2. HandInv'
    <3>1. Queued(camera)' <=> Queued(camera)
      BY <1>1, <1>7 DEF Queued
    <3> QED
      BY <1>1, <1>7, <3>1 DEF SyncInv, HandInv
  <2>3. AddInv'
    BY <1>7 DEF AddInv, Name
  <2>4. AloneInv'
    <3>1. ASSUME NEW d \in seen, AloneOnName(d)
          PROVE  Pending(d)' \/ registry[d] = NoUrl \/ streams'[StreamName[d]] = registry[d]
      <4>1. CASE d = camera
        BY <2>1, <4>1 DEF Pending
      <4>2. CASE d # camera
        <5>1. d \in Cameras /\ StreamName[d] \in Names /\ StreamName[d] # Name
          BY <1>5, <3>1, <4>2 DEF TypeOK
        <5>2. streams'[StreamName[d]] = streams[StreamName[d]]
          BY <1>4, <5>1
        <5> QED
          BY <2>1, <3>1, <5>2 DEF SyncInv, AloneInv
      <4> QED
        BY <4>1, <4>2
    <3> QED
      BY <1>1, <3>1 DEF AloneInv, AloneOnName, Namesakes
  <2>5. NameInv'
    <3>1. ASSUME NEW n \in Names
          PROVE  \/ Namesakes(n) \cap seen = {}
                 \/ streams'[n] = Gone
                 \/ \E d \in Namesakes(n) \cap seen :
                      Pending(d)' \/ registry[d] = NoUrl \/ registry[d] = streams'[n]
      <4>1. CASE n = Name
        <5>1. camera \in Namesakes(n) \cap seen /\ Pending(camera)
          BY <1>2, <4>1 DEF Namesakes, Pending
        <5> QED
          BY <2>1, <5>1
      <4>2. CASE n # Name
        BY <1>4, <2>1, <4>2 DEF SyncInv, NameInv
      <4> QED
        BY <4>1, <4>2
    <3> QED
      BY <1>1, <3>1 DEF NameInv, Namesakes
  <2> QED
    BY <1>3, <2>2, <2>3, <2>4, <2>5 DEF SyncInv
<1> QED
  BY <1>1, <1>6, <1>7

LEMMA NextStreamInv ==
  ASSUME TypeOK, HandOK, StreamInv, [Next]_vars
  PROVE  StreamInv'
<1>1. SeenInv'
  BY SeenPreserved DEF StreamInv
<1>2. ASSUME ~faulty' PROVE ~faulty
  <2>1. CASE Call
    BY <1>2, <2>1, CallOutcome DEF Call, QueryMatches, QueryDiffers, QueryAbsent,
       QueryUnknown, Replace, Add, Remove, TypeOK
  <2>2. CASE RecvCamera
    BY <1>2, <2>2 DEF RecvCamera, TakeEvent
  <2>3. CASE StartUp \/ RecvLagged \/ Respawn \/ UNCHANGED vars
    BY <1>2, <2>3 DEF StartUp, SpawnLocal, ProbeOk, ProbeFails, ProbeHangs,
                      HungProbeEnds, RecvLagged, Respawn, vars
  <2>4. CASE Exit
    BY <1>2, <2>4 DEF Exit
  <2>5. ASSUME NEW c \in Cameras,
               RemoveCamera(c) \/ \E u \in UrisOf[c] : AddCamera(c, u)
        PROVE  ~faulty
    BY <1>2, <2>5, RegistryStep, BroadcastQueue DEF StreamInv
  <2> QED
    BY <2>1, <2>2, <2>3, <2>4, <2>5 DEF Next, Manager, StartUp, Call
<1>3. ASSUME ~faulty' PROVE SyncInv'
  <2>0. SeenInv /\ SyncInv
    BY <1>2, <1>3 DEF StreamInv
  <2>1. CASE Call
    BY <1>3, <2>0, <2>1, CallSync
  <2>2. CASE RecvCamera
    BY <2>0, <2>2, TakeSync
  <2>3. CASE StartUp \/ RecvLagged \/ Respawn \/ UNCHANGED vars
    <3>1. /\ UNCHANGED <<registry, queue, seen, streams, camera, url>>
          /\ pc' = pc \/ pc' \notin Calls
      BY <2>3 DEF StartUp, SpawnLocal, ProbeOk, ProbeFails, ProbeHangs,
                  HungProbeEnds, RecvLagged, Respawn, vars, rtcVars, busVars, Calls
    <3>2. \A d : Pending(d)' <=> Pending(d)
      BY <3>1 DEF Pending, Queued
    <3>3. QueueInv'
      BY <2>0, <3>1 DEF SyncInv, QueueInv, IsLast
    <3>4. HandInv' /\ AddInv'
      BY <2>0, <3>1 DEF SyncInv, HandInv, AddInv, Calls, Name, Queued
    <3>5. AloneInv'
      BY <2>0, <3>1, <3>2 DEF SyncInv, AloneInv, AloneOnName, Namesakes
    <3>6. NameInv'
      BY <2>0, <3>1, <3>2 DEF SyncInv, NameInv, Namesakes
    <3> QED
      BY <3>3, <3>4, <3>5, <3>6 DEF SyncInv
  <2>4. CASE Exit
    BY <1>3, <2>4 DEF Exit
  <2>5. ASSUME NEW c \in Cameras,
               RemoveCamera(c) \/ \E u \in UrisOf[c] : AddCamera(c, u)
        PROVE  SyncInv'
    BY <1>3, <2>0, <2>5, RegistrySync
  <2> QED
    BY <2>1, <2>2, <2>3, <2>4, <2>5 DEF Next, Manager, StartUp, Call
<1> QED
  BY <1>1, <1>3 DEF StreamInv

LEMMA StreamInvHolds == Spec => [](TypeOK /\ HandOK /\ StreamInv)
<1>1. TypeOK /\ HandOK /\ StreamInv /\ [Next]_vars => StreamInv'
  BY NextStreamInv
<1> QED
  BY <1>1, TypesHold, InitStreamInv, PTL DEF Spec

(* Nothing is pending when the stream manager is idle. *)
LEMMA NothingPending ==
  ASSUME TypeOK, HandOK, Idle, NEW c \in Cameras
  PROVE  ~Pending(c)
BY DEF TypeOK, HandOK, Idle, Calls, Pending, Queued

(***************************************************************************)
(* stream_manager.rs:22-110, for any number of cameras and names: if no    *)
(* call failed, go2rtc did not restart and no event was overwritten, an    *)
(* idle stream manager leaves go2rtc with exactly the URL the registry has *)
(* for each camera that has its name to itself.                            *)
(***************************************************************************)
THEOREM IdleIsSynced == Spec => []SyncedIfNothingFailed
<1>1. TypeOK /\ HandOK /\ StreamInv => SyncedIfNothingFailed
  <2> SUFFICES ASSUME TypeOK, HandOK, StreamInv, Idle, ~faulty,
                      NEW c \in seen, AloneOnName(c), registry[c] # NoUrl
               PROVE  streams[StreamName[c]] = registry[c]
    BY DEF SyncedIfNothingFailed
  <2>1. c \in Cameras
    BY DEF TypeOK
  <2> QED
    BY <2>1, NothingPending DEF StreamInv, SyncInv, AloneInv
<1> QED
  BY <1>1, StreamInvHolds, PTL

(***************************************************************************)
(* stream_manager.rs:22-110 with sanitize_stream_name: under the same      *)
(* conditions a name several cameras share serves none of them or one that *)
(* is in the registry now, with its URL of now.                            *)
(***************************************************************************)
THEOREM NoNameServesTheGone == Spec => []NoStreamOfTheRemoved
<1>1. TypeOK /\ HandOK /\ StreamInv => NoStreamOfTheRemoved
  <2> SUFFICES ASSUME TypeOK, HandOK, StreamInv, Idle, ~faulty, NEW n \in Names,
                      Current(n) # {}, NoUrl \notin Current(n)
               PROVE  streams[n] \in Current(n) \cup {Gone}
    BY DEF NoStreamOfTheRemoved
  <2>1. Namesakes(n) \cap seen # {}
    BY DEF Current
  <2>2. ASSUME NEW c \in Namesakes(n) \cap seen
        PROVE  ~Pending(c) /\ registry[c] # NoUrl /\ registry[c] \in Current(n)
    BY <2>2, NothingPending DEF Namesakes, Current
  <2> QED
    BY <2>1, <2>2 DEF StreamInv, SyncInv, NameInv
<1> QED
  BY <1>1, StreamInvHolds, PTL
=============================================================================
