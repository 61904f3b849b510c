--------------------------- MODULE StreamManager ---------------------------
(***************************************************************************)
(* The stream manager (crates/media/src/stream_manager.rs) keeps go2rtc's  *)
(* streams in step with the registry, through HTTP calls                   *)
(* (crates/media/src/go2rtc_api.rs) that fail while go2rtc is down or      *)
(* being restarted by its supervisor (crates/media/src/go2rtc_manager.rs). *)
(*                                                                         *)
(* Every call is an await: the registry changes and go2rtc dies and comes  *)
(* back between the calls for one event.  A failed call may have taken     *)
(* effect or not.  Calls have no timeout.  The probe of the start-up, with *)
(* which all else waits, may hang in FairSpec too; a later call that hangs *)
(* is a behaviour that stops: safety covers it, FairSpec leaves it out.    *)
(***************************************************************************)
EXTENDS CameraIds, Integers, Sequences

CONSTANTS Urls,         \* RTSP URLs with the credentials injected
          NoUrl,        \* the empty stream_uri
          UrisOf,       \* the stream_uri values each camera may have
          Gone,         \* not in the registry, or no such stream
          NoCamera,     \* no event in hand
          Names,        \* go2rtc stream names
          StreamName,   \* sanitize_stream_name: may map two ids to one name
          RegistryCap,  \* capacity of the broadcast channel
          ProbeLimit    \* probes that fit into the limit of wait_for_ready

ASSUME StreamsAssumption ==
  /\ NoUrl \notin Urls /\ Gone \notin Urls \cup {NoUrl}
  /\ NoCamera \notin Cameras
  /\ StreamName \in [Cameras -> Names]
  /\ UrisOf \in [Cameras -> SUBSET (Urls \cup {NoUrl})]
  /\ RegistryCap \in Nat \ {0}
  /\ ProbeLimit \in Nat

VARIABLES
  registry,  \* the stream_uri of each camera in the registry, or Gone
  queue,     \* what the broadcast channel holds for the stream manager
  lagged,    \* its next recv() returns Err(Lagged)
  go2rtc,    \* external: "up" or "down"
  streams,   \* external: the URL registered under each name, or Gone
  keeper,    \* something restarts go2rtc: our supervisor, or its container
  probes,    \* probes of wait_for_ready that failed
  pc,        \* "spawn", "probe", "hung", "recv", "query", "replace", "add", "remove"
  camera,    \* the camera of the event in hand, or NoCamera
  url,       \* and its URL
  seen,      \* history: cameras that have been in the registry
  faulty     \* history: an event, a stream or a call was lost

rtcVars == <<go2rtc, streams, keeper>>
busVars == <<registry, queue, lagged, seen>>
vars    == <<busVars, rtcVars, probes, pc, camera, url, faulty>>

Uris == Urls \cup {NoUrl}

(* start() is still awaited: stream manager and bridge loop do not run yet. *)
Starting == pc \in {"spawn", "probe", "hung"}

(***************************************************************************)
(* Two ids that differ in punctuation only have one stream name, and each  *)
(* registration replaces the other's (stream_manager.rs:111).              *)
(***************************************************************************)
Namesakes(n)   == {c \in Cameras : StreamName[c] = n}
AloneOnName(c) == Namesakes(StreamName[c]) = {c}

(***************************************************************************)
(* Local mode starts at "spawn", external mode at "probe".  Either way a   *)
(* go2rtc may be there that holds streams of an earlier bridge.            *)
(***************************************************************************)
Init ==
  /\ registry = [c \in Cameras |-> Gone]
  /\ queue = <<>> /\ lagged = FALSE
  /\ go2rtc \in {"up", "down"}
  /\ streams \in [Names -> Urls \cup {Gone}]
  /\ \A n \in Names : streams[n] \in {Gone} \cup UNION {UrisOf[c] : c \in Namesakes(n)}
  /\ pc \in {"spawn", "probe"}
  /\ keeper = (pc = "probe")
  /\ probes = 0
  /\ camera = NoCamera /\ url = NoUrl
  /\ seen = {} /\ faulty = FALSE
-----------------------------------------------------------------------------
(***************************************************************************)
(* The registry, as the bridge loop writes it once go2rtc was waited for.  *)
(***************************************************************************)
Broadcast(e) ==
  IF Len(queue) < RegistryCap
    THEN queue' = Append(queue, e) /\ UNCHANGED <<lagged, faulty>>
    ELSE /\ queue' = Append(Tail(queue), e)
         /\ lagged' = TRUE
         /\ faulty' = TRUE

AddCamera(c, u) ==
  /\ ~Starting
  /\ registry' = [registry EXCEPT ![c] = u]
  /\ seen' = seen \cup {c}
  /\ Broadcast([kind |-> "added", id |-> c, url |-> u])
  /\ UNCHANGED <<rtcVars, probes, pc, camera, url>>

RemoveCamera(c) ==
  /\ registry[c] # Gone
  /\ registry' = [registry EXCEPT ![c] = Gone]
  /\ Broadcast([kind |-> "removed", id |-> c, url |-> NoUrl])
  /\ UNCHANGED <<rtcVars, probes, pc, camera, url, seen>>
-----------------------------------------------------------------------------
(***************************************************************************)
(* go2rtc under its supervisor: it exits, losing what was registered with  *)
(* it (the configuration says streams: {}), and is spawned again, which    *)
(* may fail any number of times.                                           *)
(***************************************************************************)
Exit ==
  /\ go2rtc = "up"
  /\ go2rtc' = "down"
  /\ streams' = [n \in Names |-> Gone]
  /\ faulty' = TRUE
  /\ UNCHANGED <<busVars, keeper, probes, pc, camera, url>>

Respawn ==
  /\ go2rtc = "down" /\ keeper
  /\ go2rtc' = "up"
  /\ UNCHANGED <<busVars, streams, keeper, probes, pc, camera, url, faulty>>

(***************************************************************************)
(* start().  In local mode the configuration file is written first: if     *)
(* that fails no supervisor is started and nothing is waited for.  An      *)
(* error of start() is logged, and the bridge goes on without go2rtc.      *)
(***************************************************************************)
SpawnLocal ==
  /\ pc = "spawn"
  /\ \/ pc' = "probe" /\ keeper' = TRUE
     \/ pc' = "recv" /\ UNCHANGED keeper
  /\ UNCHANGED <<busVars, go2rtc, streams, probes, camera, url, faulty>>

ProbeOk ==
  /\ pc = "probe" /\ go2rtc = "up"
  /\ pc' = "recv"
  /\ probes' = 0
  /\ UNCHANGED <<busVars, rtcVars, camera, url, faulty>>

ProbeFailsForever ==
  /\ pc = "probe"
  /\ probes' = 0
  /\ UNCHANGED <<busVars, rtcVars, pc, camera, url, faulty>>

ProbeFails ==
  /\ pc = "probe"
  /\ IF probes >= ProbeLimit THEN pc' = "recv" /\ probes' = 0
                             ELSE probes' = probes + 1 /\ UNCHANGED pc
  /\ UNCHANGED <<busVars, rtcVars, camera, url, faulty>>

(***************************************************************************)
(* is_ready sends with a client that has no timeout, and the time limit is *)
(* only looked at between two probes: a go2rtc that takes the request and  *)
(* does not answer holds the start-up.                                     *)
(***************************************************************************)
ProbeHangs ==
  /\ pc = "probe" /\ go2rtc = "up"
  /\ pc' = "hung"
  /\ UNCHANGED <<busVars, rtcVars, probes, camera, url, faulty>>

(* An answer or a reset connection, with any part of the limit used up.    *)
HungProbeEnds ==
  /\ pc = "hung"
  /\ \/ pc' = "recv" /\ probes' = 0
     \/ pc' = "probe" /\ probes' \in (probes + 1) .. ProbeLimit
  /\ UNCHANGED <<busVars, rtcVars, camera, url, faulty>>
-----------------------------------------------------------------------------
(* What the loop holds in hand: kept until it is back at recv(). *)
Goto(next) ==
  /\ pc' = next
  /\ IF next = "recv" THEN camera' = NoCamera /\ url' = NoUrl
                      ELSE UNCHANGED <<camera, url>>

HandleEvent(e, next) ==
  /\ pc' = next
  /\ camera' = e.id
  /\ url' = e.url

TakeEvent ==
  /\ pc = "recv" /\ ~lagged /\ queue # <<>>
  /\ queue' = Tail(queue)
  /\ UNCHANGED <<registry, lagged, seen, rtcVars, probes, faulty>>

RecvCameraWithoutUrl ==
  /\ TakeEvent
  /\ HandleEvent(Head(queue), IF Head(queue).kind = "removed" THEN "remove" ELSE "query")

(* The event loop.  A camera without a stream URL is skipped. *)
RecvCamera ==
  /\ TakeEvent
  /\ LET e == Head(queue) IN
       CASE e.kind = "removed"                -> HandleEvent(e, "remove")
         [] e.kind = "added" /\ e.url # NoUrl -> HandleEvent(e, "query")
         [] OTHER                             -> UNCHANGED <<pc, camera, url>>

RecvLagged ==
  /\ pc = "recv" /\ lagged
  /\ lagged' = FALSE
  /\ UNCHANGED <<registry, queue, seen, rtcVars, probes, pc, camera, url, faulty>>

Name == StreamName[camera]

(***************************************************************************)
(* A call is answered, be it with a refusal, or it fails: always while     *)
(* go2rtc is down, and when it is up and the answer or the call was lost.  *)
(***************************************************************************)
CallFails(next) ==
  /\ Goto(next)
  /\ faulty' = TRUE
  /\ UNCHANGED <<busVars, go2rtc, keeper, probes>>

CallAnswered(next) ==
  /\ go2rtc = "up"
  /\ Goto(next)
  /\ UNCHANGED <<busVars, go2rtc, keeper, probes, faulty>>

Deleted  == [streams EXCEPT ![Name] = Gone]
Inserted == IF streams[Name] = Gone THEN [streams EXCEPT ![Name] = url]
                                    ELSE streams

(* What a failed call that would leave the streams at `after` leaves. *)
LostCall(after) == IF go2rtc = "up" THEN {streams, after} ELSE {streams}

(***************************************************************************)
(* stream_state.  go2rtc may report the URL it holds in another form, so a *)
(* registered stream can always look different.                            *)
(***************************************************************************)
QueryMatches ==
  /\ pc = "query" /\ streams[Name] = url
  /\ CallAnswered("recv")
  /\ UNCHANGED streams

QueryDiffersAddsAnyway ==
  /\ pc = "query" /\ streams[Name] # Gone
  /\ CallAnswered("add")
  /\ UNCHANGED streams

QueryDiffers ==
  /\ pc = "query" /\ streams[Name] # Gone
  /\ CallAnswered("replace")
  /\ UNCHANGED streams

QueryAbsent ==
  /\ pc = "query" /\ streams[Name] = Gone
  /\ CallAnswered("add")
  /\ UNCHANGED streams

QueryUnknown ==
  /\ pc = "query"
  /\ CallFails("add")
  /\ UNCHANGED streams

(* remove_stream before the new registration; an error gives up. *)
Replace ==
  /\ pc = "replace"
  /\ \/ CallAnswered("add") /\ streams' = Deleted
     \/ CallFails("recv") /\ streams' \in LostCall(Deleted)

(***************************************************************************)
(* add_stream: go2rtc refuses a name it already has and keeps its stream.  *)
(* An error is logged, and nothing tries again.                            *)
(***************************************************************************)
Add ==
  /\ pc = "add"
  /\ \/ CallAnswered("recv") /\ streams' = Inserted
     \/ CallFails("recv") /\ streams' \in LostCall(Inserted)

(* remove_stream for a removed camera; 404 is no error. *)
Remove ==
  /\ pc = "remove"
  /\ \/ CallAnswered("recv") /\ streams' = Deleted
     \/ CallFails("recv") /\ streams' \in LostCall(Deleted)
-----------------------------------------------------------------------------
Manager ==
  \/ SpawnLocal \/ ProbeOk \/ ProbeFails
  \/ RecvCamera \/ RecvLagged
  \/ QueryMatches \/ QueryDiffers \/ QueryAbsent \/ QueryUnknown
  \/ Replace \/ Add \/ Remove

Next ==
  \/ Manager
  \/ ProbeHangs \/ HungProbeEnds
  \/ Exit \/ Respawn
  \/ \E c \in Cameras : RemoveCamera(c) \/ \E u \in UrisOf[c] : AddCamera(c, u)

Spec == Init /\ [][Next]_vars

(***************************************************************************)
(* The task runs on, and every call but a probe that hangs returns.        *)
(* go2rtc may stay down.                                                   *)
(***************************************************************************)
FairSpec == Spec /\ WF_vars(Manager)
-----------------------------------------------------------------------------
TypeOK ==
  /\ registry \in [Cameras -> Uris \cup {Gone}]
  /\ queue \in Seq([kind : {"added", "removed"}, id : Cameras, url : Uris])
  /\ Len(queue) <= RegistryCap
  /\ lagged \in BOOLEAN
  /\ go2rtc \in {"up", "down"}
  /\ streams \in [Names -> Urls \cup {Gone}]
  /\ keeper \in BOOLEAN
  /\ probes \in 0 .. ProbeLimit
  /\ pc \in {"spawn", "probe", "hung", "recv", "query", "replace", "add", "remove"}
  /\ camera \in Cameras \cup {NoCamera}
  /\ url \in Uris
  /\ pc \in {"query", "replace", "add"} => url \in Urls
  /\ seen \in SUBSET Cameras
  /\ faulty \in BOOLEAN

Idle == pc = "recv" /\ queue = <<>>

(***************************************************************************)
(* If nothing failed and no event was lost, an idle stream manager leaves  *)
(* go2rtc with exactly the URL the registry has for each camera of this    *)
(* run that has its name to itself, and no stream for one that was         *)
(* removed, whatever an earlier bridge left in go2rtc and however go2rtc   *)
(* spells the URLs it reports.                                             *)
(***************************************************************************)
SyncedIfNothingFailed ==
  Idle /\ ~faulty =>
    \A c \in seen :
      AloneOnName(c) /\ registry[c] # NoUrl => streams[StreamName[c]] = registry[c]

(***************************************************************************)
(* Cameras that share a name take each other's stream away, but no name    *)
(* serves a camera that is gone: a stream is always one the registry has   *)
(* now, unless a namesake came back without a URL and was skipped.         *)
(***************************************************************************)
Current(n) == {registry[c] : c \in Namesakes(n) \cap seen}

NoStreamOfTheRemoved ==
  Idle /\ ~faulty =>
    \A n \in Names :
      Current(n) # {} /\ NoUrl \notin Current(n) =>
        streams[n] \in Current(n) \cup {Gone}

(***************************************************************************)
(* The bridge starts, also when go2rtc stays away, cannot be spawned, or   *)
(* dies and returns between probes - unless one probe is never answered.   *)
(* That is the one thing that can hold it: "until it responds or timeout"  *)
(* (go2rtc_manager.rs:65) is not so of a probe in flight.                  *)
(***************************************************************************)
StartsUnlessProbeHangs == <>~Starting \/ <>[](pc = "hung")

(***************************************************************************)
(* What the registry settles on for a camera reaches go2rtc, unless a call *)
(* failed, go2rtc restarted or an event was overwritten.                   *)
(***************************************************************************)
SyncsUnlessFaulty ==
  \A c \in {d \in Cameras : AloneOnName(d)} :
    \A u \in (UrisOf[c] \cap Urls) \cup {Gone} :
      <>[](c \in seen /\ registry[c] = u)
        => []<>(streams[StreamName[c]] = u) \/ <>faulty

(***************************************************************************)
(* stream_manager.rs:1, "syncs camera registry with go2rtc stream          *)
(* registration": a camera that stays in the registry while go2rtc is up   *)
(* gets its stream.  It does not after one failed call or one restart of   *)
(* go2rtc, for an idle stream manager tries nothing again (violation run). *)
(***************************************************************************)
EventuallySynced ==
  \A c \in Cameras :
    <>[](registry[c] \in Urls /\ go2rtc = "up" /\ Idle)
      => []<>(streams[StreamName[c]] = registry[c])
=============================================================================
