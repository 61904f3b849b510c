----------------------------- MODULE AvStreams -----------------------------
(***************************************************************************)
(* The camera AV stream cluster of one slot: the seed driver of the main   *)
(* thread (crates/bridge/src/main.rs:366-384) pre-allocates the stream the *)
(* bridge loop sent, and controllers allocate, modify and deallocate       *)
(* streams, which BridgeCamAvHooks (hooks.rs:38-72) always accepts.        *)
(*                                                                         *)
(* The cluster handler with its table of MAX_VIDEO streams is external:    *)
(* it takes a stream if there is room.                                     *)
(***************************************************************************)
EXTENDS SlotLife, Sequences, SequencesExt

CONSTANT MaxVideo  \* MAX_VIDEO

ASSUME AvAssumption == MaxVideo \in Nat \ {0}

VARIABLES
  seedQueue,     \* the seed channel: the cameras whose profiles it holds
  preallocated,  \* the cameras the pre-allocated streams were made from
  allocated      \* number of streams allocated by controllers

avVars == <<seedQueue, preallocated, allocated>>

AvInit ==
  /\ seedQueue = <<>>
  /\ preallocated = <<>>
  /\ allocated = 0

HasRoom == Len(preallocated) + allocated < MaxVideo
-----------------------------------------------------------------------------
(* The bridge loop: a step that counts a seed has sent it. *)
SendSeed ==
  /\ seedQueue' = IF seeds' > seeds THEN Append(seedQueue, occupant)
                                    ELSE seedQueue
  /\ UNCHANGED <<preallocated, allocated>>

SeedDriverRequeues ==
  /\ seedQueue # <<>>
  /\ preallocated' = IF HasRoom THEN Append(preallocated, Head(seedQueue))
                                ELSE preallocated
  /\ seedQueue' = IF HasRoom THEN Tail(seedQueue) ELSE seedQueue
  /\ UNCHANGED allocated

(* If the table is full, a warning is all that becomes of the seed. *)
SeedDriver ==
  /\ seedQueue # <<>>
  /\ seedQueue' = Tail(seedQueue)
  /\ preallocated' = IF HasRoom THEN Append(preallocated, Head(seedQueue))
                                ELSE preallocated
  /\ UNCHANGED allocated

AllocateVideo ==
  /\ HasRoom
  /\ allocated' = allocated + 1
  /\ UNCHANGED <<seedQueue, preallocated>>

DeallocateVideo ==
  /\ \/ /\ allocated > 0
        /\ allocated' = allocated - 1
        /\ UNCHANGED preallocated
     \/ /\ preallocated # <<>>
        /\ preallocated' = Tail(preallocated)
        /\ UNCHANGED allocated
  /\ UNCHANGED seedQueue

AvNext == SeedDriver \/ AllocateVideo \/ DeallocateVideo
-----------------------------------------------------------------------------
AvTypeOK ==
  /\ seedQueue \in Seq(Cameras)
  /\ preallocated \in Seq(Cameras)
  /\ allocated \in 0 .. MaxVideo

(***************************************************************************)
(* There is no call to remove a pre-allocated stream, so one outlives its  *)
(* camera's absence (onvif_bridge.rs:164-166).  That is harmless: a slot   *)
(* is only ever seeded from the camera that owns it, and only once.        *)
(***************************************************************************)
SeededByTheOwner ==
  LET all == preallocated \o seedQueue IN
    /\ Len(all) <= 1
    /\ \A i \in 1 .. Len(all) : all[i] = owner
=============================================================================
