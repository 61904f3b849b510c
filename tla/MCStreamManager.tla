-------------------------- MODULE MCStreamManager --------------------------
(* Small instances of StreamManager for TLC. *)
EXTENDS StreamManager, TLC

CONSTANTS c1, c2, c3, u1, v1, u2, u3, n1, n2

OneCamera    == {c1}
ThreeCameras == {c1, c2, c3}
MCUrls       == {u1, v1, u2, u3}
MCNames      == {n1, n2}

(* Two of the cameras have one stream name. *)
MCStreamName == [c \in Cameras |-> IF c = c1 THEN n1 ELSE n2]

(* The first camera changes its URL, the second may have none. *)
MCUrisOf ==
  [c \in Cameras |-> CASE c = c1 -> {u1, v1}
                      [] c = c2 -> {u2, NoUrl}
                      [] c = c3 -> {u3}]
=============================================================================
