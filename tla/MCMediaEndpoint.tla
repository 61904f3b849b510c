--------------------------- MODULE MCMediaEndpoint --------------------------
(* A small instance of MediaEndpoint for TLC. *)
EXTENDS MediaEndpoint

CONSTANTS c1, c2, c3, s1, s2, n1, n2

ThreeCameras == {c1, c2, c3}
TwoSessions  == {s1, s2}
TwoNames     == {n1, n2}

(* Two of the cameras have one stream name. *)
SharedName == [c \in ThreeCameras |-> IF c = c3 THEN n2 ELSE n1]
=============================================================================
