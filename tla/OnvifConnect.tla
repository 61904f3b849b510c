---------------------------- MODULE OnvifConnect ----------------------------
(***************************************************************************)
(* connect_camera (crates/onvif-client/src/client.rs): what a camera's     *)
(* answers to the calls of one connection make of it.  A connection is the *)
(* set of things it learned.  Some calls must succeed, others may fail and *)
(* leave a camera that can do less: nobody connects for the traits again   *)
(* while discovery knows the camera.                                       *)
(***************************************************************************)
EXTENDS CameraEvents

Mandatory == {"clock", "capabilities", "media url", "device info", "profiles"}
Optional  == {"events url", "motion topic", "a profile", "video encoders",
              "stream uri"}

Connections == SUBSET (Mandatory \cup Optional)

Connects(r) == Mandatory \subseteq r

(* GetEventProperties is asked only where there is an events service, so a *)
(* camera with motion always has the URL that its pump subscribes at.      *)
SupportsMotion(r) == {"events url", "motion topic"} \subseteq r

(* Every profile gets the camera's first video encoder configuration.      *)
HasVideo(r) == {"a profile", "video encoders"} \subseteq r

TraitsOf(r) == [motion |-> SupportsMotion(r), video |-> HasVideo(r)]
=============================================================================
