----------------------------- MODULE CameraIds -----------------------------
(***************************************************************************)
(* The camera ids (crates/onvif-client/src/client.rs:84-91): the serial    *)
(* number, or host:port for a camera that reports no usable one.  Every    *)
(* map, event and property is keyed by them.                               *)
(***************************************************************************)
CONSTANT Cameras
=============================================================================
