-------------------------- MODULE MCCameraProcess --------------------------
(***************************************************************************)
(* CameraProcess for TLC: one model of every list of extra cameras.        *)
(***************************************************************************)
EXTENDS CameraProcess

MCModels == {"beyond0lte", "beyond1lte", "beyond2lte", "f62"}
=============================================================================
