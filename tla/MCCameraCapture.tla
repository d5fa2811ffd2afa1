--------------------------- MODULE MCCameraCapture ---------------------------
(* CameraCapture with a buffer of a few words.                             *)
EXTENDS CameraCapture, TLC
=============================================================================
