----------------------------- MODULE MCGestures -----------------------------
(* Small instances of Gestures; the bounds are in the cfg files. *)
EXTENDS Gestures
=============================================================================
