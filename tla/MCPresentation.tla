--------------------------- MODULE MCPresentation ---------------------------
(* Small instances of Presentation; the bounds are in the cfg files. *)
EXTENDS Presentation
=============================================================================
