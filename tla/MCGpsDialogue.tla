--------------------------- MODULE MCGpsDialogue ---------------------------
(* Two rates to try and a target that is one of them. *)
EXTENDS GpsDialogue
MCBauds == <<9600, 115200>>
MCTarget == 115200
=============================================================================
