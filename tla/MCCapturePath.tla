--------------------------- MODULE MCCapturePath ---------------------------
(* A small instance of CapturePath for TLC.                                *)
EXTENDS CapturePath
===========================================================================
