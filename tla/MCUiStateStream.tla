-------------------------- MODULE MCUiStateStream --------------------------
(* Small instances of UiStateStream for TLC.                               *)
EXTENDS UiStateStream
===========================================================================
