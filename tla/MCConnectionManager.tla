------------------------ MODULE MCConnectionManager ------------------------
(* A small instance of ConnectionManager for TLC.                          *)
EXTENDS ConnectionManager
=============================================================================
