---------------------------- MODULE MCFolderDrag ----------------------------
(* A small instance of FolderDrag for TLC.                                 *)
EXTENDS FolderDrag
=============================================================================
