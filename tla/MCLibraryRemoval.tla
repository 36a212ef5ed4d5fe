-------------------------- MODULE MCLibraryRemoval --------------------------
(***************************************************************************)
(* An instance of the queue of library presentations for TLC.              *)
(***************************************************************************)
EXTENDS LibraryRemoval

CONSTANTS a, b, c

MCApps == {a, b, c}
=============================================================================
