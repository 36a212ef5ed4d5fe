----------------------------- MODULE MCPackage0 -----------------------------
(***************************************************************************)
(* Instances of package 0 for TLC.                                         *)
(***************************************************************************)
EXTENDS Package0, TLC

CONSTANTS game, other, owner, loader, asker

MCApps == {game, other}
=============================================================================
