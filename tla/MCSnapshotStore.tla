-------------------------- MODULE MCSnapshotStore --------------------------
(***************************************************************************)
(* Instances of the membership store for TLC.                              *)
(***************************************************************************)
EXTENDS SnapshotStore, TLC

CONSTANTS a, b          \* apps
CONSTANTS q1, q2        \* hook threads
CONSTANTS w1, w2        \* two publishers
CONSTANTS o1, nobody

MCApps       == {a, b}
MCReaders    == {q1, q2}
MCPublishers == {w1, w2}
MCSymmetry   == Permutations(MCReaders) \cup Permutations(MCPublishers)
=============================================================================
