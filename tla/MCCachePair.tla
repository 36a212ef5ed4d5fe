---------------------------- MODULE MCCachePair ----------------------------
(***************************************************************************)
(* Instances of the cache pair for TLC.                                    *)
(***************************************************************************)
EXTENDS CachePair, TLC

CONSTANTS worker, pics

MCPublishers == {worker, pics}
Symmetric == Permutations(MCPublishers)
=============================================================================
