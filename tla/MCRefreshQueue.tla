--------------------------- MODULE MCRefreshQueue ---------------------------
(***************************************************************************)
(* Instances of the refresh queue for TLC.                                 *)
(***************************************************************************)
EXTENDS RefreshQueue, TLC

CONSTANTS a, b, c, d

MCCallers == {c, d}
MCFlags   == {"pics", "local", "publish"}
ask(change, flags) == [change |-> change, flags |-> flags]
MCAsked == {ask(0, {"pics", "publish"}), ask(1, {"pics"})}
Symmetric == Permutations(MCCallers)
=============================================================================
