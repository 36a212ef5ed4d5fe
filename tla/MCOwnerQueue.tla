---------------------------- MODULE MCOwnerQueue ----------------------------
(***************************************************************************)
(* Instances of the owner queue for TLC: the batches the code submits, for *)
(* three apps and two snapshot generations.                                *)
(***************************************************************************)
EXTENDS OwnerQueueImplements

CONSTANTS o, w, p, noThread   \* owner, watcher, provision worker
CONSTANTS a, b, z             \* apps

MCThreads == {o, w, p}
MCApps    == {a, b, z}

hotAdd(ids) == <<injectPackage0(ids), reconcileLicenses>>
compat(app) == <<ensureCompat(app, 0, 0)>>
sync(gen, ids, added) == <<syncPackage0(gen, ids, added)>>

\* Two of the three hot-adds fit one command together, all of them do not.
AllBatches    == {hotAdd({a}), hotAdd({b}), hotAdd({b, z}), compat(a),
                  sync(1, {a, b}, {a}), sync(2, {a}, {})}
MixedBatches  == {hotAdd({a}), compat(a), <<installApp(b)>>}

\* One thread submits twice, the other once; the owner publishes once.
MCMaxOps == [t \in MCThreads |-> IF t = w THEN 2 ELSE 1]
OneOp    == [t \in MCThreads |-> 1]

Nested        == {syncPackage0(3, {a}, {a})}
=============================================================================
