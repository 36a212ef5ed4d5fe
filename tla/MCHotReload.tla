---------------------------- MODULE MCHotReload ----------------------------
(***************************************************************************)
(* Instances of live reconfiguration for TLC: the five threads, two apps   *)
(* and the config changes that matter for each question.                   *)
(***************************************************************************)
EXTENDS HotReload

CONSTANTS o, w, p, r, m, noThread  \* owner, watcher, worker, PICS, main
CONSTANTS a, b, z                  \* apps
CONSTANT  MaxGen                   \* bound of the snapshots listed below

MCThreads == {o, w, p, r, m}
MCApps    == {a, b}
MoreApps  == {a, b, z}

edit(ids, changed) == [ids |-> ids, changed |-> changed]

AddRemove == {edit({}, {}), edit({a}, {})}
AddTwo    == {edit({}, {}), edit({a, b}, {})}
Dense     == {edit({b, z}, {}), edit({a, b, z}, {}), edit({a, b, z}, {b})}
Grow      == {edit({}, {}), edit({a}, {}), edit({a, b}, {})}

\* Every snapshot a coordinator may submit: what it announces it contains.
Snapshots ==
  UNION {{syncPackage0(gen, ids, added) : gen \in 1 .. MaxGen,
                                          added \in SUBSET ids} :
            ids \in SUBSET MCApps}

HotBatches ==
  {<<s>> : s \in Snapshots}
    \cup {<<ensureCompat(app, gen, 0)>> : app \in MCApps, gen \in 0 .. MaxGen}
    \cup {<<injectPackage0(ids), reconcileLicenses>> :
             ids \in (SUBSET MCApps) \ {{}}}

\* The edits and the hot-adds bound a run; no thread is kept from a submission
\* that these lead to.
NoHotAdd  == [t \in MCThreads |-> IF t = r THEN 0 ELSE 12]
OneHotAdd == [t \in MCThreads |-> IF t = r THEN 1 ELSE 12]
=============================================================================
