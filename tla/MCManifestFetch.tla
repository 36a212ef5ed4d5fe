--------------------------- MODULE MCManifestFetch ---------------------------
(***************************************************************************)
(* Instances of the fetching of manifests for TLC.                         *)
(***************************************************************************)
EXTENDS ManifestFetch

CONSTANTS manifest, steam, first, second
=============================================================================
