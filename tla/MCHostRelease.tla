--------------------------- MODULE MCHostRelease ---------------------------
(* The credential, a captured file (config.yaml) and one that is tracked   *)
(* only when install_runtime reaches it (a drop-in).                       *)
EXTENDS HostRelease
=============================================================================
