----------------------------- MODULE MCListCache -----------------------------
(* The cache directory of two sources with two contents each. *)
EXTENDS ListCache
=============================================================================
