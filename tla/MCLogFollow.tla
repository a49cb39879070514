---------------------------- MODULE MCLogFollow -----------------------------
(* LogFollow with quotas that a handful of lines exhaust.                   *)
EXTENDS LogFollow

Streams2 == <<"stdout", "stderr">>
=============================================================================
