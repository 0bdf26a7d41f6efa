----------------------------- MODULE MCNetChan -----------------------------
(* NetChan for TLC. *)
EXTENDS NetChan
=============================================================================
