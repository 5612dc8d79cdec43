----------------------------- MODULE MCSessions -----------------------------
(***************************************************************************)
(* Two sessions, two requests in flight, a session of two ticks on a clock *)
(* of four: long enough to log in, slide, expire and be swept.             *)
(***************************************************************************)
EXTENDS Sessions, TLC
=============================================================================
