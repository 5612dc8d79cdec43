------------------------------ MODULE MCProber ------------------------------
(***************************************************************************)
(* A probe with a cap of two units and blobs shorter, as long and longer.  *)
(***************************************************************************)
EXTENDS Prober, TLC

Units == 0 .. 3
=============================================================================
