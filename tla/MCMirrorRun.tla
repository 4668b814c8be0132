---------------------------- MODULE MCMirrorRun -----------------------------
(* MirrorRun for TLC: an open Friday, a closed day that ends the week and  *)
(* stands in the fixed list, and an open day that ends the month.          *)
EXTENDS MirrorRun
=============================================================================
