------------------------------ MODULE MCRxPath ------------------------------
(* Model checking RxPath: the constants' values are in the configurations. *)
EXTENDS RxPath
=============================================================================
