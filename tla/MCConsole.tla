----------------------------- MODULE MCConsole ------------------------------
(* Model checking Console: the constants' values are in the configurations. *)
EXTENDS Console
=============================================================================
