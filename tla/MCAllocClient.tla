--------------------------- MODULE MCAllocClient ----------------------------
(* Model checking AllocClient: the constants' values are in the            *)
(* configurations.                                                         *)
EXTENDS AllocClient
=============================================================================
