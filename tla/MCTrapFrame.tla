----------------------------- MODULE MCTrapFrame ----------------------------
(***************************************************************************)
(* Constants for model checking TrapFrame: two register files in which all *)
(* words differ, two instructions of which one faults.                   *)
(***************************************************************************)
EXTENDS TrapFrame

File(n) == [r \in Reg |-> <<100 * n + 2 * r, 100 * n + 2 * r + 1>>]
TwoFiles == {File(1), File(2)}
Pc(n) == <<n, n + 1>>
TwoPCs == {Pc(0), Pc(4)}
OneFaulting == {Pc(4)}
SomeWords == {0, 1, 2, 3, 4, 5} \cup 100..300
Callers == Reg \ CalleeSaved
=============================================================================
