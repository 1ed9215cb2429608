------------------------------ MODULE MCHeapUse ------------------------------
(***************************************************************************)
(* TLC instances of HeapUse: the timers are model values and no action     *)
(* tells them apart.                                                       *)
(***************************************************************************)
EXTENDS HeapUse, TLC

TimerSymmetry == Permutations(Timers)

\* Times in an order that makes both children earlier, later and equal.
FewWhens  == 1 .. 2
MoreWhens == 1 .. 3

=============================================================================
