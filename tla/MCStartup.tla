------------------------------ MODULE MCStartup ------------------------------
(***************************************************************************)
(* Startup for TLC, and samples of what is serialized.                     *)
(***************************************************************************)
EXTENDS Startup

MCSlots == {0, 258}

\* About both ends and the middle of each kind of value.
MCUnsigneds == {0, 1, Words \div 2 - 1, Words \div 2, Words - 1} \cup {Words \div 3}
MCStrings   == UNION {[1 .. n -> {0, Base - 1}] : n \in 0 .. 2}

=============================================================================
