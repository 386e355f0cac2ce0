------------------------------ MODULE MCPanic ------------------------------
(***************************************************************************)
(* A small instance of Panic for TLC: sizes in units of which the machine  *)
(* has 100.                                                                *)
(***************************************************************************)
EXTENDS Panic, TLC

Unlimited == [high |-> Infinity, max |-> Infinity]
\* user.slice as an applied profile leaves it, and with MemoryHigh alone.
ApplyLimits == [high |-> 70, max |-> 80]
HighOnly    == [high |-> 20, max |-> Infinity]

MCInitialLimits == {ApplyLimits, HighOnly}
MCTunedLimits   == {Unlimited}
MCUsages        == {0, 11}
Alike           == Permutations(Panics)
=============================================================================
