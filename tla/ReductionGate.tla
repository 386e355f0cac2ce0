---------------------------- MODULE ReductionGate ----------------------------
(***************************************************************************)
(* What the autopilot promises about time, without phases, profiles or     *)
(* limits: ticks pass; a reduction is decided at least cooldown ticks      *)
(* after the previous one and more than window ticks after the last        *)
(* revert; a revert is decided once per reduction, at least cooldown ticks *)
(* after it; a new process starts from nothing.                            *)
(***************************************************************************)
EXTENDS Integers

CONSTANTS cooldown, window, None

VARIABLES now, reduced_at, reverted_at

gate == <<now, reduced_at, reverted_at>>

Open == /\ reduced_at # None => now' >= reduced_at + cooldown
        /\ reverted_at # None => now' > reverted_at + window

Pass   == now' = now + 1 /\ UNCHANGED <<reduced_at, reverted_at>>

Reduce == now' = now + 1 /\ Open
          /\ reduced_at' = now' /\ UNCHANGED reverted_at

Revert == /\ now' = now + 1
          /\ reduced_at # None /\ now' >= reduced_at + cooldown
          /\ reverted_at # None => reverted_at < reduced_at
          /\ reverted_at' = now' /\ UNCHANGED reduced_at

Restart == now' = 0 /\ reduced_at' = None /\ reverted_at' = None

GateInit == now = 0 /\ reduced_at = None /\ reverted_at = None

GateNext == Pass \/ Reduce \/ Revert \/ Restart

GateSpec == GateInit /\ [][GateNext]_gate
=============================================================================
