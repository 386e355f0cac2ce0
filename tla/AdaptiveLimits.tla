--------------------------- MODULE AdaptiveLimits ---------------------------
(***************************************************************************)
(* The values crates/resguard-runtime/src/adaptive.rs computes with: the   *)
(* limits of one slice, the texts systemctl shows and accepts for them,    *)
(* and the step from a requested limit to a planned change and from a      *)
(* planned change to the step that reverts it.  No state is kept here.     *)
(***************************************************************************)
EXTENDS Autopilot

CONSTANTS
  Slice,     \* the slices of the user manager
  MiB, GiB   \* 1024^2 and 1024^3, scaled down for TLC

ASSUME UnitAssumption == MiB \in Nat \ {0} /\ GiB \in Nat \ {0}

Infinity == -2                   \* "infinity", a limit that is not there

\* What systemd holds for one slice.
Limits == [ memory_high : Nat \cup {Infinity},
            memory_max  : Nat \cup {Infinity},
            cpu_weight  : Nat \cup {None} ]

-----------------------------------------------------------------------------
(* Memory sizes as text.  The daemon writes a size with a unit, systemd    *)
(* shows the same size in bytes: the two texts differ.                     *)

Text == [n : Nat, unit : {"none", "B", "M", "G", "infinity"}]
NoText == [n |-> 0, unit |-> "none"]

format_bytes_binary(bytes) ==
  IF bytes >= GiB THEN [n |-> bytes \div GiB, unit |-> "G"]
  ELSE IF bytes >= MiB THEN [n |-> bytes \div MiB, unit |-> "M"]
  ELSE [n |-> bytes, unit |-> "B"]

scaled_value(limit, pct) ==
  IF limit = None THEN NoText ELSE format_bytes_binary((limit * pct) \div 100)

\* systemctl show: a property as text.
Shown(limit) == IF limit = Infinity THEN [n |-> 0, unit |-> "infinity"]
                                    ELSE [n |-> limit, unit |-> "B"]

\* systemctl set-property: the value a text stands for.
Stored(text) == CASE text.unit = "G" -> text.n * GiB
                  [] text.unit = "M" -> text.n * MiB
                  [] text.unit = "infinity" -> Infinity
                  [] OTHER -> text.n

-----------------------------------------------------------------------------
(* Values of one slice, each with None or NoText where there is none.      *)

ClassLimits == [ memory_high : Text, memory_max : Text,
                 cpu_weight  : Nat \cup {None} ]

NoTargets(l) == /\ l.memory_high = NoText
                /\ l.memory_max = NoText
                /\ l.cpu_weight = None

ClassLimitRequest == [slice : Slice, target : ClassLimits]

PlannedClassLimitChange ==
  [slice : Slice, previous : ClassLimits, target : ClassLimits]

AdaptiveRevertStep == [slice : Slice, restore : ClassLimits]

\* read_class_limit_current of a slice that systemd holds the limits l for.
ReadBack(l) ==
  [ memory_high |-> Shown(l.memory_high),
    memory_max  |-> Shown(l.memory_max),
    cpu_weight  |-> l.cpu_weight ]

\* systemctl set-property on a slice that holds l: every property given.
SetProperties(l, given) ==
  [ memory_high |-> IF given.memory_high = NoText THEN l.memory_high
                                                  ELSE Stored(given.memory_high),
    memory_max  |-> IF given.memory_max = NoText THEN l.memory_max
                                                 ELSE Stored(given.memory_max),
    cpu_weight  |-> IF given.cpu_weight = None THEN l.cpu_weight
                                               ELSE given.cpu_weight ]

Differs(target, current) ==
  \/ /\ target.memory_high # NoText
     /\ current.memory_high # target.memory_high
  \/ /\ target.memory_max # NoText
     /\ current.memory_max # target.memory_max
  \/ /\ target.cpu_weight # None
     /\ current.cpu_weight # target.cpu_weight

PlannedChange(request, current) ==
  [slice |-> request.slice, previous |-> current, target |-> request.target]

\* Mutant: the weight to restore is taken from the target.
RevertToTarget(change) ==
  [ slice   |-> change.slice,
    restore |-> [change.previous EXCEPT !.cpu_weight =
                   change.target.cpu_weight] ]

RevertStep(change) ==
  LET t == change.target
      p == change.previous
  IN  [ slice   |-> change.slice,
        restore |->
          [ memory_high |-> IF t.memory_high # NoText THEN p.memory_high
                                                      ELSE NoText,
            memory_max  |-> IF t.memory_max # NoText THEN p.memory_max
                                                     ELSE NoText,
            cpu_weight  |-> IF t.cpu_weight # None THEN p.cpu_weight
                                                   ELSE None ] ]
=============================================================================
