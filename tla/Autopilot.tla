------------------------------ MODULE Autopilot ------------------------------
(***************************************************************************)
(* The autopilot policy of crates/resguard-policy (autopilot.rs and        *)
(* thresholds.rs): the pure function that maps one pressure reading, the   *)
(* policy state kept by resguardd, the classes of the active profile and   *)
(* the current tick to the actions of the tick and the next policy state.  *)
(*                                                                         *)
(* A pressure reading is the avg60 of /proc/pressure/<resource> in whole   *)
(* percent, or None when the file could not be read or parsed.             *)
(***************************************************************************)
EXTENDS Integers, Sequences

CONSTANTS
  autopilot_cooldown_ticks,      \* ticks a trigger closes the policy for (3)
  autopilot_revert_window_ticks  \* ticks a revert closes it for (2)

ASSUME WindowAssumption ==
  /\ autopilot_cooldown_ticks \in Nat
  /\ autopilot_revert_window_ticks \in Nat

None == -1                       \* Option::None of a tick, reading or weight
Resource == {"memory", "cpu", "io"}
AutopilotPhase == {"Idle", "Cooldown", "RevertWindow"}

AutopilotState ==
  [ last_action_tick : Nat \cup {None},
    last_revert_tick : Nat \cup {None},
    phase            : AutopilotPhase ]

AutopilotAction == {"ReduceBrowsersLimits", "ReduceHeavyCpuWeight",
                    "ReduceHeavyIoWeight", "RevertAdaptiveLimits",
                    "PreserveRescueClass"}

AutopilotTransition == {"StayIdle", "TriggerToCooldown", "StayCooldown",
                        "CooldownToRevertWindow", "RevertWindowToIdle"}

DefaultAutopilotState ==
  [last_action_tick |-> None, last_revert_tick |-> None, phase |-> "Idle"]

-----------------------------------------------------------------------------
(* Thresholds.                                                             *)

HighThreshold == [memory |-> 20, cpu |-> 30, io |-> 20]

pressure_avg60(reading) == IF reading = None THEN 0 ELSE reading

PressureHigh(metrics, r) == pressure_avg60(metrics[r]) >= HighThreshold[r]

AnyPressureHigh(metrics) == \E r \in Resource : PressureHigh(metrics, r)

-----------------------------------------------------------------------------
(* One decision.  classes is the set of class names of spec.classes.       *)

\* u64::saturating_sub
SaturatingSub(a, b) == IF a >= b THEN a - b ELSE 0

\* Mutant: the last tick of a window is taken for the first after it.
WithinLess(now, since, window) ==
  since # None /\ SaturatingSub(now, since) + 1 < window

\* The window opened at tick since still holds the policy at tick now.
Within(now, since, window) ==
  since # None /\ SaturatingSub(now, since) < window

When(condition, action) == IF condition THEN <<action>> ELSE <<>>

TriggerActions(metrics, classes) ==
  LET reduce ==
        When(PressureHigh(metrics, "memory") /\ "browsers" \in classes,
             "ReduceBrowsersLimits")
        \o When(PressureHigh(metrics, "cpu") /\ "heavy" \in classes,
                "ReduceHeavyCpuWeight")
        \o When(PressureHigh(metrics, "io") /\ "heavy" \in classes,
                "ReduceHeavyIoWeight")
  IN  reduce \o When(reduce # <<>> /\ "rescue" \in classes,
                     "PreserveRescueClass")

Decision(actions, next_state, in_cooldown, transition) ==
  [ actions |-> actions, next_state |-> next_state,
    in_cooldown |-> in_cooldown, transition |-> transition ]

\* Mutant: the revert window is not waited for.
DecideReopening(state, now) ==
  Decision(<<>>, [state EXCEPT !.phase = "Idle"], FALSE, "RevertWindowToIdle")

\* The RevertWindow arm: wait out the window, then reopen without acting.
DecideInRevertWindow(state, now) ==
  IF Within(now, state.last_revert_tick, autopilot_revert_window_ticks)
  THEN Decision(<<>>, state, TRUE, "CooldownToRevertWindow")
  ELSE Decision(<<>>, [state EXCEPT !.phase = "Idle"], FALSE,
                "RevertWindowToIdle")

\* Mutant: the phase stays Cooldown after a revert.
DecideRevertInCooldown(state, now) ==
  Decision(<<"RevertAdaptiveLimits">>,
           [state EXCEPT !.last_revert_tick = now], FALSE,
           "CooldownToRevertWindow")

DecideRevert(state, now) ==
  Decision(<<"RevertAdaptiveLimits">>,
           [state EXCEPT !.last_revert_tick = now, !.phase = "RevertWindow"],
           FALSE, "CooldownToRevertWindow")

\* The fall-through arm: Idle, or a Cooldown that ended under high pressure.
DecideTrigger(metrics, state, classes, now) ==
  LET actions == TriggerActions(metrics, classes)
  IN  IF actions = <<>>
      THEN Decision(<<>>, [state EXCEPT !.phase = "Idle"], FALSE, "StayIdle")
      ELSE Decision(actions,
                    [state EXCEPT !.last_action_tick = now,
                                  !.phase = "Cooldown"],
                    FALSE, "TriggerToCooldown")

decide_autopilot_actions(metrics, state, classes, now) ==
  CASE state.phase = "RevertWindow" -> DecideInRevertWindow(state, now)
    [] /\ state.phase = "Cooldown"
       /\ Within(now, state.last_action_tick, autopilot_cooldown_ticks)
         -> Decision(<<>>, state, TRUE, "StayCooldown")
    [] /\ state.phase = "Cooldown"
       /\ ~Within(now, state.last_action_tick, autopilot_cooldown_ticks)
       /\ ~AnyPressureHigh(metrics)
         -> DecideRevert(state, now)
    [] OTHER -> DecideTrigger(metrics, state, classes, now)
=============================================================================
