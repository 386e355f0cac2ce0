------------------------------- MODULE Daemon -------------------------------
(***************************************************************************)
(* One resguardd process (crates/resguard-daemon/src/main.rs), the tick it *)
(* runs (crates/resguard-services/src/daemon_service.rs) and the adaptive  *)
(* limits it sets (crates/resguard-runtime/src/adaptive.rs), together with *)
(* what it shares with the rest of the machine: the limits systemd holds   *)
(* for every slice, the active profile in state.json and the pressure.     *)
(*                                                                         *)
(* A tick observes and decides in one step, because nothing it reads there *)
(* is read twice.  After that every systemctl call is a step of its own:   *)
(* it can fail, the operator can change a limit or the profile before it,  *)
(* and the process can be killed before it.                                *)
(*                                                                         *)
(* State bound: MaxTick caps the tick counter.  Budgets: at most MaxFaults *)
(* failing calls, MaxStops kills or signals, MaxTunes limit changes and    *)
(* MaxSwitches profile changes by the operator.  The environment is quiet  *)
(* once tick exceeds Horizon.                                              *)
(***************************************************************************)
EXTENDS AdaptiveLimits, FiniteSets

CONSTANTS
  Profiles,      \* the profiles in the store, class name -> class spec
  NoProfile,     \* state.json unreadable or without activeProfile
  BadProfile,    \* activeProfile names a profile that does not load
  Metrics,       \* the pressure readings that occur
  InitialLimits, \* the limits systemd may hold when the model starts
  TunedLimits,   \* the limits an operator may set on a slice
  Modes,         \* how the process is started: "loop", "once"
  MaxTick, MaxFaults, MaxStops, MaxTunes, MaxSwitches, Horizon

Class == {"browsers", "heavy", "rescue"}

\* memory_high and memory_max are the parsed sizes, None when absent or not
\* a size; slice is slice_name or its default resguard-<class>.slice.
ClassSpec == [ slice       : Slice,
               memory_high : Nat \cup {None},
               memory_max  : Nat \cup {None} ]

ASSUME DaemonAssumption ==
  /\ \A p \in Profiles : /\ DOMAIN p \subseteq Class
                          /\ p \in [DOMAIN p -> ClassSpec]
  /\ NoProfile \notin Profiles
  /\ BadProfile \notin Profiles
  /\ NoProfile # BadProfile
  /\ Metrics \subseteq [Resource -> Nat \cup {None}]
  /\ InitialLimits \subseteq [Slice -> Limits]
  /\ TunedLimits \subseteq Limits
  /\ Modes \subseteq {"loop", "once"}
  /\ MaxTick \in Nat

ASSUME BoundAssumption ==
  /\ MaxFaults \in Nat /\ MaxStops \in Nat
  /\ MaxTunes \in Nat /\ MaxSwitches \in Nat /\ Horizon \in Nat

VARIABLES
  \* Shared with the rest of the machine.
  pressure,     \* what the next read of /proc/pressure returns
  active,       \* the profile load_active_profile returns
  limits,       \* the limits of every slice of the user manager
  \* The process: where it is, how it was started, its signal flag.
  pc, mode, terminate,
  \* DaemonAutopilotState.
  tick, policy, pending_revert,
  \* The locals of the tick.
  requests,     \* requests plan_class_limit_changes has still to look at
  changes,      \* planned changes that are still to be applied
  revert_plan,  \* AdaptiveApplyResult.revert_plan so far
  steps,        \* revert steps that are still to be taken
  out,          \* DaemonAutopilotTick
  ledger,       \* the last record of daemon-ledger.jsonl
  \* History, read by properties only.
  planned_on,   \* limits when the tick started to plan
  base,         \* planned_on of the apply that made pending_revert
  touched,      \* slices set-property succeeded on in this tick
  tuned,        \* slices the operator has changed
  \* Budgets used so far.
  used

world    == <<pressure, active, limits>>
process  == <<pc, mode, terminate>>
memory   == <<tick, policy, pending_revert>>
locals   == <<requests, changes, revert_plan, steps>>
history  == <<planned_on, base, touched, tuned>>
vars     == <<world, process, memory, locals, out, ledger, history, used>>

Budget == [faults |-> MaxFaults, stops |-> MaxStops,
           tunes |-> MaxTunes, switches |-> MaxSwitches]

Spend(kind) == /\ used[kind] < Budget[kind]
               /\ used' = [used EXCEPT ![kind] = @ + 1]

-----------------------------------------------------------------------------
(* From decisions to requests, changes and revert steps.                   *)

Chosen(actions, a) == \E i \in DOMAIN actions : actions[i] = a

\* Mutant: the weight is requested for the rescue class where there is one.
HeavyOrRescueRequest(profile, weight) ==
  [ slice  |-> profile[IF "rescue" \in DOMAIN profile THEN "rescue"
                                                      ELSE "heavy"].slice,
    target |-> [memory_high |-> NoText, memory_max |-> NoText,
                cpu_weight |-> weight] ]

HeavyRequest(profile, weight) ==
  [ slice  |-> profile["heavy"].slice,
    target |-> [memory_high |-> NoText, memory_max |-> NoText,
                cpu_weight |-> weight] ]

BrowsersRequest(profile) ==
  [ slice  |-> profile["browsers"].slice,
    target |->
      [ memory_high |-> scaled_value(profile["browsers"].memory_high, 85),
        memory_max  |-> scaled_value(profile["browsers"].memory_max, 90),
        cpu_weight  |-> None ] ]

\* In the order of the actions.  A browsers class without a size gives no
\* request; the reduced I/O weight is requested as a CPU weight.
build_requests(profile, actions) ==
  When(/\ Chosen(actions, "ReduceBrowsersLimits")
       /\ ~NoTargets(BrowsersRequest(profile).target),
       BrowsersRequest(profile))
  \o When(Chosen(actions, "ReduceHeavyCpuWeight"), HeavyRequest(profile, 70))
  \o When(Chosen(actions, "ReduceHeavyIoWeight"), HeavyRequest(profile, 60))

-----------------------------------------------------------------------------
(* The record of a tick.                                                   *)

DefaultTick == [ had_profile |-> FALSE, in_cooldown |-> FALSE,
                 transition |-> "-", decision_actions |-> <<>>,
                 applied |-> <<>>, reverted |-> <<>> ]

\* Mutant: the transition is recorded as the decision.
transition_for_tick(t) == t.transition

decision_for_tick(t) ==
  CASE ~t.had_profile -> "no-profile"
    [] t.had_profile /\ t.in_cooldown -> "cooldown"
    [] /\ t.had_profile /\ ~t.in_cooldown
       /\ t.reverted # <<>> \/ Chosen(t.decision_actions, "RevertAdaptiveLimits")
         -> "revert"
    [] OTHER -> IF t.decision_actions # <<>> \/ t.applied # <<>>
                THEN "trigger" ELSE "idle"

record_from_tick(n, t) ==
  [ tick |-> n, decision |-> decision_for_tick(t),
    applied |-> t.applied, reverted |-> t.reverted ]

NoRecord == [tick |-> 0, decision |-> "-", applied |-> <<>>, reverted |-> <<>>]

-----------------------------------------------------------------------------
(* The process.                                                            *)

ClearLocals == /\ requests' = <<>> /\ changes' = <<>>
               /\ revert_plan' = <<>> /\ steps' = <<>>
               /\ out' = DefaultTick

ForgetMemory == /\ tick' = 0
                /\ policy' = DefaultAutopilotState
                /\ pending_revert' = <<>>

\* The process is gone and with it DaemonAutopilotState, which is only in
\* memory.
Stop == /\ pc' = "off"
        /\ terminate' = FALSE
        /\ ForgetMemory
        /\ ClearLocals

\* The end of a tick: back to the loop, or out of the process in mode once.
EndTick ==
  \/ /\ mode = "once"
     /\ Stop
  \/ /\ mode = "loop"
     /\ pc' = "loop"
     /\ ClearLocals
     /\ UNCHANGED <<terminate, memory>>

Start(m) ==
  /\ pc = "off"
  /\ pc' = "loop"
  /\ mode' = m
  /\ UNCHANGED <<world, terminate, memory, locals, out, ledger, history, used>>

\* The ctrlc handler only sets the flag.
Sigint ==
  /\ pc # "off" /\ ~terminate
  /\ Spend("stops")
  /\ terminate' = TRUE
  /\ UNCHANGED <<world, pc, mode, memory, locals, out, ledger, history>>

\* The flag is looked at between two ticks only.
ExitOnFlag ==
  /\ pc = "loop" /\ mode = "loop" /\ terminate
  /\ Stop
  /\ UNCHANGED <<world, mode, ledger, history, used>>

\* SIGTERM, which has no handler, SIGKILL, a panic, power loss.
Kill ==
  /\ pc # "off"
  /\ Spend("stops")
  /\ Stop
  /\ UNCHANGED <<world, mode, ledger, history>>

-----------------------------------------------------------------------------
(* daemon_autopilot_tick_with: observe, load the profile, decide.          *)

BeginTick ==
  /\ pc = "loop" /\ (mode = "once" \/ ~terminate)
  /\ tick < MaxTick

Decided == decide_autopilot_actions(pressure, policy, DOMAIN active, tick + 1)

\* load_profile fails: the tick is over, its number is spent.
TickWithoutLoading ==
  /\ BeginTick /\ active = BadProfile
  /\ touched' = {}
  /\ \/ /\ mode = "once"
        /\ Stop
     \/ /\ mode = "loop"
        /\ tick' = tick + 1
        /\ pc' = "loop"
        /\ ClearLocals
        /\ UNCHANGED <<terminate, policy, pending_revert>>
  /\ UNCHANGED <<world, mode, ledger, planned_on, base, tuned, used>>

TickWithoutProfile ==
  /\ BeginTick /\ active = NoProfile
  /\ tick' = tick + 1
  /\ touched' = {}
  /\ pc' = "record"
  /\ out' = DefaultTick
  /\ UNCHANGED <<world, mode, terminate, policy, pending_revert, locals,
                 ledger, planned_on, base, tuned, used>>

\* The policy state is replaced before any action is taken.
Decide ==
  /\ BeginTick /\ active \in Profiles
  /\ tick' = tick + 1
  /\ touched' = {}
  /\ policy' = Decided.next_state
  /\ out' = [DefaultTick EXCEPT !.had_profile = TRUE,
                                !.in_cooldown = Decided.in_cooldown,
                                !.transition = Decided.transition,
                                !.decision_actions = Decided.actions]
  /\ UNCHANGED <<world, mode, terminate, pending_revert, ledger, changes,
                 revert_plan, base, tuned, used>>

Reverting == Chosen(Decided.actions, "RevertAdaptiveLimits")
Requested == build_requests(active, Decided.actions)

\* No action, a revert with nothing pending, or no request to make.
TickWithoutWork ==
  /\ Decide
  /\ IF Reverting THEN pending_revert = <<>> ELSE Requested = <<>>
  /\ pc' = "record"
  /\ UNCHANGED <<requests, steps, planned_on>>

TickReverts ==
  /\ Decide
  /\ Reverting /\ pending_revert # <<>>
  /\ pc' = "revert"
  /\ steps' = pending_revert
  /\ UNCHANGED <<requests, planned_on>>

TickReduces ==
  /\ Decide
  /\ ~Reverting /\ Requested # <<>>
  /\ pc' = "plan"
  /\ requests' = Requested
  /\ planned_on' = limits
  /\ UNCHANGED steps

-----------------------------------------------------------------------------
(* plan_class_limit_changes: read every requested slice before any change. *)

PlanRequest ==
  /\ pc = "plan" /\ requests # <<>>
  /\ LET r == Head(requests)
         current == ReadBack(limits[r.slice])
     IN  changes' = changes \o When(Differs(r.target, current),
                                    PlannedChange(r, current))
  /\ requests' = Tail(requests)
  /\ UNCHANGED <<world, process, memory, revert_plan, steps, out, ledger,
                 history, used>>

PlanDone ==
  /\ pc = "plan" /\ requests = <<>>
  /\ pc' = "apply"
  /\ UNCHANGED <<world, mode, terminate, memory, locals, out, ledger, history,
                 used>>

-----------------------------------------------------------------------------
(* apply_class_limit_changes: one set-property per change.                 *)

ApplyChange ==
  /\ pc = "apply" /\ changes # <<>>
  /\ LET c == Head(changes)
     IN  /\ limits' = [limits EXCEPT ![c.slice] = SetProperties(@, c.target)]
         /\ revert_plan' = Append(revert_plan, RevertStep(c))
         /\ out' = [out EXCEPT !.applied = Append(@, c.slice)]
         /\ touched' = touched \cup {c.slice}
  /\ changes' = Tail(changes)
  /\ UNCHANGED <<pressure, active, process, memory, requests, steps, ledger,
                 planned_on, base, tuned, used>>

\* Mutant: a revert plan that is pending already is kept.
ApplyDoneKeeps ==
  /\ pc = "apply" /\ changes = <<>>
  /\ pending_revert' = IF pending_revert = <<>> THEN revert_plan
                                                ELSE pending_revert
  /\ base' = planned_on
  /\ pc' = "record"
  /\ UNCHANGED <<world, mode, terminate, tick, policy, locals, out, ledger,
                 planned_on, touched, tuned, used>>

\* The revert plan of this apply replaces whatever was pending.
ApplyDone ==
  /\ pc = "apply" /\ changes = <<>>
  /\ pending_revert' = revert_plan
  /\ base' = planned_on
  /\ pc' = "record"
  /\ UNCHANGED <<world, mode, terminate, tick, policy, locals, out, ledger,
                 planned_on, touched, tuned, used>>

-----------------------------------------------------------------------------
(* revert_class_limit_changes: one set-property per pending step.          *)

\* Mutant: a weight is restored on the heavy slice of the profile active now.
RevertOfActive ==
  /\ pc = "revert" /\ steps # <<>>
  /\ LET s == Head(steps)
         slice == IF /\ s.restore.cpu_weight # None
                     /\ active \in Profiles /\ "heavy" \in DOMAIN active
                  THEN active["heavy"].slice ELSE s.slice
     IN  /\ ~NoTargets(s.restore)
         /\ limits' = [limits EXCEPT ![slice] = SetProperties(@, s.restore)]
         /\ out' = [out EXCEPT !.reverted = Append(@, slice)]
         /\ touched' = touched \cup {slice}
  /\ steps' = Tail(steps)
  /\ UNCHANGED <<pressure, active, process, memory, requests, changes,
                 revert_plan, ledger, planned_on, base, tuned, used>>

RevertChange ==
  /\ pc = "revert" /\ steps # <<>>
  /\ LET s == Head(steps)
     IN  /\ ~NoTargets(s.restore)
         /\ limits' = [limits EXCEPT ![s.slice] = SetProperties(@, s.restore)]
         /\ out' = [out EXCEPT !.reverted = Append(@, s.slice)]
         /\ touched' = touched \cup {s.slice}
  /\ steps' = Tail(steps)
  /\ UNCHANGED <<pressure, active, process, memory, requests, changes,
                 revert_plan, ledger, planned_on, base, tuned, used>>

\* Nothing to restore, a CPUWeight that was not set: only a warning.
RevertNothing ==
  /\ pc = "revert" /\ steps # <<>>
  /\ NoTargets(Head(steps).restore)
  /\ steps' = Tail(steps)
  /\ UNCHANGED <<world, process, memory, requests, changes, revert_plan, out,
                 ledger, history, used>>

RevertDone ==
  /\ pc = "revert" /\ steps = <<>>
  /\ pending_revert' = <<>>
  /\ pc' = "record"
  /\ UNCHANGED <<world, mode, terminate, tick, policy, locals, out, ledger,
                 history, used>>

-----------------------------------------------------------------------------
(* A failing systemctl call ends the tick: no record, what was planned or  *)
(* already applied in it is dropped, the policy state stays.               *)

Calling == \/ pc = "plan" /\ requests # <<>>
           \/ pc = "apply" /\ changes # <<>>
           \/ pc = "revert" /\ steps # <<>> /\ ~NoTargets(Head(steps).restore)

CallFails ==
  /\ Calling
  /\ Spend("faults")
  /\ EndTick
  /\ UNCHANGED <<world, mode, ledger, history>>

-----------------------------------------------------------------------------
(* append_ledger_record.                                                   *)

AppendRecord ==
  /\ pc = "record"
  /\ ledger' = record_from_tick(tick, out)
  /\ EndTick
  /\ UNCHANGED <<world, mode, history, used>>

AppendFails ==
  /\ pc = "record"
  /\ Spend("faults")
  /\ EndTick
  /\ UNCHANGED <<world, mode, ledger, history>>

-----------------------------------------------------------------------------
(* The rest of the machine.                                                *)

PressureChanges ==
  /\ tick <= Horizon
  /\ \E m \in Metrics \ {pressure} : pressure' = m
  /\ UNCHANGED <<active, limits, process, memory, locals, out, ledger, history,
                 used>>

\* resguard apply and rollback replace the active profile.
ProfileSwitches ==
  /\ tick <= Horizon
  /\ Spend("switches")
  /\ \E p \in (Profiles \cup {NoProfile, BadProfile}) \ {active} : active' = p
  /\ UNCHANGED <<pressure, limits, process, memory, locals, out, ledger,
                 history>>

\* Anyone else's systemctl --user set-property.
OperatorTunes(s) ==
  /\ tick <= Horizon
  /\ Spend("tunes")
  /\ \E l \in TunedLimits \ {limits[s]} : limits' = [limits EXCEPT ![s] = l]
  /\ tuned' = tuned \cup {s}
  /\ UNCHANGED <<pressure, active, process, memory, locals, out, ledger,
                 planned_on, base, touched>>

-----------------------------------------------------------------------------
Init ==
  /\ pressure \in Metrics
  /\ active \in Profiles
  /\ limits \in InitialLimits
  /\ pc = "off" /\ mode \in Modes /\ terminate = FALSE
  /\ tick = 0 /\ policy = DefaultAutopilotState /\ pending_revert = <<>>
  /\ requests = <<>> /\ changes = <<>> /\ revert_plan = <<>> /\ steps = <<>>
  /\ out = DefaultTick
  /\ ledger = NoRecord
  /\ planned_on = limits /\ base = limits /\ touched = {} /\ tuned = {}
  /\ used = [faults |-> 0, stops |-> 0, tunes |-> 0, switches |-> 0]

Tick == \/ TickWithoutLoading \/ TickWithoutProfile \/ TickWithoutWork
        \/ TickReverts \/ TickReduces

Work == \/ PlanRequest \/ PlanDone \/ ApplyChange \/ ApplyDone
        \/ RevertChange \/ RevertNothing \/ RevertDone

Outside == \/ PressureChanges \/ ProfileSwitches
           \/ \E s \in Slice : OperatorTunes(s)

Next == \/ \E m \in Modes : Start(m)
        \/ Sigint \/ ExitOnFlag \/ Kill
        \/ Tick \/ Work \/ CallFails \/ AppendRecord \/ AppendFails
        \/ Outside

Spec == Init /\ [][Next]_vars

\* The loop never blocks: every call returns and every sleep ends.
Fairness == WF_vars(Tick \/ Work \/ AppendRecord \/ \E m \in Modes : Start(m))

FairSpec == Spec /\ Fairness
=============================================================================
