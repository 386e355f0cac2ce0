-------------------------- MODULE DaemonProperties --------------------------
(***************************************************************************)
(* What resguardd is supposed to guarantee, stated over module Daemon.     *)
(***************************************************************************)
EXTENDS Daemon

ToSet(seq) == {seq[i] : i \in DOMAIN seq}

Slices(seq) == {seq[i].slice : i \in DOMAIN seq}

\* The slices the autopilot may ever set a limit on.
AdaptiveSlices ==
  UNION {{p[c].slice : c \in {"browsers", "heavy"} \cap DOMAIN p} :
         p \in Profiles}

PC == {"off", "loop", "plan", "apply", "revert", "record"}

DaemonTick ==
  [ had_profile : BOOLEAN, in_cooldown : BOOLEAN,
    transition : AutopilotTransition \cup {"-"},
    decision_actions : Seq(AutopilotAction), applied : Seq(Slice),
    reverted : Seq(Slice) ]

LedgerRecord ==
  [ tick : Nat,
    decision : {"-", "no-profile", "cooldown", "revert", "trigger", "idle"},
    applied : Seq(Slice), reverted : Seq(Slice) ]

\* The type of every variable of the daemon.
TypeOK ==
  /\ pressure \in Metrics
  /\ active \in Profiles \cup {NoProfile, BadProfile}
  /\ limits \in [Slice -> Limits]
  /\ pc \in PC /\ mode \in Modes /\ terminate \in BOOLEAN
  /\ tick \in 0..MaxTick
  /\ policy \in AutopilotState
  /\ pending_revert \in Seq(AdaptiveRevertStep)
  /\ requests \in Seq(ClassLimitRequest)
  /\ changes \in Seq(PlannedClassLimitChange)
  /\ revert_plan \in Seq(AdaptiveRevertStep)
  /\ steps \in Seq(AdaptiveRevertStep)
  /\ out \in DaemonTick
  /\ ledger \in LedgerRecord
  /\ planned_on \in [Slice -> Limits] /\ base \in [Slice -> Limits]
  /\ touched \subseteq Slice /\ tuned \subseteq Slice
  /\ used \in [{"faults", "stops", "tunes", "switches"} -> Nat]

-----------------------------------------------------------------------------
(* The policy gate.                                                        *)

\* A tick that starts to reduce limits comes at least the cooldown after the
\* previous trigger and more than the revert window after the last revert,
\* whatever ticks failed, found no profile or found another one in between
\* (autopilot.rs:78-112, "Cooldown-Gating ... verhindert Thrashing").
ThrashFree ==
  [][TickReduces =>
       /\ policy.last_action_tick # None
            => tick' - policy.last_action_tick >= autopilot_cooldown_ticks
       /\ policy.last_revert_tick # None
            => tick' - policy.last_revert_tick > autopilot_revert_window_ticks
    ]_vars

Gate == INSTANCE ReductionGate WITH
  cooldown    <- autopilot_cooldown_ticks,
  window      <- autopilot_revert_window_ticks,
  now         <- tick,
  reduced_at  <- policy.last_action_tick,
  reverted_at <- policy.last_revert_tick

\* The daemon implements ReductionGate: with ThrashFree also that a revert
\* waits for the cooldown and is decided once per reduction.
ImplementsGate == Gate!GateSpec

\* What ThrashFree and ImplementsGate rest on: how far in the past the
\* last trigger and the last revert are in every phase.
PolicyGate ==
  LET act == policy.last_action_tick
      rev == policy.last_revert_tick
  IN  /\ act <= tick /\ rev <= tick
      /\ policy.phase = "Idle" =>
           /\ act # None => tick >= act + autopilot_cooldown_ticks
           /\ rev # None => tick >= rev + autopilot_revert_window_ticks
      /\ policy.phase = "Cooldown" =>
           /\ act # None
           /\ rev # None => act > rev + autopilot_revert_window_ticks
      /\ policy.phase = "RevertWindow" =>
           /\ act # None /\ rev # None
           /\ rev >= act + autopilot_cooldown_ticks

-----------------------------------------------------------------------------
(* What the daemon does to the limits.                                     *)

\* The daemon never changes a slice that is not the browsers or heavy slice
\* of some profile, the rescue slice above all (PreserveRescueClass,
\* daemon_service.rs:139-208), and a revert changes only slices that the
\* reduction it reverts had changed, also when another profile with other
\* slices has become active in between.
OtherSlicesUntouched ==
  [][limits' # limits /\ ~Outside =>
       \A s \in Slice : limits'[s] # limits[s] =>
         /\ s \in AdaptiveSlices
         /\ pc = "revert" => s \in Slices(pending_revert)]_vars

\* A revert that runs to its end leaves every property it restored at the
\* value it had when the reduction it reverts was planned, also when that
\* reduction set the same property of a slice twice (CPU and I/O pressure)
\* and when calls failed or another reduction failed half way in between.
\* Slices the operator changed in the meantime are excepted
\* (adaptive.rs:96-140 reads everything before adaptive.rs:148-197 writes).
RevertRestoresBase ==
  [][RevertDone =>
       \A i \in DOMAIN pending_revert :
         LET s == pending_revert[i].slice
             r == pending_revert[i].restore
         IN  s \notin tuned =>
               /\ r.memory_high # NoText
                    => limits[s].memory_high = base[s].memory_high
               /\ r.memory_max # NoText
                    => limits[s].memory_max = base[s].memory_max
               /\ r.cpu_weight # None
                    => limits[s].cpu_weight = base[s].cpu_weight]_vars

\* When a tick that reduced limits ends well, what it would take to revert
\* them is pending, slice by slice (daemon_service.rs:292-297).
AppliedIsPending ==
  pc = "record" /\ out.applied # <<>> =>
    /\ Len(pending_revert) = Len(out.applied)
    /\ \A i \in DOMAIN out.applied : pending_revert[i].slice = out.applied[i]

-----------------------------------------------------------------------------
(* The ledger.                                                             *)

\* The record of a tick names exactly the slices whose limits the tick has
\* changed, and calls the tick a trigger or a revert if there are any; a
\* cooldown or idle record means that nothing was changed
\* (main.rs:132-165).
RecordTellsChanges ==
  pc = "record" =>
    /\ ToSet(out.applied) \cup ToSet(out.reverted) = touched
    /\ touched # {} => decision_for_tick(out) \in {"trigger", "revert"}
    /\ out.applied # <<>> => decision_for_tick(out) = "trigger"
    /\ out.reverted # <<>> => decision_for_tick(out) = "revert"

-----------------------------------------------------------------------------
(* Liveness.                                                               *)

Calm == ~AnyPressureHigh(pressure)
OutsideIsOver == tick > Horizon

\* Every profile has the classes that the pressure can be answered with.
EveryPressureHasAClass ==
  \A p \in Profiles : {"browsers", "heavy"} \subseteq DOMAIN p

\* The limits are those that the last reduction found.
LastReductionIsUndone ==
  \A s \in Slice \ tuned :
    /\ limits[s].memory_high = base[s].memory_high
    /\ limits[s].memory_max = base[s].memory_max
    /\ base[s].cpu_weight # None => limits[s].cpu_weight = base[s].cpu_weight

\* Once the pressure has fallen for good under a loaded profile, the daemon
\* comes back to Idle with nothing left to revert, and what its last reduction
\* took is given back (autopilot.rs:112, daemon_service.rs:269-284), while it is
\* not stopped and no call fails.  Not given back are slices that somebody has
\* set since, a weight that was not set before, what an earlier reduction took
\* whose plan was overwritten (PriorLimitsReturn), and anything after pressure
\* for which a profile has no class (PendingIsReverted).
SettlesWhenCalm ==
  (Calm /\ OutsideIsOver /\ active \in Profiles /\ EveryPressureHasAClass)
    ~> (policy.phase = "Idle" /\ pending_revert = <<>> /\ LastReductionIsUndone)

-----------------------------------------------------------------------------
(* What the documentation says and the code does not do.                   *)

\* SECURITY.md:112: the prior limits are stored and come back.  Here: when
\* the daemon is idle and has nothing to revert, the limits are the ones it
\* found.
PriorLimitsReturn ==
  (pc = "loop" /\ policy.phase = "Idle" /\ pending_revert = <<>>)
    => limits \in InitialLimits

\* SECURITY.md:112, liveness: what is pending is reverted some time after
\* the pressure has fallen, whichever classes the profile has.
PendingIsReverted ==
  (Calm /\ OutsideIsOver) ~> (pending_revert = <<>>)
=============================================================================
