---------------------------- MODULE DaemonProofs ----------------------------
(***************************************************************************)
(* Theorems about resguardd for every set of profiles, every reading, every*)
(* window and every bound.  The inductive invariant is TypeOK /\ PolicyGate*)
(* for the policy, and AdaptiveOnly, that only adaptive slices are ever    *)
(* put into a request, a change or a revert step, for the limits.          *)
(***************************************************************************)
EXTENDS DaemonProperties, SequenceTheorems, TLAPS

-----------------------------------------------------------------------------
(* The operators of AdaptiveLimits, for every unit and every size: their   *)
(* types, what set-property leaves alone, that a read value is restored    *)
(* exactly, and that a reduced size never exceeds the size it is computed  *)
(* from.                                                                   *)

\* An integer division of a natural number by a positive one is a natural
\* number (format_bytes_binary, scaled_value).
LEMMA DivNat ==
  ASSUME NEW a \in Nat, NEW b \in Nat \ {0}
  PROVE  /\ a \div b \in Nat
         /\ (a \div b) * b <= a
  OBVIOUS

\* A product of natural numbers is a natural number.
LEMMA TimesNat ==
  ASSUME NEW a \in Nat, NEW b \in Nat
  PROVE  a * b \in Nat
  OBVIOUS

\* format_bytes_binary writes a text for every size.
LEMMA FormatType ==
  ASSUME NEW bytes \in Nat
  PROVE  format_bytes_binary(bytes) \in Text
<1>1. bytes \div GiB \in Nat /\ bytes \div MiB \in Nat
  BY DivNat, UnitAssumption
<1>2. QED
  BY <1>1 DEF format_bytes_binary, Text

\* scaled_value gives a text for every size and NoText for none.
LEMMA ScaledType ==
  ASSUME NEW limit \in Nat \cup {None}, NEW pct \in Nat
  PROVE  scaled_value(limit, pct) \in Text
<1>1. CASE limit = None
  BY <1>1 DEF scaled_value, NoText, Text
<1>2. CASE limit # None
  <2>1. limit * pct \in Nat
    BY <1>2, TimesNat
  <2>2. (limit * pct) \div 100 \in Nat
    BY <2>1, DivNat
  <2>3. QED
    BY <1>2, <2>2, FormatType DEF scaled_value
<1>3. QED
  BY <1>1, <1>2

\* systemd stores a number or infinity for every text.
LEMMA StoredType ==
  ASSUME NEW text \in Text
  PROVE  Stored(text) \in Nat \cup {Infinity}
<1>1. text.n \in Nat
  BY DEF Text
<1>2. text.n * GiB \in Nat /\ text.n * MiB \in Nat
  BY <1>1, TimesNat, UnitAssumption
<1>3. QED
  BY <1>1, <1>2 DEF Stored

\* systemctl show gives texts for the limits of a slice.
LEMMA ReadBackType ==
  ASSUME NEW l \in Limits
  PROVE  ReadBack(l) \in ClassLimits
  BY DEF ReadBack, Shown, Limits, ClassLimits, Text, Infinity, None

\* A slice holds limits after a set-property.
LEMMA SetPropertiesType ==
  ASSUME NEW l \in Limits, NEW given \in ClassLimits
  PROVE  SetProperties(l, given) \in Limits
<1>1. /\ Stored(given.memory_high) \in Nat \cup {Infinity}
      /\ Stored(given.memory_max) \in Nat \cup {Infinity}
  BY StoredType DEF ClassLimits
<1>2. QED
  BY <1>1 DEF SetProperties, Limits, ClassLimits

\* The revert step of a planned change restores limits of the same slice.
LEMMA RevertStepType ==
  ASSUME NEW c \in PlannedClassLimitChange
  PROVE  /\ RevertStep(c) \in AdaptiveRevertStep
         /\ RevertStep(c).slice = c.slice
  BY DEF RevertStep, PlannedClassLimitChange, AdaptiveRevertStep, ClassLimits,
         Text, NoText, None

\* A planned change is about the slice of its request.
LEMMA PlannedChangeType ==
  ASSUME NEW r \in ClassLimitRequest, NEW current \in ClassLimits
  PROVE  /\ PlannedChange(r, current) \in PlannedClassLimitChange
         /\ PlannedChange(r, current).slice = r.slice
  BY DEF PlannedChange, PlannedClassLimitChange, ClassLimitRequest

\* What systemctl show printed for a limit, set-property restores: the byte
\* text of a read limit stands for that limit, whatever the daemon stored in
\* between (adaptive.rs:178-192).
LEMMA ReadRestores ==
  ASSUME NEW l \in Limits
  PROVE  /\ Stored(ReadBack(l).memory_high) = l.memory_high
         /\ Stored(ReadBack(l).memory_max) = l.memory_max
  BY DEF ReadBack, Shown, Stored, Limits, Infinity

\* Rounding to whole units only rounds down (daemon_service.rs:121-131).
LEMMA FormatRoundsDown ==
  ASSUME NEW bytes \in Nat
  PROVE  Stored(format_bytes_binary(bytes)) <= bytes
<1>1. (bytes \div GiB) * GiB <= bytes /\ (bytes \div MiB) * MiB <= bytes
  BY DivNat, UnitAssumption
<1>2. QED
  BY <1>1 DEF format_bytes_binary, Stored

\* A percentage of at most one hundred is no larger than the whole.
LEMMA PercentBelow ==
  ASSUME NEW a \in Nat, NEW pct \in 0..100
  PROVE  (a * pct) \div 100 \in Nat /\ (a * pct) \div 100 <= a
<1>1. a * pct \in Nat /\ a * pct <= a * 100
  OBVIOUS
<1>2. QED
  BY <1>1

\* The limit an adaptive reduction sets is never above the limit of the
\* profile it is a percentage of (daemon_service.rs:133-137).
THEOREM ReductionReduces ==
  ASSUME NEW limit \in Nat, NEW pct \in 0..100
  PROVE  Stored(scaled_value(limit, pct)) <= limit
<1>1. limit # None
  BY DEF None
<1>2. /\ (limit * pct) \div 100 \in Nat
      /\ (limit * pct) \div 100 <= limit
  BY PercentBelow
<1>3. Stored(format_bytes_binary((limit * pct) \div 100))
        <= (limit * pct) \div 100
  BY <1>2, FormatRoundsDown
<1>4. format_bytes_binary((limit * pct) \div 100) \in Text
  BY <1>2, FormatType
<1>5. Stored(format_bytes_binary((limit * pct) \div 100)) \in Int
  BY <1>4, StoredType DEF Infinity
<1>6. QED
  BY <1>1, <1>2, <1>3, <1>5 DEF scaled_value

-----------------------------------------------------------------------------
(* The decision.                                                           *)

\* The four kinds of decision d taken in a state: to hold it, to go back to
\* Idle without an action, to revert, and to trigger.
Closed(state, now) ==
  Within(now, state.last_action_tick, autopilot_cooldown_ticks)

Holds(d, state) ==
  /\ d.next_state = state
  /\ d.actions = <<>>
  /\ state.phase # "Idle"

Reopens(d, state, now) ==
  /\ d.next_state = [state EXCEPT !.phase = "Idle"]
  /\ d.actions = <<>>
  /\ state.phase = "RevertWindow"
       => ~Within(now, state.last_revert_tick, autopilot_revert_window_ticks)
  /\ state.phase = "Cooldown" => ~Closed(state, now)

Reverts(d, state, now) ==
  /\ d.next_state = [state EXCEPT !.last_revert_tick = now,
                                  !.phase = "RevertWindow"]
  /\ d.actions = <<"RevertAdaptiveLimits">> /\ d.in_cooldown = FALSE
  /\ state.phase = "Cooldown" /\ ~Closed(state, now)

Triggers(d, state, metrics, classes, now) ==
  /\ d.next_state = [state EXCEPT !.last_action_tick = now,
                                  !.phase = "Cooldown"]
  /\ d.actions = TriggerActions(metrics, classes) /\ d.in_cooldown = FALSE
  /\ state.phase # "RevertWindow"
  /\ state.phase = "Cooldown" => ~Closed(state, now)

\* Every decision is of one of the four kinds (autopilot.rs:64-167).
LEMMA DecisionCases ==
  ASSUME NEW metrics, NEW classes, NEW state \in AutopilotState, NEW now
  PROVE  LET d == decide_autopilot_actions(metrics, state, classes, now)
         IN  \/ Holds(d, state)
             \/ Reopens(d, state, now)
             \/ Reverts(d, state, now)
             \/ Triggers(d, state, metrics, classes, now)
<1> DEFINE d == decide_autopilot_actions(metrics, state, classes, now)
<1>1. CASE state.phase = "RevertWindow"
  <2>1. d = DecideInRevertWindow(state, now)
    BY <1>1 DEF decide_autopilot_actions
  <2> HIDE DEF d
  <2>2. Holds(d, state) \/ Reopens(d, state, now)
    BY <1>1, <2>1 DEF DecideInRevertWindow, Decision, Holds, Reopens
  <2>3. QED
    BY <2>2 DEF d
<1>2. CASE state.phase = "Cooldown" /\ Closed(state, now)
  <2>1. d = Decision(<<>>, state, TRUE, "StayCooldown")
    BY <1>2 DEF decide_autopilot_actions, Closed
  <2> HIDE DEF d
  <2>2. Holds(d, state)
    BY <1>2, <2>1 DEF Decision, Holds
  <2>3. QED
    BY <2>2 DEF d
<1>3. CASE /\ state.phase = "Cooldown" /\ ~Closed(state, now)
           /\ ~AnyPressureHigh(metrics)
  <2>1. d = DecideRevert(state, now)
    BY <1>3 DEF decide_autopilot_actions, Closed
  <2> HIDE DEF d
  <2>2. Reverts(d, state, now)
    BY <1>3, <2>1 DEF DecideRevert, Decision, Reverts
  <2>3. QED
    BY <2>2 DEF d
<1>4. CASE \/ state.phase = "Idle"
           \/ /\ state.phase = "Cooldown" /\ ~Closed(state, now)
              /\ AnyPressureHigh(metrics)
  <2>1. d = DecideTrigger(metrics, state, classes, now)
    BY <1>4 DEF decide_autopilot_actions, Closed
  <2> HIDE DEF d
  <2>2. \/ Reopens(d, state, now)
        \/ Triggers(d, state, metrics, classes, now)
    BY <1>4, <2>1 DEF DecideTrigger, Decision, Reopens, Triggers
  <2>3. QED
    BY <2>2 DEF d
<1>5. QED
  BY <1>1, <1>2, <1>3, <1>4 DEF AutopilotState, AutopilotPhase

\* Appending an action that may be left out chooses nothing else.
LEMMA ChosenWhen ==
  ASSUME NEW S, NEW seq \in Seq(S), NEW condition, NEW action \in S
  PROVE  /\ seq \o When(condition, action) \in Seq(S)
         /\ \A a : Chosen(seq \o When(condition, action), a)
                     <=> (Chosen(seq, a) \/ (condition /\ a = action))
<1>1. CASE condition
  <2>1. seq \o When(condition, action) = seq \o <<action>>
    BY <1>1 DEF When
  <2>2. seq \o <<action>> = Append(seq, action)
    BY AppendIsConcat
  <2>3. Append(seq, action) \in Seq(S)
    BY AppendProperties
  <2>4. ASSUME NEW a
        PROVE  Chosen(Append(seq, action), a)
                 <=> (Chosen(seq, a) \/ a = action)
    <3>1. /\ \A i \in 1..Len(seq) : Append(seq, action)[i] = seq[i]
          /\ Append(seq, action)[Len(seq) + 1] = action
          /\ Len(Append(seq, action)) = Len(seq) + 1
      BY AppendProperties
    <3>2. /\ DOMAIN seq = 1..Len(seq) /\ Len(seq) \in Nat
          /\ DOMAIN Append(seq, action) = 1..(Len(seq) + 1)
      BY <2>3, <3>1, LenProperties
    <3>3. \A i : i \in 1..(Len(seq) + 1)
                  <=> (i \in 1..Len(seq) \/ i = Len(seq) + 1)
      BY <3>2
    <3>4. QED
      BY <3>1, <3>2, <3>3, Zenon DEF Chosen
  <2>5. QED
    BY <1>1, <2>1, <2>2, <2>3, <2>4, Zenon
<1>2. CASE ~condition
  <2>1. seq \o When(condition, action) = seq
    BY <1>2, ConcatEmptySeq DEF When
  <2>2. QED
    BY <1>2, <2>1, Zenon
<1>3. QED
  BY <1>1, <1>2, Zenon

\* A trigger only chooses actions for classes that the profile has, and
\* never a revert (autopilot.rs:126-146).
LEMMA TriggerChooses ==
  ASSUME NEW metrics, NEW classes
  PROVE  LET actions == TriggerActions(metrics, classes)
         IN  /\ actions \in Seq(AutopilotAction)
             /\ Chosen(actions, "ReduceBrowsersLimits")
                  => "browsers" \in classes
             /\ Chosen(actions, "ReduceHeavyCpuWeight")
                  => "heavy" \in classes
             /\ Chosen(actions, "ReduceHeavyIoWeight")
                  => "heavy" \in classes
             /\ ~Chosen(actions, "RevertAdaptiveLimits")
<1> DEFINE b == PressureHigh(metrics, "memory") /\ "browsers" \in classes
           c == PressureHigh(metrics, "cpu") /\ "heavy" \in classes
           d == PressureHigh(metrics, "io") /\ "heavy" \in classes
           s1 == <<>> \o When(b, "ReduceBrowsersLimits")
           s2 == s1 \o When(c, "ReduceHeavyCpuWeight")
           s3 == s2 \o When(d, "ReduceHeavyIoWeight")
           e == s3 # <<>> /\ "rescue" \in classes
           s4 == s3 \o When(e, "PreserveRescueClass")
<1>0. /\ "ReduceBrowsersLimits" \in AutopilotAction
      /\ "PreserveRescueClass" \in AutopilotAction
      /\ "ReduceHeavyCpuWeight" \in AutopilotAction
      /\ "ReduceHeavyIoWeight" \in AutopilotAction
  BY DEF AutopilotAction
<1>1. <<>> \in Seq(AutopilotAction) /\ \A a : ~Chosen(<<>>, a)
  BY DEF Chosen
<1> HIDE DEF b, c, d
<1>2. /\ s1 \in Seq(AutopilotAction)
      /\ \A a : Chosen(s1, a) => b /\ a = "ReduceBrowsersLimits"
  BY <1>0, <1>1, ChosenWhen, Zenon DEF s1
<1> HIDE DEF s1
<1>3. /\ s2 \in Seq(AutopilotAction)
      /\ \A a : Chosen(s2, a) <=> (Chosen(s1, a) \/ (c /\ a = "ReduceHeavyCpuWeight"))
  BY <1>0, <1>2, ChosenWhen, Zenon DEF s2
<1> HIDE DEF s2
<1>4. /\ s3 \in Seq(AutopilotAction)
      /\ \A a : Chosen(s3, a) <=> (Chosen(s2, a) \/ (d /\ a = "ReduceHeavyIoWeight"))
  BY <1>0, <1>3, ChosenWhen, Zenon DEF s3
<1> HIDE DEF s3, e
<1>5. /\ s4 \in Seq(AutopilotAction)
      /\ \A a : Chosen(s4, a) <=> (Chosen(s3, a) \/ (e /\ a = "PreserveRescueClass"))
  BY <1>0, <1>4, ChosenWhen, Zenon DEF s4
<1>6. <<>> \o When(b, "ReduceBrowsersLimits") = When(b, "ReduceBrowsersLimits")
  BY DEF When
<1>7. TriggerActions(metrics, classes) = s4
  BY <1>6 DEF TriggerActions, s3, s2, s1, b, c, d, e
<1> HIDE DEF s4
<1>8. \A a : Chosen(s4, a) => \/ b /\ a = "ReduceBrowsersLimits"
                              \/ c /\ a = "ReduceHeavyCpuWeight"
                              \/ d /\ a = "ReduceHeavyIoWeight"
                              \/ e /\ a = "PreserveRescueClass"
  BY <1>2, <1>3, <1>4, <1>5, Zenon
<1>9. QED
  BY <1>5, <1>7, <1>8 DEF b, c, d

\* The parts of a decision have their types (autopilot.rs:47-54).
LEMMA DecisionType ==
  ASSUME NEW metrics, NEW classes, NEW state \in AutopilotState,
         NEW now \in Nat
  PROVE  LET d == decide_autopilot_actions(metrics, state, classes, now)
         IN  /\ d.actions \in Seq(AutopilotAction)
             /\ d.next_state \in AutopilotState
             /\ d.in_cooldown \in BOOLEAN
             /\ d.transition \in AutopilotTransition
<1> DEFINE d == decide_autopilot_actions(metrics, state, classes, now)
<1>1. d.in_cooldown \in BOOLEAN /\ d.transition \in AutopilotTransition
  BY DEF decide_autopilot_actions, DecideInRevertWindow, DecideRevert,
         DecideTrigger, Decision, AutopilotState, AutopilotPhase,
         AutopilotTransition
<1>2. /\ <<>> \in Seq(AutopilotAction)
      /\ <<"RevertAdaptiveLimits">> \in Seq(AutopilotAction)
      /\ TriggerActions(metrics, classes) \in Seq(AutopilotAction)
  BY TriggerChooses DEF AutopilotAction
<1>3. \/ Holds(d, state)
      \/ Reopens(d, state, now)
      \/ Reverts(d, state, now)
      \/ Triggers(d, state, metrics, classes, now)
  BY DecisionCases
<1> HIDE DEF d
<1>4. d.actions \in Seq(AutopilotAction) /\ d.next_state \in AutopilotState
  BY <1>2, <1>3 DEF Holds, Reopens, Reverts, Triggers, AutopilotState,
                    AutopilotPhase
<1>5. QED
  BY <1>1, <1>4 DEF d

\* The same of the decision of the next tick.
LEMMA DecidedKind ==
  ASSUME TypeOK
  PROVE  /\ \/ Holds(Decided, policy)
            \/ Reopens(Decided, policy, tick + 1)
            \/ Reverts(Decided, policy, tick + 1)
            \/ Triggers(Decided, policy, pressure, DOMAIN active, tick + 1)
         /\ Decided.actions \in Seq(AutopilotAction)
         /\ Decided.next_state \in AutopilotState
         /\ Decided.in_cooldown \in BOOLEAN
         /\ Decided.transition \in AutopilotTransition
<1>1. tick + 1 \in Nat /\ policy \in AutopilotState
  BY DaemonAssumption DEF TypeOK
<1>2. QED
  BY <1>1, DecisionCases, DecisionType DEF Decided

-----------------------------------------------------------------------------
(* The requests of a tick.                                                 *)

\* The members of S that are about an adaptive slice.
AdaptiveOf(S) == {x \in S : x.slice \in AdaptiveSlices}

\* What the tick would request of the active profile are requests, because
\* a class is only chosen when the profile has it, and they are about the
\* browsers or the heavy slice of that profile (daemon_service.rs:139-208).
LEMMA RequestsType ==
  ASSUME TypeOK, active \in Profiles
  PROVE  /\ Requested \in Seq(ClassLimitRequest)
         /\ Requested \in Seq(AdaptiveOf(ClassLimitRequest))
<1> DEFINE actions == Decided.actions
           b == Chosen(actions, "ReduceBrowsersLimits")
           c == Chosen(actions, "ReduceHeavyCpuWeight")
           d == Chosen(actions, "ReduceHeavyIoWeight")
<1>1. /\ DOMAIN active \subseteq Class
      /\ \A k \in DOMAIN active : active[k] \in ClassSpec
  BY DaemonAssumption
<1>2. \/ actions = <<>>
      \/ actions = <<"RevertAdaptiveLimits">>
      \/ actions = TriggerActions(pressure, DOMAIN active)
  BY DecidedKind DEF Holds, Reopens, Reverts, Triggers
<1>3. /\ b => "browsers" \in DOMAIN active
      /\ c \/ d => "heavy" \in DOMAIN active
  BY <1>2, TriggerChooses DEF Chosen
<1>4. b => BrowsersRequest(active) \in ClassLimitRequest
  <2>1. SUFFICES ASSUME b PROVE BrowsersRequest(active) \in ClassLimitRequest
    OBVIOUS
  <2>2. active["browsers"] \in ClassSpec
    BY <1>1, <1>3, <2>1
  <2>3. /\ scaled_value(active["browsers"].memory_high, 85) \in Text
        /\ scaled_value(active["browsers"].memory_max, 90) \in Text
    BY <2>2, ScaledType DEF ClassSpec
  <2>4. QED
    BY <2>2, <2>3 DEF BrowsersRequest, ClassLimitRequest, ClassLimits, ClassSpec
<1>5. c \/ d => /\ HeavyRequest(active, 70) \in ClassLimitRequest
                /\ HeavyRequest(active, 60) \in ClassLimitRequest
  BY <1>1, <1>3 DEF HeavyRequest, ClassLimitRequest, ClassLimits, ClassSpec,
                    Text, NoText
<1>6. /\ b => BrowsersRequest(active) \in AdaptiveOf(ClassLimitRequest)
      /\ c \/ d => /\ HeavyRequest(active, 70) \in AdaptiveOf(ClassLimitRequest)
                   /\ HeavyRequest(active, 60) \in AdaptiveOf(ClassLimitRequest)
  <2>1. /\ "browsers" \in DOMAIN active
             => active["browsers"].slice \in AdaptiveSlices
        /\ "heavy" \in DOMAIN active
             => active["heavy"].slice \in AdaptiveSlices
    BY DEF AdaptiveSlices
  <2>2. /\ b => BrowsersRequest(active).slice \in AdaptiveSlices
        /\ c \/ d => /\ HeavyRequest(active, 70).slice \in AdaptiveSlices
                     /\ HeavyRequest(active, 60).slice \in AdaptiveSlices
    BY <1>3, <2>1 DEF BrowsersRequest, HeavyRequest
  <2>3. QED
    BY <1>4, <1>5, <2>2 DEF AdaptiveOf
<1> HIDE DEF b, c, d
<1> DEFINE B == When(b /\ ~NoTargets(BrowsersRequest(active).target),
                     BrowsersRequest(active))
           C == When(c, HeavyRequest(active, 70))
           D == When(d, HeavyRequest(active, 60))
<1>7. /\ B \in Seq(ClassLimitRequest) /\ B \in Seq(AdaptiveOf(ClassLimitRequest))
      /\ C \in Seq(ClassLimitRequest) /\ C \in Seq(AdaptiveOf(ClassLimitRequest))
      /\ D \in Seq(ClassLimitRequest) /\ D \in Seq(AdaptiveOf(ClassLimitRequest))
  BY <1>4, <1>5, <1>6 DEF When
<1>8. Requested = B \o C \o D
  BY DEF Requested, build_requests, b, c, d
<1> HIDE DEF B, C, D
<1>9. QED
  BY <1>7, <1>8, ConcatProperties

-----------------------------------------------------------------------------
(* Types.                                                                  *)

\* The values that end a tick or a process have their types.
LEMMA ResetType ==
  /\ DefaultTick \in DaemonTick
  /\ DefaultAutopilotState \in AutopilotState
  /\ NoRecord \in LedgerRecord
  BY DEF DefaultTick, DaemonTick, DefaultAutopilotState, AutopilotState,
         AutopilotPhase, NoRecord, LedgerRecord

\* The bound on ticks is a number.
LEMMA BoundType == MaxTick \in Nat /\ 0 \in 0..MaxTick
<1>1. MaxTick \in Nat
  BY DaemonAssumption
<1>2. QED
  BY <1>1

\* No sequence is shorter than the one every list of the tick starts with.
LEMMA EmptyType ==
  /\ <<>> \in Seq(AdaptiveRevertStep)
  /\ <<>> \in Seq(ClassLimitRequest)
  /\ <<>> \in Seq(PlannedClassLimitChange)
  OBVIOUS

\* The end of a tick and the end of the process keep the types.
LEMMA EndTickType ==
  ASSUME TypeOK, EndTick \/ Stop,
         UNCHANGED <<world, mode, planned_on, base, tuned>>,
         touched' \subseteq Slice,
         used' \in [{"faults", "stops", "tunes", "switches"} -> Nat],
         ledger' \in LedgerRecord
  PROVE  TypeOK'
<1>1. /\ pc' \in PC /\ terminate' \in BOOLEAN /\ tick' \in 0..MaxTick
      /\ policy' \in AutopilotState
      /\ pending_revert' \in Seq(AdaptiveRevertStep)
  BY ResetType, EmptyType, BoundType
  DEF TypeOK, EndTick, Stop, ForgetMemory, PC, memory
<1>2. ClearLocals
  BY DEF EndTick, Stop
<1>3. QED
  BY <1>1, <1>2, ResetType, EmptyType DEF TypeOK, ClearLocals, world

\* A step that spends a budget counts it.
LEMMA SpendType ==
  ASSUME TypeOK, NEW kind \in {"faults", "stops", "tunes", "switches"},
         Spend(kind)
  PROVE  used' \in [{"faults", "stops", "tunes", "switches"} -> Nat]
  BY DEF TypeOK, Spend

\* A decided tick keeps the types of what it does not hand to the work.
LEMMA DecideType ==
  ASSUME TypeOK, Decide
  PROVE  /\ tick' \in 0..MaxTick
         /\ policy' \in AutopilotState
         /\ out' \in DaemonTick
         /\ touched' \subseteq Slice
<1>1. tick' \in 0..MaxTick /\ touched' = {} /\ policy' \in AutopilotState
  BY DaemonAssumption, DecidedKind DEF TypeOK, Decide, BeginTick
<1>2. out' = [DefaultTick EXCEPT !.had_profile = TRUE,
                                 !.in_cooldown = Decided.in_cooldown,
                                 !.transition = Decided.transition,
                                 !.decision_actions = Decided.actions]
  BY DEF Decide
<1>3. out' \in DaemonTick
  BY <1>2, ResetType, DecidedKind DEF DaemonTick
<1>4. QED
  BY <1>1, <1>3

\* The record of a tick has its type.
LEMMA RecordType ==
  ASSUME TypeOK
  PROVE  record_from_tick(tick, out) \in LedgerRecord
<1>1. decision_for_tick(out) \in {"-", "no-profile", "cooldown", "revert",
                                  "trigger", "idle"}
  BY DEF decision_for_tick, TypeOK, DaemonTick
<1>2. QED
  BY <1>1, DaemonAssumption DEF record_from_tick, LedgerRecord, TypeOK,
                                DaemonTick

\* The initial state has the types.
LEMMA TypeInit == Init => TypeOK
<1> SUFFICES ASSUME Init PROVE TypeOK
  OBVIOUS
<1>1. /\ pressure \in Metrics /\ active \in Profiles
      /\ limits \in [Slice -> Limits] /\ planned_on \in [Slice -> Limits]
      /\ base \in [Slice -> Limits]
  BY DaemonAssumption DEF Init
<1>2. used \in [{"faults", "stops", "tunes", "switches"} -> Nat]
  BY DEF Init
<1>3. QED
  BY <1>1, <1>2, ResetType, EmptyType, BoundType DEF Init, TypeOK, PC

\* Every step keeps the types.
LEMMA TypeNext == TypeOK /\ [Next]_vars => TypeOK'
<1> SUFFICES ASSUME TypeOK, [Next]_vars PROVE TypeOK'
  OBVIOUS
<1> USE DEF PC
<1>1. CASE \E m \in Modes : Start(m)
  BY <1>1 DEF Start, TypeOK, world, process, memory, locals, history
<1>2. CASE Sigint
  BY <1>2, SpendType DEF Sigint, TypeOK, world, process, memory, locals, history
<1>3. CASE ExitOnFlag
  BY <1>3, EndTickType DEF ExitOnFlag, TypeOK, history
<1>4. CASE Kill
  BY <1>4, EndTickType, SpendType DEF Kill, TypeOK, history
<1>5. CASE TickWithoutLoading
  <2>1. UNCHANGED <<world, mode, ledger, planned_on, base, tuned, used>>
    BY <1>5 DEF TickWithoutLoading
  <2>2. touched' = {} /\ ledger' \in LedgerRecord
        /\ used' \in [{"faults", "stops", "tunes", "switches"} -> Nat]
    BY <1>5, <2>1 DEF TickWithoutLoading, TypeOK
  <2>3. CASE Stop
    BY <2>1, <2>2, <2>3, EndTickType
  <2>4. CASE /\ tick' = tick + 1 /\ pc' = "loop" /\ ClearLocals
             /\ UNCHANGED <<terminate, policy, pending_revert>>
    <3>1. tick' \in 0..MaxTick
      BY <1>5, <2>4, BoundType DEF TickWithoutLoading, BeginTick, TypeOK
    <3>2. QED
      BY <2>1, <2>2, <2>4, <3>1, ResetType, EmptyType
      DEF ClearLocals, TypeOK, world
  <2>5. QED
    BY <1>5, <2>3, <2>4 DEF TickWithoutLoading
<1>6. CASE TickWithoutProfile
  BY <1>6, ResetType, DaemonAssumption
  DEF TickWithoutProfile, BeginTick, TypeOK, world, process, memory, locals, history
<1>7. CASE TickWithoutWork
  BY <1>7, DecideType DEF TickWithoutWork, Decide, TypeOK, world, process, memory, locals, history
<1>8. CASE TickReverts
  BY <1>8, DecideType DEF TickReverts, Decide, TypeOK, world, process, memory, locals, history
<1>9. CASE TickReduces
  BY <1>9, DecideType, RequestsType
  DEF TickReduces, Decide, BeginTick, TypeOK, world, process, memory, locals, history
<1>10. CASE PlanRequest
  <2> DEFINE r == Head(requests)
             current == ReadBack(limits[r.slice])
             new == When(Differs(r.target, current), PlannedChange(r, current))
  <2>1. r \in ClassLimitRequest /\ Tail(requests) \in Seq(ClassLimitRequest)
    BY <1>10, HeadTailProperties DEF PlanRequest, TypeOK
  <2>2. current \in ClassLimits
    BY <2>1, ReadBackType DEF TypeOK, ClassLimitRequest
  <2>3. PlannedChange(r, current) \in PlannedClassLimitChange
    BY <2>1, <2>2, PlannedChangeType
  <2>4. new \in Seq(PlannedClassLimitChange)
    BY <2>3 DEF When
  <2>5. changes' = changes \o new /\ requests' = Tail(requests)
    BY <1>10 DEF PlanRequest
  <2> HIDE DEF new
  <2>6. changes' \in Seq(PlannedClassLimitChange)
    BY <2>4, <2>5, ConcatProperties DEF TypeOK
  <2>7. QED
    BY <1>10, <2>1, <2>5, <2>6 DEF PlanRequest, TypeOK, world, process, memory,
                                 history
<1>11. CASE PlanDone
  BY <1>11 DEF PlanDone, TypeOK, world, process, memory, locals, history
<1>12. CASE ApplyChange
  <2> DEFINE c == Head(changes)
  <2>1. c \in PlannedClassLimitChange
        /\ Tail(changes) \in Seq(PlannedClassLimitChange)
    BY <1>12, HeadTailProperties DEF ApplyChange, TypeOK
  <2>2. /\ RevertStep(c) \in AdaptiveRevertStep
        /\ c.slice \in Slice /\ c.target \in ClassLimits
    BY <2>1, RevertStepType DEF PlannedClassLimitChange
  <2>3. SetProperties(limits[c.slice], c.target) \in Limits
    BY <2>2, SetPropertiesType DEF TypeOK
  <2>4. /\ limits' = [limits EXCEPT ![c.slice]
                        = SetProperties(limits[c.slice], c.target)]
        /\ revert_plan' = Append(revert_plan, RevertStep(c))
        /\ out' = [out EXCEPT !.applied = Append(out.applied, c.slice)]
        /\ touched' = touched \cup {c.slice}
        /\ changes' = Tail(changes)
    BY <1>12 DEF ApplyChange
  <2>5. limits' \in [Slice -> Limits]
    BY <2>3, <2>4 DEF TypeOK
  <2>6. revert_plan' \in Seq(AdaptiveRevertStep)
    BY <2>2, <2>4, AppendProperties DEF TypeOK
  <2>7. out' \in DaemonTick
    BY <2>2, <2>4, AppendProperties DEF TypeOK, DaemonTick
  <2> HIDE DEF c
  <2>8. QED
    BY <1>12, <2>1, <2>2, <2>4, <2>5, <2>6, <2>7
    DEF ApplyChange, TypeOK, process, memory
<1>13. CASE ApplyDone
  BY <1>13 DEF ApplyDone, TypeOK, world, process, memory, locals, history
<1>14. CASE RevertChange
  <2> DEFINE s == Head(steps)
  <2>1. s \in AdaptiveRevertStep /\ Tail(steps) \in Seq(AdaptiveRevertStep)
    BY <1>14, HeadTailProperties DEF RevertChange, TypeOK
  <2>2. s.slice \in Slice /\ s.restore \in ClassLimits
    BY <2>1 DEF AdaptiveRevertStep
  <2>3. SetProperties(limits[s.slice], s.restore) \in Limits
    BY <2>2, SetPropertiesType DEF TypeOK
  <2>4. /\ limits' = [limits EXCEPT ![s.slice]
                        = SetProperties(limits[s.slice], s.restore)]
        /\ out' = [out EXCEPT !.reverted = Append(out.reverted, s.slice)]
        /\ touched' = touched \cup {s.slice}
        /\ steps' = Tail(steps)
    BY <1>14 DEF RevertChange
  <2>5. limits' \in [Slice -> Limits]
    BY <2>3, <2>4 DEF TypeOK
  <2>6. out' \in DaemonTick
    BY <2>2, <2>4, AppendProperties DEF TypeOK, DaemonTick
  <2> HIDE DEF s
  <2>7. QED
    BY <1>14, <2>1, <2>2, <2>4, <2>5, <2>6
    DEF RevertChange, TypeOK, process, memory
<1>15. CASE RevertNothing
  BY <1>15, HeadTailProperties DEF RevertNothing, TypeOK, world, process, memory, locals, history
<1>16. CASE RevertDone
  BY <1>16 DEF RevertDone, TypeOK, world, process, memory, locals, history
<1>17. CASE CallFails
  BY <1>17, EndTickType, SpendType DEF CallFails, TypeOK, world, process, memory, locals, history
<1>18. CASE AppendRecord
  BY <1>18, EndTickType, RecordType DEF AppendRecord, TypeOK, world, process, memory, locals, history
<1>19. CASE AppendFails
  BY <1>19, EndTickType, SpendType DEF AppendFails, TypeOK, world, process, memory, locals, history
<1>20. CASE PressureChanges
  BY <1>20, DaemonAssumption DEF PressureChanges, TypeOK, world, process, memory, locals, history
<1>21. CASE ProfileSwitches
  BY <1>21, SpendType DEF ProfileSwitches, TypeOK, world, process, memory, locals, history
<1>22. CASE \E s \in Slice : OperatorTunes(s)
  BY <1>22, SpendType, DaemonAssumption DEF OperatorTunes, TypeOK, world, process, memory, locals, history
<1>23. CASE UNCHANGED vars
  BY <1>23 DEF TypeOK, vars, world, process, memory, locals, history
<1>24. QED
  BY <1>1, <1>2, <1>3, <1>4, <1>5, <1>6, <1>7, <1>8, <1>9, <1>10, <1>11, <1>12, <1>13, <1>14, <1>15, <1>16, <1>17, <1>18, <1>19, <1>20, <1>21, <1>22, <1>23
  DEF Next, Tick, Work, Outside

\* Every variable of the daemon always has its type.
THEOREM TypeCorrect == Spec => []TypeOK
<1>1. Init => TypeOK
  BY TypeInit
<1>2. TypeOK /\ [Next]_vars => TypeOK'
  BY TypeNext
<1>3. QED
  BY <1>1, <1>2, PTL DEF Spec

-----------------------------------------------------------------------------
(* The policy gate.                                                        *)

\* What a step can do to the tick counter and the policy state: nothing,
\* forget both, spend a tick without a decision, or decide.
LEMMA PolicySteps ==
  ASSUME [Next]_vars
  PROVE  \/ UNCHANGED <<tick, policy>>
         \/ ForgetMemory
         \/ tick' = tick + 1 /\ policy' = policy
         \/ TickWithoutWork \/ TickReverts \/ TickReduces
<1>1. CASE Tick
  BY <1>1 DEF Tick, TickWithoutLoading, TickWithoutProfile, Stop
<1>2. CASE Work
  BY <1>2 DEF Work, PlanRequest, PlanDone, ApplyChange, ApplyDone,
              RevertChange, RevertNothing, RevertDone, memory
<1>3. CASE CallFails \/ AppendRecord \/ AppendFails
  BY <1>3 DEF CallFails, AppendRecord, AppendFails, EndTick, Stop, memory
<1>4. CASE (\E m \in Modes : Start(m)) \/ Sigint \/ ExitOnFlag \/ Kill
  BY <1>4 DEF Start, Sigint, ExitOnFlag, Kill, Stop, memory
<1>5. CASE Outside
  BY <1>5 DEF Outside, PressureChanges, ProfileSwitches, OperatorTunes, memory
<1>6. CASE UNCHANGED vars
  BY <1>6 DEF vars, memory
<1>7. QED
  BY <1>1, <1>2, <1>3, <1>4, <1>5, <1>6 DEF Next

\* The gate after a decision: with it closed or not, the next state is as
\* far from the last trigger and the last revert as its phase demands.
LEMMA DecideGate ==
  ASSUME TypeOK, PolicyGate, tick' = tick + 1, policy' = Decided.next_state
  PROVE  PolicyGate'
<1>1. /\ tick \in Nat /\ policy \in AutopilotState
      /\ autopilot_cooldown_ticks \in Nat
      /\ autopilot_revert_window_ticks \in Nat
  BY BoundType, WindowAssumption DEF TypeOK
<1>2. CASE Holds(Decided, policy)
  BY <1>1, <1>2 DEF Holds, PolicyGate, AutopilotState, AutopilotPhase, None
<1>3. CASE Reopens(Decided, policy, tick + 1)
  BY <1>1, <1>3 DEF Reopens, Closed, Within, SaturatingSub, PolicyGate,
                    AutopilotState, AutopilotPhase, None
<1>4. CASE Reverts(Decided, policy, tick + 1)
  BY <1>1, <1>4 DEF Reverts, Closed, Within, SaturatingSub, PolicyGate,
                    AutopilotState, AutopilotPhase, None
<1>5. CASE Triggers(Decided, policy, pressure, DOMAIN active, tick + 1)
  BY <1>1, <1>5 DEF Triggers, Closed, Within, SaturatingSub, PolicyGate,
                    AutopilotState, AutopilotPhase, None
<1>6. QED
  BY <1>2, <1>3, <1>4, <1>5, DecidedKind

\* Every step keeps the gate.
LEMMA GateNext == TypeOK /\ PolicyGate /\ [Next]_vars => PolicyGate'
<1> SUFFICES ASSUME TypeOK, PolicyGate, [Next]_vars PROVE PolicyGate'
  OBVIOUS
<1>1. CASE UNCHANGED <<tick, policy>>
  BY <1>1 DEF PolicyGate
<1>2. CASE ForgetMemory
  BY <1>2 DEF PolicyGate, ForgetMemory, DefaultAutopilotState, None
<1>3. CASE tick' = tick + 1 /\ policy' = policy
  <2>1. /\ tick \in Nat /\ policy \in AutopilotState
        /\ autopilot_cooldown_ticks \in Nat /\ autopilot_revert_window_ticks \in Nat
    BY BoundType, WindowAssumption DEF TypeOK
  <2>2. /\ policy.phase \in AutopilotPhase
        /\ {policy.last_action_tick, policy.last_revert_tick} \subseteq Nat \cup {None}
    BY <2>1 DEF AutopilotState
  <2>3. /\ tick' = tick + 1 /\ policy' = policy
    BY <1>3
  <2>4. QED
    BY <2>1, <2>2, <2>3 DEF PolicyGate, None
<1>4. CASE TickWithoutWork \/ TickReverts \/ TickReduces
  BY <1>4, DecideGate DEF TickWithoutWork, TickReverts, TickReduces, Decide
<1>5. QED
  BY <1>1, <1>2, <1>3, <1>4, PolicySteps

\* The gate holds in every state of the daemon, whatever fails, and however
\* often it is restarted, signalled or given another profile
\* (autopilot.rs:78-123).
THEOREM GateHolds == Spec => []PolicyGate
<1>1. Init => PolicyGate
  BY DEF Init, PolicyGate, DefaultAutopilotState, None
<1>2. TypeOK /\ PolicyGate /\ [Next]_vars => PolicyGate'
  BY GateNext
<1>3. QED
  BY <1>1, <1>2, TypeCorrect, PTL DEF Spec

\* Without an action nothing is requested.
LEMMA NothingRequested == Decided.actions = <<>> => Requested = <<>>
<1> SUFFICES ASSUME Decided.actions = <<>> PROVE Requested = <<>>
  OBVIOUS
<1>1. \A a : ~Chosen(Decided.actions, a)
  BY DEF Chosen
<1>2. Requested = <<>> \o <<>> \o <<>>
  BY <1>1 DEF Requested, build_requests, When
<1>3. QED
  BY <1>2

\* A tick that reduces limits has a trigger as its decision.
LEMMA ReducesByTrigger ==
  ASSUME TypeOK, TickReduces
  PROVE  Triggers(Decided, policy, pressure, DOMAIN active, tick + 1)
<1>1. CASE Decided.actions = <<>>
  BY <1>1, NothingRequested DEF TickReduces
<1>2. CASE Decided.actions = <<"RevertAdaptiveLimits">>
  BY <1>2 DEF TickReduces, Reverting, Chosen
<1>3. QED
  BY <1>1, <1>2, DecidedKind DEF Holds, Reopens, Reverts

\* No reduction comes early: the cooldown and the revert window separate it
\* from the last trigger and the last revert, over every interleaving with
\* failures, restarts and profile changes (autopilot.rs:78-112).
THEOREM NoThrashing == Spec => ThrashFree
<1> DEFINE Late ==
      /\ policy.last_action_tick # None
           => tick' - policy.last_action_tick >= autopilot_cooldown_ticks
      /\ policy.last_revert_tick # None
           => tick' - policy.last_revert_tick > autopilot_revert_window_ticks
<1>1. ASSUME TypeOK, PolicyGate, TickReduces
      PROVE  Late
  <2>1. /\ tick \in Nat /\ policy \in AutopilotState
        /\ autopilot_cooldown_ticks \in Nat
        /\ autopilot_revert_window_ticks \in Nat
    BY <1>1, BoundType, WindowAssumption DEF TypeOK
  <2>2. tick' = tick + 1
    BY <1>1 DEF TickReduces, Decide
  <2>3. Triggers(Decided, policy, pressure, DOMAIN active, tick + 1)
    BY <1>1, ReducesByTrigger
  <2>4. QED
    BY <1>1, <2>1, <2>2, <2>3
    DEF Triggers, Closed, Within, SaturatingSub, PolicyGate, AutopilotState,
        AutopilotPhase, None
<1>2. TypeOK /\ PolicyGate /\ [Next]_vars => [TickReduces => Late]_vars
  BY <1>1
<1>3. QED
  BY <1>2, TypeCorrect, GateHolds, PTL DEF Spec, ThrashFree

\* A decision is a step of ReductionGate.
LEMMA DecideImplements ==
  ASSUME TypeOK, PolicyGate, tick' = tick + 1, policy' = Decided.next_state
  PROVE  Gate!GateNext
<1>1. /\ tick \in Nat /\ policy \in AutopilotState
      /\ autopilot_cooldown_ticks \in Nat
      /\ autopilot_revert_window_ticks \in Nat
  BY BoundType, WindowAssumption DEF TypeOK
<1>2. CASE Holds(Decided, policy)
  BY <1>1, <1>2 DEF Holds, Gate!GateNext, Gate!Pass
<1>3. CASE Reopens(Decided, policy, tick + 1)
  BY <1>1, <1>3 DEF Reopens, AutopilotState, Gate!GateNext, Gate!Pass
<1>4. CASE Reverts(Decided, policy, tick + 1)
  <2>1. Gate!Revert
    BY <1>1, <1>4
    DEF Reverts, Closed, Within, SaturatingSub, PolicyGate, AutopilotState,
        AutopilotPhase, None, Gate!Revert
  <2>2. QED
    BY <2>1 DEF Gate!GateNext
<1>5. CASE Triggers(Decided, policy, pressure, DOMAIN active, tick + 1)
  <2>1. Gate!Reduce
    BY <1>1, <1>5
    DEF Triggers, Closed, Within, SaturatingSub, PolicyGate, AutopilotState,
        AutopilotPhase, None, Gate!Reduce, Gate!Open
  <2>2. QED
    BY <2>1 DEF Gate!GateNext
<1>6. QED
  BY <1>2, <1>3, <1>4, <1>5, DecidedKind

\* The daemon implements ReductionGate: reductions and reverts alternate
\* behind their windows, and only a restart forgets them
\* (autopilot.rs:64-167 under main.rs:194-274).
THEOREM GateImplemented == Spec => ImplementsGate
<1>1. Init => Gate!GateInit
  BY DEF Init, DefaultAutopilotState, Gate!GateInit
<1>2. TypeOK /\ PolicyGate /\ [Next]_vars => [Gate!GateNext]_(Gate!gate)
  <2> SUFFICES ASSUME TypeOK, PolicyGate, [Next]_vars
               PROVE  Gate!GateNext \/ UNCHANGED Gate!gate
    OBVIOUS
  <2>1. CASE UNCHANGED <<tick, policy>>
    BY <2>1 DEF Gate!gate
  <2>2. CASE ForgetMemory
    BY <2>2 DEF ForgetMemory, DefaultAutopilotState, Gate!GateNext,
                Gate!Restart
  <2>3. CASE tick' = tick + 1 /\ policy' = policy
    BY <2>3 DEF Gate!GateNext, Gate!Pass
  <2>4. CASE TickWithoutWork \/ TickReverts \/ TickReduces
    BY <2>4, DecideImplements
    DEF TickWithoutWork, TickReverts, TickReduces, Decide
  <2>5. QED
    BY <2>1, <2>2, <2>3, <2>4, PolicySteps
<1>3. QED
  BY <1>1, <1>2, TypeCorrect, GateHolds, PTL
  DEF Spec, ImplementsGate, Gate!GateSpec

-----------------------------------------------------------------------------
(* Which slices the daemon touches.                                        *)

\* Everything the daemon is about to apply or to revert is about an adaptive
\* slice, under whatever profile it was requested.
AdaptiveOnly ==
  /\ requests \in Seq(AdaptiveOf(ClassLimitRequest))
  /\ changes \in Seq(AdaptiveOf(PlannedClassLimitChange))
  /\ revert_plan \in Seq(AdaptiveOf(AdaptiveRevertStep))
  /\ steps \in Seq(AdaptiveOf(AdaptiveRevertStep))
  /\ pending_revert \in Seq(AdaptiveOf(AdaptiveRevertStep))

\* A step that hands no request, change or revert step on, or drops them,
\* keeps AdaptiveOnly.
LEMMA ClearAdaptive ==
  ASSUME AdaptiveOnly,
         ClearLocals \/ UNCHANGED locals,
         ForgetMemory \/ UNCHANGED pending_revert
  PROVE  AdaptiveOnly'
<1>1. /\ <<>> \in Seq(AdaptiveOf(AdaptiveRevertStep))
      /\ <<>> \in Seq(AdaptiveOf(ClassLimitRequest))
      /\ <<>> \in Seq(AdaptiveOf(PlannedClassLimitChange))
  OBVIOUS
<1>2. QED
  BY <1>1 DEF AdaptiveOnly, ClearLocals, ForgetMemory, locals

\* Every step keeps AdaptiveOnly.
LEMMA AdaptiveNext ==
  TypeOK /\ AdaptiveOnly /\ [Next]_vars => AdaptiveOnly'
<1> SUFFICES ASSUME TypeOK, AdaptiveOnly, [Next]_vars PROVE AdaptiveOnly'
  OBVIOUS
<1>1. CASE TickReduces
  BY <1>1, RequestsType DEF TickReduces, Decide, BeginTick, AdaptiveOnly
<1>2. CASE TickReverts
  BY <1>2 DEF TickReverts, Decide, AdaptiveOnly
<1>3. CASE TickWithoutWork
  BY <1>3 DEF TickWithoutWork, Decide, AdaptiveOnly
<1>4. CASE TickWithoutLoading \/ TickWithoutProfile
  BY <1>4, ClearAdaptive DEF TickWithoutLoading, TickWithoutProfile, Stop
<1>5. CASE PlanRequest
  <2> DEFINE r == Head(requests)
             current == ReadBack(limits[r.slice])
             new == When(Differs(r.target, current), PlannedChange(r, current))
  <2>1. /\ r \in AdaptiveOf(ClassLimitRequest)
        /\ Tail(requests) \in Seq(AdaptiveOf(ClassLimitRequest))
    BY <1>5, HeadTailProperties DEF PlanRequest, AdaptiveOnly
  <2>2. current \in ClassLimits
    BY <2>1, ReadBackType DEF TypeOK, ClassLimitRequest, AdaptiveOf
  <2>3. PlannedChange(r, current) \in AdaptiveOf(PlannedClassLimitChange)
    BY <2>1, <2>2, PlannedChangeType DEF AdaptiveOf
  <2>4. new \in Seq(AdaptiveOf(PlannedClassLimitChange))
    BY <2>3 DEF When
  <2>5. changes' = changes \o new /\ requests' = Tail(requests)
    BY <1>5 DEF PlanRequest
  <2> HIDE DEF new
  <2>6. changes' \in Seq(AdaptiveOf(PlannedClassLimitChange))
    BY <2>4, <2>5, ConcatProperties DEF AdaptiveOnly
  <2>7. QED
    BY <1>5, <2>1, <2>5, <2>6 DEF PlanRequest, AdaptiveOnly, memory
<1>6. CASE ApplyChange
  <2>1. /\ Head(changes) \in AdaptiveOf(PlannedClassLimitChange)
        /\ Tail(changes) \in Seq(AdaptiveOf(PlannedClassLimitChange))
    BY <1>6, HeadTailProperties DEF ApplyChange, AdaptiveOnly
  <2>2. RevertStep(Head(changes)) \in AdaptiveOf(AdaptiveRevertStep)
    BY <2>1, RevertStepType DEF AdaptiveOf
  <2>3. /\ revert_plan' = Append(revert_plan, RevertStep(Head(changes)))
        /\ changes' = Tail(changes)
    BY <1>6 DEF ApplyChange
  <2>4. revert_plan' \in Seq(AdaptiveOf(AdaptiveRevertStep))
    BY <2>2, <2>3, AppendProperties DEF AdaptiveOnly
  <2>5. QED
    BY <1>6, <2>1, <2>3, <2>4 DEF ApplyChange, AdaptiveOnly, memory
<1>7. CASE ApplyDone
  BY <1>7 DEF ApplyDone, AdaptiveOnly, locals
<1>8. CASE RevertChange \/ RevertNothing
  <2>1. /\ steps' = Tail(steps)
        /\ Tail(steps) \in Seq(AdaptiveOf(AdaptiveRevertStep))
    BY <1>8, HeadTailProperties DEF RevertChange, RevertNothing, AdaptiveOnly
  <2>2. QED
    BY <1>8, <2>1 DEF RevertChange, RevertNothing, AdaptiveOnly, memory
<1>9. CASE RevertDone
  <2>1. <<>> \in Seq(AdaptiveOf(AdaptiveRevertStep))
    OBVIOUS
  <2>2. QED
    BY <1>9, <2>1 DEF RevertDone, AdaptiveOnly, locals
<1>10. CASE PlanDone
  BY <1>10, ClearAdaptive DEF PlanDone, memory
<1>11. CASE CallFails \/ AppendRecord \/ AppendFails
  BY <1>11, ClearAdaptive
  DEF CallFails, AppendRecord, AppendFails, EndTick, Stop, memory
<1>12. CASE (\E m \in Modes : Start(m)) \/ Sigint \/ ExitOnFlag \/ Kill
  BY <1>12, ClearAdaptive DEF Start, Sigint, ExitOnFlag, Kill, Stop, memory
<1>13. CASE Outside
  BY <1>13, ClearAdaptive
  DEF Outside, PressureChanges, ProfileSwitches, OperatorTunes, memory
<1>14. CASE UNCHANGED vars
  BY <1>14, ClearAdaptive DEF vars, memory
<1>15. QED
  BY <1>1, <1>2, <1>3, <1>4, <1>5, <1>6, <1>7, <1>8, <1>9, <1>10, <1>11,
     <1>12, <1>13, <1>14
  DEF Next, Tick, Work

-----------------------------------------------------------------------------
(* What a tick records.                                                    *)

\* A tick that reduces and a tick that reverts, as out describes them.
ReducingTick ==
  /\ out.had_profile /\ ~out.in_cooldown
  /\ out.decision_actions # <<>>
  /\ ~Chosen(out.decision_actions, "RevertAdaptiveLimits")
  /\ out.reverted = <<>>

RevertingTick ==
  /\ out.had_profile /\ ~out.in_cooldown
  /\ Chosen(out.decision_actions, "RevertAdaptiveLimits")
  /\ out.applied = <<>>

\* The plan has a step for every slice, in their order.
Covers(plan, slices) ==
  /\ Len(plan) = Len(slices)
  /\ \A i \in DOMAIN slices : plan[i].slice = slices[i]

AtRest == pc \in {"off", "loop"}

\* A tick starts with empty lists, is a reduction or a revert but never both,
\* writes down every slice it touches and plans to revert what it applies.
TickInv ==
  /\ AtRest => changes = <<>> /\ revert_plan = <<>>
  /\ pc \in {"plan", "apply"} => ReducingTick /\ Covers(revert_plan, out.applied)
  /\ pc = "revert" => RevertingTick
  /\ pc = "record" =>
       \/ out.applied = <<>> /\ out.reverted = <<>>
       \/ ReducingTick /\ Covers(pending_revert, out.applied)
       \/ RevertingTick
  /\ ~AtRest => touched = ToSet(out.applied) \cup ToSet(out.reverted)

-----------------------------------------------------------------------------
(* What is pending restores what was there.                                *)

\* A revert step carries the limits that its slice has in lims.
Carries(step, lims) ==
  LET r == step.restore
      l == lims[step.slice]
  IN  /\ r.memory_high # NoText => Stored(r.memory_high) = l.memory_high
      /\ r.memory_max # NoText => Stored(r.memory_max) = l.memory_max
      /\ r.cpu_weight # None => r.cpu_weight = l.cpu_weight

\* The properties a revert step is about have their old values again.
Restored(step) ==
  LET r == step.restore
      l == limits[step.slice]
      b == base[step.slice]
  IN  /\ r.memory_high # NoText => l.memory_high = b.memory_high
      /\ r.memory_max # NoText => l.memory_max = b.memory_max
      /\ r.cpu_weight # None => l.cpu_weight = b.cpu_weight

\* Slices the operator has changed apart: what is planned was read when
\* nothing had been changed, what is pending carries the limits from before
\* the reduction, and a step of a revert is still ahead or its slice has them
\* back.
RevertInv ==
  /\ pc = "plan" => \A s \in Slice \ tuned : limits[s] = planned_on[s]
  /\ pc \in {"plan", "apply"} =>
       /\ \A c \in ToSet(changes) :
            c.slice \notin tuned => c.previous = ReadBack(planned_on[c.slice])
       /\ \A step \in ToSet(revert_plan) :
            step.slice \notin tuned => Carries(step, planned_on)
  /\ \A step \in ToSet(pending_revert) :
       step.slice \notin tuned => Carries(step, base)
  /\ pc = "revert" =>
       /\ ToSet(steps) \subseteq ToSet(pending_revert)
       /\ \A step \in ToSet(pending_revert) \ ToSet(steps) :
            step.slice \notin tuned => Restored(step)

\* The members of a sequence that grows, or loses its head.
LEMMA ToSetEmpty == ToSet(<<>>) = {}
  BY DEF ToSet

LEMMA ToSetAppend ==
  ASSUME NEW S, NEW seq \in Seq(S), NEW e \in S
  PROVE  ToSet(Append(seq, e)) = ToSet(seq) \cup {e}
  BY AppendProperties DEF ToSet

LEMMA ToSetMember ==
  ASSUME NEW S, NEW seq \in Seq(S), NEW x \in ToSet(seq)
  PROVE  x \in S
  BY DEF ToSet

LEMMA ToSetTail ==
  ASSUME NEW S, NEW seq \in Seq(S), seq # <<>>
  PROVE  ToSet(seq) = {Head(seq)} \cup ToSet(Tail(seq))
<1>1. /\ Head(seq) = seq[1] /\ Len(Tail(seq)) = Len(seq) - 1
      /\ \A i \in 1..Len(Tail(seq)) : Tail(seq)[i] = seq[i + 1]
      /\ Tail(seq) \in Seq(S)
  BY HeadTailProperties
<1>2. /\ DOMAIN seq = 1..Len(seq) /\ Len(seq) \in Nat \ {0}
      /\ DOMAIN Tail(seq) = 1..(Len(seq) - 1)
  BY <1>1, LenProperties, EmptySeq
<1>3. \A i \in 1..Len(seq) : i = 1 \/ i - 1 \in 1..(Len(seq) - 1)
  BY <1>2
<1>4. \A i \in 1..(Len(seq) - 1) : i + 1 \in 1..Len(seq)
  BY <1>2
<1>5. ASSUME NEW x \in ToSet(seq) PROVE x \in {Head(seq)} \cup ToSet(Tail(seq))
  <2>1. PICK i \in 1..Len(seq) : x = seq[i]
    BY <1>2, <1>5 DEF ToSet
  <2>2. CASE i = 1
    BY <1>1, <2>1, <2>2
  <2>3. CASE i # 1
    <3>1. i - 1 \in 1..(Len(seq) - 1) /\ (i - 1) + 1 = i
      BY <1>3, <2>3
    <3>2. Tail(seq)[i - 1] = x
      BY <1>1, <1>2, <2>1, <3>1
    <3> QED BY <1>2, <3>1, <3>2 DEF ToSet
  <2> QED BY <2>2, <2>3
<1>6. Head(seq) \in ToSet(seq)
  BY <1>1, <1>2 DEF ToSet
<1>7. ToSet(Tail(seq)) \subseteq ToSet(seq)
  BY <1>1, <1>2, <1>4 DEF ToSet
<1> QED BY <1>5, <1>6, <1>7

LEMMA ToSetWhen ==
  ASSUME NEW S, NEW seq \in Seq(S), NEW condition, NEW e \in S
  PROVE  \A x \in ToSet(seq \o When(condition, e)) : x \in ToSet(seq) \/ x = e
<1>1. CASE condition
  <2>1. seq \o When(condition, e) = Append(seq, e)
    BY <1>1, AppendIsConcat DEF When
  <2> QED BY <2>1, ToSetAppend
<1>2. CASE ~condition
  <2>1. seq \o When(condition, e) = seq
    BY <1>2, ConcatEmptySeq DEF When
  <2> QED BY <2>1
<1> QED BY <1>1, <1>2

\* A plan that covers slices still does with one more of each.
LEMMA CoversAppend ==
  ASSUME NEW plan \in Seq(AdaptiveRevertStep), NEW slices \in Seq(Slice),
         NEW step \in AdaptiveRevertStep, Covers(plan, slices)
  PROVE  Covers(Append(plan, step), Append(slices, step.slice))
<1>1. step.slice \in Slice
  BY DEF AdaptiveRevertStep
<1>2. /\ Len(Append(plan, step)) = Len(plan) + 1
      /\ Append(plan, step)[Len(plan) + 1] = step
      /\ \A i \in 1..Len(plan) : Append(plan, step)[i] = plan[i]
  BY AppendProperties
<1>3. /\ Len(Append(slices, step.slice)) = Len(slices) + 1
      /\ DOMAIN Append(slices, step.slice) = 1..(Len(slices) + 1)
      /\ Append(slices, step.slice)[Len(slices) + 1] = step.slice
      /\ \A i \in 1..Len(slices) : Append(slices, step.slice)[i] = slices[i]
  BY <1>1, AppendProperties, LenProperties
<1>4. DOMAIN slices = 1..Len(slices) /\ Len(slices) \in Nat
  BY LenProperties
<1>5. \A i \in 1..(Len(slices) + 1) : i \in 1..Len(slices) \/ i = Len(slices) + 1
  BY <1>4
<1> QED BY <1>2, <1>3, <1>4, <1>5 DEF Covers

\* A step that ends the tick, or the process, keeps both invariants.
LEMMA RestKeeps ==
  ASSUME RevertInv, pc' \in {"off", "loop"}, changes' = <<>>, revert_plan' = <<>>,
         pending_revert' \in {pending_revert, <<>>}, UNCHANGED <<base, tuned>>
  PROVE  TickInv' /\ RevertInv'
<1>1. TickInv'
  BY DEF TickInv, AtRest
<1>2. pc' # "plan" /\ pc' # "apply" /\ pc' # "revert"
  OBVIOUS
<1>3. \A step \in ToSet(pending_revert') : step.slice \notin tuned' => Carries(step, base')
  BY ToSetEmpty DEF RevertInv
<1> QED BY <1>1, <1>2, <1>3 DEF RevertInv

\* What a tick starts with once it has decided (daemon_service.rs:226-250).
LEMMA DecideStarts ==
  ASSUME TypeOK, TickInv, Decide
  PROVE  /\ out'.had_profile /\ out'.in_cooldown = Decided.in_cooldown
         /\ out'.decision_actions = Decided.actions
         /\ out'.applied = <<>> /\ out'.reverted = <<>>
         /\ touched' = {} /\ touched' = ToSet(out'.applied) \cup ToSet(out'.reverted)
         /\ pc = "loop" /\ changes' = <<>> /\ revert_plan' = <<>>
         /\ UNCHANGED <<limits, pending_revert, base, tuned>>
<1>1. out' = [DefaultTick EXCEPT !.had_profile = TRUE,
                                 !.in_cooldown = Decided.in_cooldown,
                                 !.transition = Decided.transition,
                                 !.decision_actions = Decided.actions]
  BY DEF Decide
<1>2. /\ out'.had_profile /\ out'.in_cooldown = Decided.in_cooldown
      /\ out'.decision_actions = Decided.actions
      /\ out'.applied = <<>> /\ out'.reverted = <<>>
  BY <1>1 DEF DefaultTick
<1>3. /\ touched' = {} /\ pc = "loop"
      /\ UNCHANGED <<limits, pending_revert, base, tuned, changes, revert_plan>>
  BY DEF Decide, BeginTick, world
<1>4. touched' = ToSet(out'.applied) \cup ToSet(out'.reverted)
  BY <1>2, <1>3, ToSetEmpty
<1> QED BY <1>2, <1>3, <1>4 DEF TickInv, AtRest

\* The lists of the work and the limits of a step have their types.
LEMMA StepTypes ==
  ASSUME TypeOK, NEW step \in AdaptiveRevertStep
  PROVE  /\ step.slice \in Slice /\ step.restore \in ClassLimits
         /\ limits[step.slice] \in Limits
  BY DEF TypeOK, AdaptiveRevertStep

\* One call to reduce: its slice is covered by the revert plan, whose new step
\* carries what was read (adaptive.rs:148-174).
LEMMA ApplyKeeps ==
  ASSUME TypeOK, TickInv, RevertInv, ApplyChange
  PROVE  TickInv' /\ RevertInv'
<1> DEFINE c == Head(changes)
           step == RevertStep(c)
<1>1. /\ changes \in Seq(PlannedClassLimitChange) /\ changes # <<>>
      /\ revert_plan \in Seq(AdaptiveRevertStep)
      /\ out.applied \in Seq(Slice) /\ out \in DaemonTick
  BY DEF ApplyChange, TypeOK, DaemonTick
<1>2. c \in PlannedClassLimitChange /\ Tail(changes) \in Seq(PlannedClassLimitChange)
  BY <1>1, HeadTailProperties
<1>3. step \in AdaptiveRevertStep /\ step.slice = c.slice /\ c.slice \in Slice
  BY <1>2, RevertStepType DEF PlannedClassLimitChange
<1>4. /\ pc = "apply" /\ pc' = "apply" /\ revert_plan' = Append(revert_plan, step)
      /\ changes' = Tail(changes) /\ touched' = touched \cup {c.slice}
      /\ out' = [out EXCEPT !.applied = Append(@, c.slice)]
      /\ UNCHANGED <<pending_revert, planned_on, base, tuned>>
  BY DEF ApplyChange, process, memory
<1>5. c \in ToSet(changes) /\ ToSet(changes') \subseteq ToSet(changes)
  BY <1>1, <1>4, ToSetTail
<1>6. ToSet(revert_plan') = ToSet(revert_plan) \cup {step}
  BY <1>1, <1>3, <1>4, ToSetAppend
<1>7. c.slice \notin tuned => Carries(step, planned_on)
  <2>1. SUFFICES ASSUME c.slice \notin tuned PROVE Carries(step, planned_on)
    OBVIOUS
  <2>2. c.previous = ReadBack(planned_on[c.slice])
    BY <1>4, <1>5, <2>1 DEF RevertInv
  <2>3. planned_on[c.slice] \in Limits
    BY <1>3 DEF TypeOK
  <2> HIDE DEF c
  <2>4. /\ step.slice = c.slice
        /\ step.restore.memory_high \in {c.previous.memory_high, NoText}
        /\ step.restore.memory_max \in {c.previous.memory_max, NoText}
        /\ step.restore.cpu_weight \in {c.previous.cpu_weight, None}
    BY DEF step, RevertStep
  <2>5. c.previous.cpu_weight = planned_on[c.slice].cpu_weight
    BY <2>2 DEF ReadBack
  <2>6. /\ Stored(c.previous.memory_high) = planned_on[c.slice].memory_high
        /\ Stored(c.previous.memory_max) = planned_on[c.slice].memory_max
    BY <2>2, <2>3, ReadRestores
  <2> QED BY <2>4, <2>5, <2>6 DEF Carries
<1>8. /\ out'.applied = Append(out.applied, c.slice) /\ out'.reverted = out.reverted
      /\ out'.had_profile = out.had_profile /\ out'.in_cooldown = out.in_cooldown
      /\ out'.decision_actions = out.decision_actions
  BY <1>1, <1>4 DEF DaemonTick
<1> HIDE DEF c, step
<1>9. ReducingTick' /\ Covers(revert_plan', out'.applied)
  <2>1. ReducingTick /\ Covers(revert_plan, out.applied)
    BY <1>4 DEF TickInv
  <2>2. Covers(Append(revert_plan, step), Append(out.applied, step.slice))
    BY <1>1, <1>3, <2>1, CoversAppend
  <2> QED BY <1>3, <1>4, <1>8, <2>1, <2>2 DEF ReducingTick
<1>10. touched' = ToSet(out'.applied) \cup ToSet(out'.reverted)
  <2>1. ToSet(out'.applied) = ToSet(out.applied) \cup {c.slice}
    BY <1>1, <1>3, <1>8, ToSetAppend
  <2> QED BY <1>4, <1>8, <2>1 DEF TickInv, AtRest
<1>11. TickInv'
  BY <1>4, <1>9, <1>10 DEF TickInv, AtRest
<1>12. /\ \A x \in ToSet(changes') :
            x.slice \notin tuned' => x.previous = ReadBack(planned_on'[x.slice])
       /\ \A x \in ToSet(revert_plan') : x.slice \notin tuned' => Carries(x, planned_on')
  BY <1>3, <1>4, <1>5, <1>6, <1>7 DEF RevertInv
<1>13. \A x \in ToSet(pending_revert') : x.slice \notin tuned' => Carries(x, base')
  BY <1>4 DEF RevertInv
<1> QED BY <1>4, <1>11, <1>12, <1>13 DEF RevertInv

\* One call to revert: the properties of its step have their old values, and no
\* other property loses its own (adaptive.rs:178-192).
LEMMA RevertKeeps ==
  ASSUME TypeOK, TickInv, RevertInv, RevertChange
  PROVE  TickInv' /\ RevertInv'
<1> DEFINE s == Head(steps)
<1>1. /\ steps \in Seq(AdaptiveRevertStep) /\ steps # <<>>
      /\ pending_revert \in Seq(AdaptiveRevertStep)
      /\ out.reverted \in Seq(Slice) /\ out \in DaemonTick
  BY DEF RevertChange, TypeOK, DaemonTick
<1>2. s \in AdaptiveRevertStep /\ s.slice \in Slice
  <2>1. s \in AdaptiveRevertStep
    BY <1>1, HeadTailProperties
  <2> QED BY <2>1 DEF AdaptiveRevertStep
<1>3. /\ pc = "revert" /\ pc' = "revert" /\ steps' = Tail(steps)
      /\ limits' = [limits EXCEPT ![s.slice] = SetProperties(@, s.restore)]
      /\ out' = [out EXCEPT !.reverted = Append(@, s.slice)]
      /\ touched' = touched \cup {s.slice}
      /\ UNCHANGED <<pending_revert, changes, revert_plan, planned_on, base, tuned>>
  BY DEF RevertChange, process, memory
<1>4. ToSet(steps) = {s} \cup ToSet(steps')
  BY <1>1, <1>3, ToSetTail
<1>5. /\ out'.reverted = Append(out.reverted, s.slice) /\ out'.applied = out.applied
      /\ out'.had_profile = out.had_profile /\ out'.in_cooldown = out.in_cooldown
      /\ out'.decision_actions = out.decision_actions
  BY <1>1, <1>3 DEF DaemonTick
<1> HIDE DEF s
<1>6. TickInv'
  <2>1. ToSet(out'.reverted) = ToSet(out.reverted) \cup {s.slice}
    BY <1>1, <1>2, <1>5, ToSetAppend
  <2>2. touched' = ToSet(out'.applied) \cup ToSet(out'.reverted)
    BY <1>3, <1>5, <2>1 DEF TickInv, AtRest
  <2>3. RevertingTick'
    BY <1>3, <1>5 DEF TickInv, RevertingTick
  <2> QED BY <1>3, <2>2, <2>3 DEF TickInv, AtRest
<1>7. ToSet(steps') \subseteq ToSet(pending_revert')
  BY <1>3, <1>4 DEF RevertInv
<1>8. \A x \in ToSet(pending_revert') : x.slice \notin tuned' => Carries(x, base')
  BY <1>3 DEF RevertInv
<1>9. ASSUME NEW x \in ToSet(pending_revert') \ ToSet(steps'), x.slice \notin tuned'
      PROVE  Restored(x)'
  <2>1. x \in AdaptiveRevertStep /\ x.slice \in Slice
    <3>1. x \in ToSet(pending_revert)
      BY <1>3, <1>9
    <3>2. x \in AdaptiveRevertStep
      BY <1>1, <3>1, ToSetMember
    <3> QED BY <3>2 DEF AdaptiveRevertStep
  <2>2. limits[x.slice] \in Limits /\ limits[s.slice] \in Limits
    BY <1>2, <2>1 DEF TypeOK
  <2>3. CASE x.slice # s.slice
    <3>1. limits'[x.slice] = limits[x.slice] /\ x # s
      BY <1>2, <1>3, <2>1, <2>3 DEF TypeOK
    <3>2. Restored(x)
      BY <1>3, <1>4, <1>9, <3>1 DEF RevertInv
    <3> QED BY <1>3, <3>1, <3>2 DEF Restored
  <2>4. CASE x.slice = s.slice
    <3>1. Carries(s, base)
      BY <1>3, <1>4, <1>9, <2>4 DEF RevertInv
    <3>2. limits'[x.slice] = SetProperties(limits[s.slice], s.restore)
      BY <1>2, <1>3, <2>4 DEF TypeOK
    <3>3. x = s \/ Restored(x)
      BY <1>3, <1>4, <1>9 DEF RevertInv
    <3>4. /\ limits'[x.slice].memory_high = IF s.restore.memory_high = NoText
                THEN limits[s.slice].memory_high ELSE Stored(s.restore.memory_high)
          /\ limits'[x.slice].memory_max = IF s.restore.memory_max = NoText
                THEN limits[s.slice].memory_max ELSE Stored(s.restore.memory_max)
          /\ limits'[x.slice].cpu_weight = IF s.restore.cpu_weight = None
                THEN limits[s.slice].cpu_weight ELSE s.restore.cpu_weight
      BY <3>2 DEF SetProperties
    <3> QED BY <1>3, <2>4, <3>1, <3>3, <3>4 DEF Carries, Restored
  <2> QED BY <2>3, <2>4
<1> QED BY <1>3, <1>6, <1>7, <1>8, <1>9 DEF RevertInv

\* Reading one slice: what is planned to change has been read from limits that
\* the daemon has not changed since the tick began (adaptive.rs:110-137).
LEMMA PlanKeeps ==
  ASSUME TypeOK, TickInv, RevertInv, PlanRequest
  PROVE  TickInv' /\ RevertInv'
<1> DEFINE r == Head(requests)
           current == ReadBack(limits[r.slice])
           c == PlannedChange(r, current)
<1>1. /\ requests \in Seq(ClassLimitRequest) /\ requests # <<>>
      /\ changes \in Seq(PlannedClassLimitChange)
  BY DEF PlanRequest, TypeOK
<1>2. r \in ClassLimitRequest
  BY <1>1, HeadTailProperties
<1>3. r.slice \in Slice /\ limits[r.slice] \in Limits
  BY <1>2 DEF ClassLimitRequest, TypeOK
<1>4. c \in PlannedClassLimitChange /\ c.slice = r.slice
  BY <1>2, <1>3, ReadBackType, PlannedChangeType
<1>5. /\ pc = "plan" /\ pc' = "plan"
      /\ changes' = changes \o When(Differs(r.target, current), c)
      /\ UNCHANGED <<limits, pending_revert, revert_plan, steps, out, planned_on, base, touched,
                     tuned>>
  BY DEF PlanRequest, world, process, memory, history
<1>6. c.previous = current
  BY DEF PlannedChange
<1> HIDE DEF c
<1>7. \A x \in ToSet(changes') : x \in ToSet(changes) \/ x = c
  BY <1>1, <1>4, <1>5, ToSetWhen
<1>8. \A x \in ToSet(changes') :
        x.slice \notin tuned => x.previous = ReadBack(planned_on[x.slice])
  <2>1. c.slice \notin tuned => c.previous = ReadBack(planned_on[c.slice])
    BY <1>3, <1>4, <1>5, <1>6 DEF RevertInv
  <2> QED BY <1>5, <1>7, <2>1 DEF RevertInv
<1>9. TickInv'
  BY <1>5 DEF TickInv, AtRest, ReducingTick, RevertingTick
<1>10. \A x \in ToSet(revert_plan') : x.slice \notin tuned' => Carries(x, planned_on')
  BY <1>5 DEF RevertInv
<1>11. \A x \in ToSet(pending_revert') : x.slice \notin tuned' => Carries(x, base')
  BY <1>5 DEF RevertInv
<1>12. \A s \in Slice \ tuned' : limits'[s] = planned_on'[s]
  BY <1>5 DEF RevertInv
<1> QED BY <1>5, <1>8, <1>9, <1>10, <1>11, <1>12 DEF RevertInv

\* The first step of a tick keeps both invariants.
LEMMA TickKeeps ==
  ASSUME TypeOK, TickInv, RevertInv, Tick
  PROVE  TickInv' /\ RevertInv'
<1>1. CASE TickWithoutLoading
  <2>1. /\ pc' \in {"off", "loop"} /\ changes' = <<>> /\ revert_plan' = <<>>
        /\ pending_revert' \in {pending_revert, <<>>} /\ UNCHANGED <<base, tuned>>
    BY <1>1 DEF TickWithoutLoading, Stop, ClearLocals, ForgetMemory
  <2> QED BY <2>1, RestKeeps
<1>2. CASE TickWithoutProfile
  <2>1. /\ pc' = "record" /\ touched' = {} /\ out' = DefaultTick
        /\ UNCHANGED <<limits, pending_revert, base, tuned>>
    BY <1>2 DEF TickWithoutProfile, world
  <2>2. out'.applied = <<>> /\ out'.reverted = <<>>
    BY <2>1 DEF DefaultTick
  <2>3. TickInv'
    BY <2>1, <2>2, ToSetEmpty DEF TickInv, AtRest
  <2>4. \A x \in ToSet(pending_revert') : x.slice \notin tuned' => Carries(x, base')
    BY <2>1 DEF RevertInv
  <2> QED BY <2>1, <2>3, <2>4 DEF RevertInv
<1>3. CASE TickWithoutWork
  <2>1. Decide /\ pc' = "record"
    BY <1>3 DEF TickWithoutWork
  <2>2. TickInv'
    BY <2>1, DecideStarts DEF TickInv, AtRest
  <2>3. \A x \in ToSet(pending_revert') : x.slice \notin tuned' => Carries(x, base')
    BY <2>1, DecideStarts DEF RevertInv
  <2> QED BY <2>1, <2>2, <2>3 DEF RevertInv
<1>4. CASE TickReverts
  <2>1. /\ Decide /\ pc' = "revert" /\ steps' = pending_revert
        /\ Chosen(Decided.actions, "RevertAdaptiveLimits")
    BY <1>4 DEF TickReverts, Reverting
  <2>2. Decided.in_cooldown = FALSE
    <3>1. Decided.actions # <<>>
      BY <2>1 DEF Chosen
    <3> QED BY <3>1, DecidedKind DEF Holds, Reopens, Reverts, Triggers
  <2>3. RevertingTick'
    <3>1. /\ out'.had_profile /\ out'.in_cooldown = FALSE /\ out'.applied = <<>>
          /\ out'.decision_actions = Decided.actions
      BY <2>1, <2>2, DecideStarts
    <3> QED BY <2>1, <3>1 DEF RevertingTick
  <2>4. TickInv'
    BY <2>1, <2>3, DecideStarts DEF TickInv, AtRest
  <2>5. \A x \in ToSet(pending_revert') : x.slice \notin tuned' => Carries(x, base')
    BY <2>1, DecideStarts DEF RevertInv
  <2>6. steps' = pending_revert'
    BY <2>1, DecideStarts
  <2> QED BY <2>1, <2>4, <2>5, <2>6 DEF RevertInv
<1>5. CASE TickReduces
  <2>1. /\ Decide /\ pc' = "plan" /\ planned_on' = limits
        /\ ~Chosen(Decided.actions, "RevertAdaptiveLimits") /\ Requested # <<>>
    BY <1>5 DEF TickReduces, Reverting
  <2>2. Decided.in_cooldown = FALSE
    BY <1>5, ReducesByTrigger DEF Triggers
  <2>3. ReducingTick'
    BY <2>1, <2>2, DecideStarts, NothingRequested DEF ReducingTick
  <2>4. Covers(revert_plan', out'.applied)
    BY <2>1, DecideStarts DEF Covers
  <2>5. TickInv'
    BY <2>1, <2>3, <2>4, DecideStarts DEF TickInv, AtRest
  <2>6. \A x \in ToSet(pending_revert') : x.slice \notin tuned' => Carries(x, base')
    BY <2>1, DecideStarts DEF RevertInv
  <2>7. /\ \A s \in Slice \ tuned' : limits'[s] = planned_on'[s]
        /\ ToSet(changes') = {} /\ ToSet(revert_plan') = {}
    BY <2>1, DecideStarts, ToSetEmpty
  <2> QED BY <2>1, <2>5, <2>6, <2>7 DEF RevertInv
<1> QED BY <1>1, <1>2, <1>3, <1>4, <1>5 DEF Tick

\* The work of a tick keeps both invariants.
LEMMA WorkKeeps ==
  ASSUME TypeOK, TickInv, RevertInv, Work
  PROVE  TickInv' /\ RevertInv'
<1>1. CASE PlanDone
  <2>1. /\ pc = "plan" /\ pc' = "apply"
        /\ UNCHANGED <<limits, pending_revert, changes, revert_plan, steps, out, planned_on, base,
                       touched, tuned>>
    BY <1>1 DEF PlanDone, world, memory, locals, history
  <2>2. TickInv'
    BY <2>1 DEF TickInv, AtRest, ReducingTick
  <2>3. \A x \in ToSet(pending_revert') : x.slice \notin tuned' => Carries(x, base')
    BY <2>1 DEF RevertInv
  <2> QED BY <2>1, <2>2, <2>3 DEF RevertInv
<1>2. CASE ApplyDone
  <2>1. /\ pc = "apply" /\ pc' = "record" /\ pending_revert' = revert_plan /\ base' = planned_on
        /\ UNCHANGED <<out, touched, tuned>>
    BY <1>2 DEF ApplyDone
  <2>2. TickInv'
    BY <2>1 DEF TickInv, AtRest, ReducingTick
  <2>3. \A x \in ToSet(pending_revert') : x.slice \notin tuned' => Carries(x, base')
    BY <2>1 DEF RevertInv
  <2> QED BY <2>1, <2>2, <2>3 DEF RevertInv
<1>3. CASE RevertNothing
  <2>1. /\ pc = "revert" /\ pc' = "revert" /\ steps' = Tail(steps) /\ steps # <<>>
        /\ NoTargets(Head(steps).restore)
        /\ UNCHANGED <<limits, pending_revert, changes, revert_plan, out, planned_on, base,
                       touched, tuned>>
    BY <1>3 DEF RevertNothing, world, process, memory, history
  <2>2. TickInv'
    BY <2>1 DEF TickInv, AtRest, RevertingTick
  <2>3. ToSet(steps) = {Head(steps)} \cup ToSet(steps')
    BY <2>1, ToSetTail DEF TypeOK
  <2>4. \A x \in ToSet(pending_revert') : x.slice \notin tuned' => Carries(x, base')
    BY <2>1 DEF RevertInv
  <2>5. ASSUME NEW x \in ToSet(pending_revert') \ ToSet(steps'), x.slice \notin tuned'
        PROVE  Restored(x)'
    <3>1. CASE x = Head(steps)
      BY <2>1, <3>1 DEF NoTargets, Restored
    <3>2. CASE x # Head(steps)
      <4>1. Restored(x)
        BY <2>1, <2>3, <2>5, <3>2 DEF RevertInv
      <4> QED BY <2>1, <4>1 DEF Restored
    <3> QED BY <3>1, <3>2
  <2> QED BY <2>1, <2>2, <2>3, <2>4, <2>5 DEF RevertInv
<1>4. CASE RevertDone
  <2>1. /\ pc = "revert" /\ pc' = "record" /\ pending_revert' = <<>>
        /\ UNCHANGED <<out, touched>>
    BY <1>4 DEF RevertDone, history
  <2>2. TickInv'
    BY <2>1 DEF TickInv, AtRest, RevertingTick
  <2> QED BY <2>1, <2>2, ToSetEmpty DEF RevertInv
<1> QED BY <1>1, <1>2, <1>3, <1>4, PlanKeeps, ApplyKeeps, RevertKeeps DEF Work

\* What happens beside the daemon keeps both invariants: a slice the operator
\* changes is excepted from then on.
LEMMA OutsideKeeps ==
  ASSUME TypeOK, TickInv, RevertInv,
         UNCHANGED <<pc, pending_revert, changes, revert_plan, steps, out, planned_on, base,
                     touched>>,
         tuned \subseteq tuned',
         \A s \in Slice \ tuned' : limits'[s] = limits[s]
  PROVE  TickInv' /\ RevertInv'
<1>1. TickInv'
  BY DEF TickInv, AtRest, ReducingTick, RevertingTick
<1>2. \A x \in ToSet(pending_revert') : x.slice \notin tuned' => Carries(x, base')
  BY DEF RevertInv
<1>3. ASSUME pc' = "revert", NEW x \in ToSet(pending_revert') \ ToSet(steps'),
             x.slice \notin tuned'
      PROVE  Restored(x)'
  <2>1. x.slice \in Slice
    <3>1. x \in AdaptiveRevertStep
      BY ToSetMember DEF TypeOK
    <3> QED BY <3>1 DEF AdaptiveRevertStep
  <2>2. Restored(x)
    BY <1>3 DEF RevertInv
  <2> QED BY <1>3, <2>1, <2>2 DEF Restored
<1>4. pc' = "revert" => ToSet(steps') \subseteq ToSet(pending_revert')
  BY DEF RevertInv
<1>5. pc' = "plan" => \A s \in Slice \ tuned' : limits'[s] = planned_on'[s]
  BY DEF RevertInv
<1>6. pc' \in {"plan", "apply"} =>
        /\ \A c \in ToSet(changes') :
             c.slice \notin tuned' => c.previous = ReadBack(planned_on'[c.slice])
        /\ \A step \in ToSet(revert_plan') :
             step.slice \notin tuned' => Carries(step, planned_on')
  BY DEF RevertInv
<1> QED BY <1>1, <1>2, <1>3, <1>4, <1>5, <1>6 DEF RevertInv

\* Every step keeps both invariants.
LEMMA TickRevertNext ==
  TypeOK /\ TickInv /\ RevertInv /\ [Next]_vars => TickInv' /\ RevertInv'
<1> SUFFICES ASSUME TypeOK, TickInv, RevertInv, [Next]_vars PROVE TickInv' /\ RevertInv'
  OBVIOUS
<1>1. CASE \E m \in Modes : Start(m)
  <2>1. /\ pc = "off" /\ pc' = "loop"
        /\ UNCHANGED <<changes, revert_plan, pending_revert, base, tuned>>
    BY <1>1 DEF Start, memory, locals, history
  <2> QED BY <2>1, RestKeeps DEF TickInv, AtRest
<1>2. CASE ExitOnFlag \/ Kill \/ CallFails \/ AppendRecord \/ AppendFails
  <2>1. /\ pc' \in {"off", "loop"} /\ changes' = <<>> /\ revert_plan' = <<>>
        /\ pending_revert' \in {pending_revert, <<>>} /\ UNCHANGED <<base, tuned>>
    BY <1>2 DEF ExitOnFlag, Kill, CallFails, AppendRecord, AppendFails, EndTick, Stop,
                ClearLocals, ForgetMemory, memory, history
  <2> QED BY <2>1, RestKeeps
<1>3. CASE Tick
  BY <1>3, TickKeeps
<1>4. CASE Work
  BY <1>4, WorkKeeps
<1>5. CASE Sigint \/ PressureChanges \/ ProfileSwitches \/ UNCHANGED vars
  <2>1. UNCHANGED <<pc, limits, pending_revert, changes, revert_plan, steps, out, planned_on,
                    base, touched, tuned>>
    BY <1>5 DEF Sigint, PressureChanges, ProfileSwitches, vars, world, process, memory,
                locals, history
  <2> QED BY <2>1, OutsideKeeps
<1>6. CASE \E s \in Slice : OperatorTunes(s)
  <2>1. PICK s \in Slice : OperatorTunes(s)
    BY <1>6
  <2>2. /\ UNCHANGED <<pc, pending_revert, changes, revert_plan, steps, out, planned_on, base,
                       touched>>
        /\ tuned' = tuned \cup {s}
        /\ \E l \in TunedLimits : limits' = [limits EXCEPT ![s] = l]
    BY <2>1 DEF OperatorTunes, process, memory, locals
  <2>3. \A x \in Slice \ tuned' : limits'[x] = limits[x]
    BY <2>2 DEF TypeOK
  <2> QED BY <2>2, <2>3, OutsideKeeps
<1> QED BY <1>1, <1>2, <1>3, <1>4, <1>5, <1>6 DEF Next, Outside

LEMMA TickRevertInit == Init => TickInv /\ RevertInv
  BY ToSetEmpty DEF Init, TickInv, RevertInv, AtRest

LEMMA TickRevertHold == Spec => [](TickInv /\ RevertInv)
<1> QED BY TickRevertInit, TickRevertNext, TypeCorrect, PTL DEF Spec

-----------------------------------------------------------------------------
(* The properties that rest on them.                                       *)

\* A tick that has reduced limits has the steps to revert them pending, slice
\* by slice, whatever reads or calls failed before it (daemon_service.rs:292).
THEOREM AppliedIsPendingHolds == Spec => []AppliedIsPending
<1>1. TickInv => AppliedIsPending
  BY DEF TickInv, AppliedIsPending, Covers, RevertingTick
<1> QED BY <1>1, TickRevertHold, PTL

\* The record of a tick names exactly the slices that the tick has changed and
\* calls it by what it did to them (main.rs:132-165).
THEOREM RecordTellsChangesHolds == Spec => []RecordTellsChanges
<1>1. ASSUME TypeOK, TickInv, pc = "record" PROVE RecordTellsChanges
  <2>1. touched = ToSet(out.applied) \cup ToSet(out.reverted)
    BY <1>1 DEF TickInv, AtRest
  <2>2. CASE out.applied = <<>> /\ out.reverted = <<>>
    BY <2>1, <2>2, ToSetEmpty DEF RecordTellsChanges
  <2>3. CASE ReducingTick
    <3>1. decision_for_tick(out) = "trigger"
      BY <2>3 DEF ReducingTick, decision_for_tick
    <3> QED BY <2>1, <2>3, <3>1 DEF ReducingTick, RecordTellsChanges
  <2>4. CASE RevertingTick
    <3>1. decision_for_tick(out) = "revert"
      BY <2>4 DEF RevertingTick, decision_for_tick
    <3> QED BY <2>1, <2>4, <3>1 DEF RevertingTick, RecordTellsChanges
  <2> QED BY <1>1, <2>2, <2>3, <2>4 DEF TickInv
<1>2. TypeOK /\ TickInv => RecordTellsChanges
  BY <1>1 DEF RecordTellsChanges
<1> QED BY <1>2, TypeCorrect, TickRevertHold, PTL

\* The daemon leaves every slice alone that is not the browsers or the heavy
\* slice of a profile, and a revert changes only what the reduction it reverts
\* had changed, under whatever profile it reverts (daemon_service.rs:139-208).
THEOREM OthersUntouched == Spec => OtherSlicesUntouched
<1> DEFINE Untouched ==
      limits' # limits /\ ~Outside =>
        \A s \in Slice : limits'[s] # limits[s] =>
          /\ s \in AdaptiveSlices
          /\ pc = "revert" => s \in Slices(pending_revert)
<1>1. Init => AdaptiveOnly
  <2>1. /\ <<>> \in Seq(AdaptiveOf(AdaptiveRevertStep))
        /\ <<>> \in Seq(AdaptiveOf(ClassLimitRequest))
        /\ <<>> \in Seq(AdaptiveOf(PlannedClassLimitChange))
    OBVIOUS
  <2>2. QED
    BY <2>1 DEF Init, AdaptiveOnly
<1>2. ASSUME TypeOK, AdaptiveOnly, RevertInv, [Next]_vars
      PROVE  Untouched
  <2>1. CASE ApplyChange
    <3>1. Head(changes).slice \in AdaptiveSlices
      BY <1>2, <2>1, HeadTailProperties
      DEF ApplyChange, AdaptiveOnly, AdaptiveOf
    <3>2. QED
      BY <1>2, <2>1, <3>1 DEF ApplyChange, TypeOK
  <2>2. CASE RevertChange
    <3>1. Head(steps).slice \in AdaptiveSlices
      BY <1>2, <2>2, HeadTailProperties
      DEF RevertChange, AdaptiveOnly, AdaptiveOf
    <3>2. Head(steps) \in ToSet(pending_revert)
      <4>1. Head(steps) \in ToSet(steps)
        BY <1>2, <2>2, ToSetTail DEF RevertChange, TypeOK
      <4>2. QED
        BY <1>2, <2>2, <4>1 DEF RevertChange, RevertInv
    <3>3. Head(steps).slice \in Slices(pending_revert)
      BY <3>2 DEF ToSet, Slices
    <3>4. QED
      BY <1>2, <2>2, <3>1, <3>3 DEF RevertChange, TypeOK
  <2>3. CASE Outside
    BY <2>3
  <2>4. CASE ~(ApplyChange \/ RevertChange \/ Outside)
    <3>1. limits' = limits
      BY <1>2, <2>4
      DEF Next, vars, world, Start, Sigint, ExitOnFlag, Kill, Tick,
          TickWithoutLoading, TickWithoutProfile, TickWithoutWork,
          TickReverts, TickReduces, Decide, Work, PlanRequest, PlanDone,
          ApplyDone, RevertNothing, RevertDone, CallFails, AppendRecord,
          AppendFails
    <3>2. QED
      BY <3>1
  <2>5. QED
    BY <2>1, <2>2, <2>3, <2>4
<1>3. TypeOK /\ AdaptiveOnly /\ RevertInv /\ [Next]_vars => [Untouched]_vars
  BY <1>2
<1>4. QED
  BY <1>1, <1>3, TypeCorrect, AdaptiveNext, TickRevertHold, PTL DEF Spec, OtherSlicesUntouched

\* A revert that runs to its end restores what the reduction found, however
\* often it set a property of a slice and whatever failed in between; slices
\* of the operator excepted (adaptive.rs:96-197).
THEOREM RevertRestoresBaseHolds == Spec => RevertRestoresBase
<1> DEFINE Restores ==
      RevertDone =>
        \A i \in DOMAIN pending_revert :
          LET s == pending_revert[i].slice
              r == pending_revert[i].restore
          IN  s \notin tuned =>
                /\ r.memory_high # NoText => limits[s].memory_high = base[s].memory_high
                /\ r.memory_max # NoText => limits[s].memory_max = base[s].memory_max
                /\ r.cpu_weight # None => limits[s].cpu_weight = base[s].cpu_weight
<1>1. ASSUME RevertInv PROVE Restores
  <2>1. SUFFICES ASSUME RevertDone, NEW i \in DOMAIN pending_revert,
                        pending_revert[i].slice \notin tuned
                 PROVE  Restored(pending_revert[i])
    BY DEF Restored
  <2>2. pc = "revert" /\ steps = <<>>
    BY <2>1 DEF RevertDone
  <2>3. pending_revert[i] \in ToSet(pending_revert) \ ToSet(steps)
    BY <2>1, <2>2, ToSetEmpty DEF ToSet
  <2> QED BY <1>1, <2>1, <2>2, <2>3 DEF RevertInv
<1>2. RevertInv /\ [Next]_vars => [Restores]_vars
  BY <1>1
<1> QED BY <1>2, TickRevertHold, PTL DEF Spec, RevertRestoresBase
=============================================================================
