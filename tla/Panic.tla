------------------------------- MODULE Panic -------------------------------
(***************************************************************************)
(* resguard panic: panic_mode reads the memory limits of user.slice, sets  *)
(* lower ones and, when it was given a duration, sleeps and sets back what *)
(* it read.  Nothing is locked and nothing is stored, so several panics,   *)
(* an operator and a kill may come between any two calls of systemctl.     *)
(*                                                                         *)
(* The limits are numbers of bytes or Infinity; limits is what systemd     *)
(* holds for user.slice.  A panic keeps what it has read in local.  The    *)
(* ghost variables remember what a panic started                           *)
(* from (before), whether somebody else has set limits since (disturbed),  *)
(* the stack of the panics under way, the latest on top (active), whether  *)
(* they were properly nested, each ending on top of the stack (nested),    *)
(* whose reduction is in force (owner), also when it was put back by a     *)
(* panic that had read it, and whose were in force when a panic read the   *)
(* limits (held).                                                          *)
(***************************************************************************)
EXTENDS Integers, Sequences, SequencesExt

CONSTANTS
  Panics,         \* the panic commands, each run once
  MemTotal,       \* MemTotal of /proc/meminfo, in bytes
  InitialLimits,  \* limits user.slice may have at the start
  TunedLimits,    \* limits an operator may set
  Usages,         \* values of MemoryCurrent, 0 when it is not accounted
  Durations,      \* subset of {"none", "valid", "invalid"}
  MaxTunes,       \* bound: settings by an operator
  MaxFaults,      \* bound: calls of systemctl that fail
  MaxKills        \* bound: panics that are killed

Infinity == -1
Limit    == Nat \cup {Infinity}
Limits   == [high: Limit, max: Limit]

ASSUME PanicAssumption ==
  /\ MemTotal \in Nat \ {0}
  /\ InitialLimits \subseteq Limits /\ TunedLimits \subseteq Limits
  /\ Usages \subseteq Nat
  /\ Durations \subseteq {"none", "valid", "invalid"}
  /\ {MaxTunes, MaxFaults, MaxKills} \subseteq Nat

VARIABLES
  limits,                         \* user.slice
  pc, duration, local,            \* the panics
  outcome,                        \* exit codes; "killed"
  tunes, faults, kills,           \* bounded counters
  before, disturbed, active, nested, owner, held, original  \* ghosts

ghosts == <<before, disturbed, active, nested, owner, held, original>>
counts == <<tunes, faults, kills>>
vars == <<limits, pc, duration, local, outcome, counts, ghosts>>

Outcomes == {"running", "ok", "failed", "refused", "killed"}
Reading(high, max, base) == [high |-> high, max |-> max, base |-> base]
NoLocals == Reading(Infinity, Infinity, 0)

Init ==
  /\ limits \in InitialLimits
  /\ pc = [p \in Panics |-> "idle"]
  /\ duration = [p \in Panics |-> "none"]
  /\ local = [p \in Panics |-> NoLocals]
  /\ outcome = [p \in Panics |-> "running"]
  /\ tunes = 0 /\ faults = 0 /\ kills = 0
  /\ before = [p \in Panics |-> limits]
  /\ disturbed = [p \in Panics |-> FALSE]
  /\ active = <<>> /\ nested = TRUE /\ original = limits
  /\ owner = {} /\ held = [p \in Panics |-> {}]

Goto(p, label) == pc' = [pc EXCEPT ![p] = label] /\ UNCHANGED outcome
\* The end of the process; what it has read goes with it.
Exit(p, how) ==
  /\ pc' = [pc EXCEPT ![p] = "done"]
  /\ outcome' = [outcome EXCEPT ![p] = how]
  /\ local' = [local EXCEPT ![p] = NoLocals]

\* The limits that user.slice is given: half and six tenths of the base, cut
\* to bytes.  (For sizes below 2^52 the f64 product has this integer part.)
Target(base) == [high |-> base \div 2, max |-> (base * 6) \div 10]

\* Mutant: a size of zero is not filtered out.
BaseUnfiltered(max, used) == IF max # Infinity THEN max ELSE used

\* MemoryMax when it is a positive number, or else what is in use, or else
\* the memory of the machine.
Base(max, used) == IF max > 0 THEN max ELSE IF used > 0 THEN used ELSE MemTotal

\* Mutant: the two limits are swapped, as they are passed by position.
FoundSwapped(mine) == [high |-> mine.max, max |-> mine.high]

\* What the restoring call is given: both limits as they were read.
Found(mine) == [high |-> mine.high, max |-> mine.max]

Between(q) == pc[q] \notin {"idle", "done"}

\* systemctl set-property; it disturbs everyone else who is under way.
SetLimits(new, by, reductions) ==
  /\ limits' = new
  /\ disturbed' = [q \in Panics |-> disturbed[q] \/ (q \notin by /\ Between(q))]
  /\ owner' = reductions

\* The ghosts of a panic that ends: the panics are nested when the one that
\* started last ends first and nobody sets limits between two reads of another.
\* Once they are not, the stack only counts.
Leaves(p) ==
  /\ active' = Front(active)
  /\ nested' = (nested /\ Last(active) = p)
  /\ held' = [held EXCEPT ![p] = {}]
Stays(p) ==
  /\ UNCHANGED <<active, held>>
  /\ nested' = (nested /\ \A q \in Panics : pc[q] # "read_high")
-----------------------------------------------------------------------------
\* Without root the command ends with 3 before it has read anything.
Refuse(p) ==
  /\ pc[p] = "idle"
  /\ Exit(p, "refused")
  /\ UNCHANGED <<limits, duration, counts, ghosts>>

\* The first systemctl show: MemoryMax and MemoryCurrent.
ReadMax(p) ==
  /\ pc[p] = "idle"
  /\ \E d \in Durations : duration' = [duration EXCEPT ![p] = d]
  /\ \E used \in Usages :
       local' = [local EXCEPT ![p] = Reading(@.high, limits.max, Base(limits.max, used))]
  /\ Goto(p, "read_high")
  /\ before' = [before EXCEPT ![p] = limits]
  /\ active' = Append(active, p)
  /\ held' = [held EXCEPT ![p] = owner]
  /\ UNCHANGED <<limits, counts, disturbed, nested, owner, original>>

\* Mutant: MemoryHigh is taken from the first show, which did not ask for it.
ReadHighOfFirst(p) ==
  /\ pc[p] = "read_high"
  /\ local' = [local EXCEPT ![p] = Reading(Infinity, @.max, @.base)]
  /\ Goto(p, "tighten")
  /\ UNCHANGED <<limits, duration, counts, ghosts>>

\* The second systemctl show: MemoryHigh.
ReadHigh(p) ==
  /\ pc[p] = "read_high"
  /\ local' = [local EXCEPT ![p] = Reading(limits.high, @.max, @.base)]
  /\ Goto(p, "tighten")
  /\ held' = [held EXCEPT ![p] = @ \cup owner]
  /\ UNCHANGED <<limits, duration, counts, before, disturbed, active, nested, owner, original>>

\* One systemctl set-property for both limits.  Only then is the duration
\* parsed: an invalid one ends the command with an error.
Tighten(p) ==
  /\ pc[p] = "tighten"
  /\ SetLimits(Target(local[p].base), {p}, {p})
  /\ \/ duration[p] = "none" /\ Exit(p, "ok") /\ Leaves(p)
     \/ duration[p] = "invalid" /\ Exit(p, "failed") /\ Leaves(p)
     \/ duration[p] = "valid" /\ Goto(p, "sleep") /\ Stays(p) /\ UNCHANGED local
  /\ UNCHANGED <<duration, counts, before, original>>

\* The sleep is over: systemctl set-property with what was read.
Restore(p) ==
  /\ pc[p] = "sleep"
  /\ SetLimits(Found(local[p]), {p}, held[p])
  /\ Exit(p, "ok")
  /\ Leaves(p)
  /\ UNCHANGED <<duration, counts, before, original>>

\* Mutant: the result of the last call is ignored.
CallFailsSilently(p) ==
  /\ Between(p)
  /\ faults < MaxFaults
  /\ faults' = faults + 1
  /\ Exit(p, IF pc[p] = "sleep" THEN "ok" ELSE "failed")
  /\ Leaves(p)
  /\ UNCHANGED <<limits, duration, tunes, kills>>
  /\ UNCHANGED <<before, disturbed, owner, original>>

\* Any call of systemctl may fail; panic_mode returns its error at once.
CallFails(p) ==
  /\ Between(p)
  /\ faults < MaxFaults
  /\ faults' = faults + 1
  /\ Exit(p, "failed")
  /\ Leaves(p)
  /\ UNCHANGED <<limits, duration, tunes, kills>>
  /\ UNCHANGED <<before, disturbed, owner, original>>

Kill(p) ==
  /\ Between(p)
  /\ kills < MaxKills
  /\ kills' = kills + 1
  /\ Exit(p, "killed")
  /\ Leaves(p)
  /\ UNCHANGED <<limits, duration, tunes, faults>>
  /\ UNCHANGED <<before, disturbed, owner, original>>

\* systemctl revert or set-property of an operator, the hint of a panic that
\* has no duration.
Tune ==
  /\ tunes < MaxTunes
  /\ tunes' = tunes + 1
  /\ \E new \in TunedLimits : SetLimits(new, {}, {})
  /\ UNCHANGED <<pc, duration, local, outcome, faults, kills>>
  /\ UNCHANGED <<before, active, nested, held, original>>

Run(p) == ReadMax(p) \/ ReadHigh(p) \/ Tighten(p) \/ Restore(p)

Next == Tune \/ \E p \in Panics : Run(p) \/ Refuse(p) \/ CallFails(p) \/ Kill(p)

Spec == Init /\ [][Next]_vars
-----------------------------------------------------------------------------
\* Types; what a panic works with is always a positive size.
TypeOK ==
  /\ limits \in Limits
  /\ pc \in [Panics -> {"idle", "read_high", "tighten", "sleep", "done"}]
  /\ duration \in [Panics -> {"none", "valid", "invalid"}]
  /\ original \in Limits /\ before \in [Panics -> Limits]
  /\ local \in [Panics -> [high : Limit, max : Limit, base : Nat]]
  /\ \A p \in Panics : Between(p) => local[p].base > 0
  /\ outcome \in [Panics -> Outcomes]
  /\ \A p \in Panics : pc[p] = "done" <=> outcome[p] # "running"
  /\ disturbed \in [Panics -> BOOLEAN] /\ nested \in BOOLEAN
  /\ owner \subseteq Panics /\ held \in [Panics -> SUBSET Panics] /\ active \in Seq(Panics)
  /\ tunes \in Nat /\ faults \in Nat /\ kills \in Nat

\* A panic that ends with 0 after its duration, and during which nobody else
\* has set limits, leaves user.slice with the limits it had when the panic
\* started (panic_mode: before_high and before_max come from two calls).
UndisturbedPanicRestores ==
  [][ \A p \in Panics :
        ( /\ outcome[p] = "running" /\ outcome'[p] = "ok"
          /\ duration[p] = "valid" /\ ~disturbed[p] )
        => limits' = before[p] ]_vars

\* Panics that are properly nested, one started and ended while another sleeps,
\* bring back the limits from before the first of them once all have ended,
\* if they had durations and report success and no operator came in between.
NestedPanicsRestore ==
  ( /\ active = <<>> /\ nested /\ tunes = 0
    /\ \A p \in Panics : \/ outcome[p] \in {"running", "refused"}
                         \/ outcome[p] = "ok" /\ duration[p] = "valid" )
  => limits = original

\* While panics are properly nested, a reduction never stays in force behind a
\* success: while user.slice holds what a panic has set, or another one that had
\* read it has put it back, that panic is still under way, or it had no
\* duration, or it was killed or has reported the failure (the last call of
\* panic_mode).  Panics that overlap like links of a chain are excepted: the one
\* that wakes up last restores the reduction it has read, and both report success
\* (what a panic reads it takes for the values from before, whoever set them).
ReductionIsReported ==
  nested => \A p \in owner : outcome[p] = "ok" => duration[p] = "none"
=============================================================================
