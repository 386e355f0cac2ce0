---------------------------- MODULE PanicProofs -----------------------------
(***************************************************************************)
(* Proofs about module Panic, for any number of panics, any limits and     *)
(* usages, and any number of failing calls, kills and operators.           *)
(***************************************************************************)
EXTENDS Panic, SequenceTheorems, TLAPS

\* What the panic p has read so far, while nobody else has set limits.
ReadsBefore(p) ==
  /\ pc[p] = "read_high" =>
       limits = before[p] /\ local[p].max = before[p].max
  /\ pc[p] = "tighten" =>
       limits = before[p] /\ local[p].max = before[p].max /\ local[p].high = before[p].high
  /\ pc[p] = "sleep" =>
       local[p].max = before[p].max /\ local[p].high = before[p].high

UndisturbedReads == \A p \in Panics : ~disturbed[p] => ReadsBefore(p)

\* A reduction in force, or in force when a panic under way has read the limits
\* and so to come back with it, is of a panic that has got past its first call
\* of set-property.  While panics are nested, it sleeps or has not promised to
\* give anything back.
HasReduced(q) == pc[q] \in {"sleep", "done"} /\ (pc[q] = "sleep" => duration[q] = "valid")
HasReported(q) == outcome[q] = "ok" => duration[q] = "none"

ReductionsAre(Is(_)) ==
  /\ \A q \in owner : Is(q)
  /\ \A r \in Panics : \A q \in held[r] : Is(q)

OwnerHasReduced == ReductionsAre(HasReduced)
OwnerHasReported == nested => ReductionsAre(HasReported)

\* All panics so far have been such as NestedPanicsRestore is about.
AllRestore ==
  /\ nested /\ tunes = 0
  /\ \A p \in Panics : \/ outcome[p] \in {"running", "refused"}
                       \/ outcome[p] = "ok" /\ duration[p] = "valid"

\* While panics are nested the stack holds each of those under way once, ...
StackIsActive ==
  nested =>
    /\ \A p \in Panics : Between(p) <=> \E i \in DOMAIN active : active[i] = p
    /\ \A i, j \in DOMAIN active : active[i] = active[j] => i = j

\* ... a panic has read only the reductions of those below it, ...
Below(q, r) == \E i, j \in DOMAIN active : i < j /\ active[i] = q /\ active[j] = r

HeldIsBelow ==
  nested => \A r \in Panics : \A q \in held[r] : pc[q] = "sleep" => Below(q, r)

\* ... nobody is still reading below one that sleeps, ...
ReadersAreOnTop ==
  nested => \A i, j \in DOMAIN active :
              i < j => ~(pc[active[i]] = "read_high" /\ pc[active[j]] = "sleep")

\* ... and the one at its bottom has read the limits there were at first.  It
\* is still reading only if nobody sleeps, who would set limits on waking up.
BottomHasOriginal ==
  AllRestore =>
    /\ active = <<>> => limits = original
    /\ active # <<>> =>
         LET bottom == active[1] IN
         /\ pc[bottom] = "read_high" =>
              /\ limits = original /\ local[bottom].max = original.max
              /\ \A q \in Panics : pc[q] # "sleep"
         /\ pc[bottom] \in {"tighten", "sleep"} =>
              local[bottom].max = original.max /\ local[bottom].high = original.high

Inv ==
  /\ UndisturbedReads /\ StackIsActive /\ BottomHasOriginal
  /\ OwnerHasReduced /\ OwnerHasReported /\ HeldIsBelow /\ ReadersAreOnTop
-----------------------------------------------------------------------------
(* Helpers.                                                                *)

LEMMA PopProperties ==
  ASSUME NEW S, NEW s \in Seq(S)
  PROVE  /\ Front(s) \in Seq(S)
         /\ s # <<>> => /\ Last(s) = s[Len(s)] /\ Len(s) \in Nat \ {0}
                        /\ DOMAIN Front(s) = 1..(Len(s) - 1)
                        /\ \A i \in 1..(Len(s) - 1) : Front(s)[i] = s[i]
<1>1. CASE s = <<>>
  BY <1>1 DEF Front
<1>2. CASE s # <<>>
  BY <1>2 DEF Front, Last
<1> QED BY <1>1, <1>2

\* What a panic is worked with has a positive size.
LEMMA SizeType ==
  ASSUME NEW max \in Limit, NEW used \in Nat
  PROVE  Base(max, used) \in Nat \ {0}
  BY PanicAssumption DEF Base, Limit, Infinity

LEMMA TargetType ==
  ASSUME NEW base \in Nat
  PROVE  Target(base) \in Limits
  BY DEF Target, Limits, Limit
-----------------------------------------------------------------------------
(* Types.                                                                  *)

LEMMA TypeInit == Init => TypeOK
  BY PanicAssumption DEF Init, TypeOK, Between, NoLocals, Reading, Limit, Infinity, Outcomes, Limits

LEMMA LeavesType ==
  ASSUME TypeOK, NEW p \in Panics, Leaves(p)
  PROVE  active' \in Seq(Panics) /\ nested' \in BOOLEAN /\ held' \in [Panics -> SUBSET Panics]
  BY PopProperties DEF TypeOK, Leaves

LEMMA ExitType ==
  ASSUME TypeOK, NEW p \in Panics, NEW how \in Outcomes \ {"running"}, Exit(p, how)
  PROVE  /\ pc' \in [Panics -> {"idle", "read_high", "tighten", "sleep", "done"}]
         /\ outcome' \in [Panics -> Outcomes]
         /\ local' \in [Panics -> [high : Limit, max : Limit, base : Nat]]
         /\ \A q \in Panics : pc'[q] = "done" <=> outcome'[q] # "running"
         /\ \A q \in Panics : Between(q)' => q # p /\ Between(q) /\ local'[q] = local[q]
  BY DEF TypeOK, Exit, Outcomes, NoLocals, Reading, Limit, Infinity, Between

LEMMA SetLimitsType ==
  ASSUME TypeOK, NEW new \in Limits, NEW by \in SUBSET Panics, NEW reductions \in SUBSET Panics,
         SetLimits(new, by, reductions)
  PROVE  limits' \in Limits /\ disturbed' \in [Panics -> BOOLEAN] /\ owner' \subseteq Panics
  BY DEF TypeOK, SetLimits, Between

LEMMA TypeNext == TypeOK /\ [Next]_vars => TypeOK'
<1> SUFFICES ASSUME TypeOK, [Next]_vars PROVE TypeOK'
  OBVIOUS
<1> USE DEF counts, ghosts
<1>1. CASE Tune
  <2>1. PICK new \in TunedLimits : SetLimits(new, {}, {})
    BY <1>1 DEF Tune
  <2>2. limits' \in Limits /\ disturbed' \in [Panics -> BOOLEAN] /\ owner' \subseteq Panics
    BY <2>1, SetLimitsType, PanicAssumption
  <2>3. /\ UNCHANGED <<pc, duration, local, outcome, faults, kills>>
        /\ UNCHANGED <<before, active, nested, held, original>> /\ tunes' = tunes + 1
    BY <1>1 DEF Tune
  <2> QED BY <2>2, <2>3 DEF TypeOK, Between
<1>2. ASSUME NEW p \in Panics, Refuse(p) PROVE TypeOK'
  <2>1. Exit(p, "refused") /\ UNCHANGED <<limits, duration, counts, ghosts>>
    BY <1>2 DEF Refuse
  <2> QED BY <2>1, ExitType DEF TypeOK, Outcomes
<1>3. ASSUME NEW p \in Panics, ReadMax(p) PROVE TypeOK'
  <2>1. PICK d \in Durations, used \in Usages :
          /\ duration' = [duration EXCEPT ![p] = d]
          /\ local' = [local EXCEPT ![p] = Reading(@.high, limits.max, Base(limits.max, used))]
    BY <1>3 DEF ReadMax
  <2>2. Base(limits.max, used) \in Nat \ {0} /\ limits.max \in Limit /\ d \in {"none", "valid", "invalid"}
    BY SizeType, PanicAssumption DEF TypeOK, Limits
  <2>3. local' \in [Panics -> [high : Limit, max : Limit, base : Nat]]
    BY <2>1, <2>2 DEF TypeOK, Reading
  <2>4. \A q \in Panics : Between(q)' => local'[q].base > 0
    <3>1. local'[p].base > 0 /\ \A q \in Panics \ {p} : local'[q] = local[q] /\ pc'[q] = pc[q]
      BY <1>3, <2>1, <2>2 DEF ReadMax, TypeOK, Goto, Reading
    <3> QED BY <3>1 DEF TypeOK, Between
  <2>5. active' \in Seq(Panics)
    BY <1>3 DEF ReadMax, TypeOK
  <2>6. /\ pc' = [pc EXCEPT ![p] = "read_high"] /\ before' = [before EXCEPT ![p] = limits]
        /\ pc[p] = "idle" /\ held' = [held EXCEPT ![p] = owner]
        /\ UNCHANGED <<outcome, limits, counts, disturbed, nested, owner, original>>
    BY <1>3 DEF ReadMax, Goto
  <2> QED BY <2>1, <2>2, <2>3, <2>4, <2>5, <2>6 DEF TypeOK
<1>4. ASSUME NEW p \in Panics, ReadHigh(p) PROVE TypeOK'
  <2>1. /\ pc[p] = "read_high" /\ pc' = [pc EXCEPT ![p] = "tighten"]
        /\ held' = [held EXCEPT ![p] = @ \cup owner]
        /\ UNCHANGED <<outcome, limits, duration, counts>>
        /\ UNCHANGED <<before, disturbed, active, nested, owner, original>>
    BY <1>4 DEF ReadHigh, Goto
  <2>2. local' \in [Panics -> [high : Limit, max : Limit, base : Nat]]
    BY <1>4 DEF ReadHigh, TypeOK, Limits, Reading
  <2>3. \A q \in Panics : local'[q].base = local[q].base
    BY <1>4 DEF ReadHigh, TypeOK, Reading
  <2> QED BY <2>1, <2>2, <2>3 DEF TypeOK, Between
<1>5. ASSUME NEW p \in Panics, Tighten(p) PROVE TypeOK'
  <2>1. limits' \in Limits /\ disturbed' \in [Panics -> BOOLEAN] /\ owner' \subseteq Panics
    <3>1. Target(local[p].base) \in Limits
      BY TargetType DEF TypeOK
    <3> QED BY <1>5, <3>1, SetLimitsType DEF Tighten
  <2>2. CASE \E how \in {"ok", "failed"} : Exit(p, how) /\ Leaves(p)
    BY <1>5, <2>1, <2>2, ExitType, LeavesType DEF Tighten, TypeOK, Outcomes
  <2>3. CASE Goto(p, "sleep") /\ Stays(p) /\ UNCHANGED local
    BY <1>5, <2>1, <2>3 DEF Tighten, TypeOK, Goto, Stays, Between
  <2> QED BY <1>5, <2>2, <2>3 DEF Tighten
<1>6. ASSUME NEW p \in Panics, Restore(p) PROVE TypeOK'
  <2>1. Found(local[p]) \in Limits
    BY DEF Found, TypeOK, Limits
  <2>2. limits' \in Limits /\ disturbed' \in [Panics -> BOOLEAN] /\ owner' \subseteq Panics
    <3>1. held[p] \in SUBSET Panics
      BY DEF TypeOK
    <3> QED BY <1>6, <2>1, <3>1, SetLimitsType DEF Restore
  <2> QED BY <1>6, <2>2, ExitType, LeavesType DEF Restore, TypeOK, Outcomes
<1>7. ASSUME NEW p \in Panics, CallFails(p) PROVE TypeOK'
  <2>1. /\ Exit(p, "failed") /\ Leaves(p) /\ faults' = faults + 1
        /\ UNCHANGED <<limits, duration, tunes, kills, before, disturbed, owner, original>>
    BY <1>7 DEF CallFails
  <2> QED BY <2>1, ExitType, LeavesType DEF TypeOK, Outcomes
<1>8. ASSUME NEW p \in Panics, Kill(p) PROVE TypeOK'
  <2>1. /\ Exit(p, "killed") /\ Leaves(p) /\ kills' = kills + 1
        /\ UNCHANGED <<limits, duration, tunes, faults, before, disturbed, owner, original>>
    BY <1>8 DEF Kill
  <2> QED BY <2>1, ExitType, LeavesType DEF TypeOK, Outcomes
<1>9. CASE UNCHANGED vars
  BY <1>9 DEF vars, TypeOK, Between
<1> QED BY <1>1, <1>2, <1>3, <1>4, <1>5, <1>6, <1>7, <1>8, <1>9 DEF Next, Run

\* Every variable has its type, and what a panic reduces by is a positive size.
THEOREM TypeCorrect == Spec => []TypeOK
<1> QED BY TypeInit, TypeNext, PTL DEF Spec
-----------------------------------------------------------------------------
(* The invariants.                                                         *)

LEMMA InvInit == Init => Inv
  BY DEF Init, Inv, UndisturbedReads, ReadsBefore, StackIsActive, BottomHasOriginal, Between,
         OwnerHasReduced, OwnerHasReported, ReductionsAre, HeldIsBelow, ReadersAreOnTop

\* A call of set-property disturbs the others who are under way.
LEMMA UndisturbedReadsNext == TypeOK /\ UndisturbedReads /\ [Next]_vars => UndisturbedReads'
<1> SUFFICES ASSUME TypeOK, UndisturbedReads, [Next]_vars,
                    NEW q \in Panics, ~disturbed'[q]
             PROVE  ReadsBefore(q)'
  BY DEF UndisturbedReads
<1> USE DEF counts, ghosts, ReadsBefore
<1>1. CASE UNCHANGED vars
  BY <1>1 DEF vars, UndisturbedReads
<1>2. CASE Tune
  BY <1>2 DEF Tune, SetLimits, Between, TypeOK, UndisturbedReads
<1>3. ASSUME NEW p \in Panics, Refuse(p) PROVE ReadsBefore(q)'
  BY <1>3 DEF Refuse, Exit, TypeOK, UndisturbedReads
<1>4. ASSUME NEW p \in Panics, ReadMax(p) PROVE ReadsBefore(q)'
  BY <1>4 DEF ReadMax, Goto, TypeOK, UndisturbedReads, Reading, Limits
<1>5. ASSUME NEW p \in Panics, ReadHigh(p) PROVE ReadsBefore(q)'
  BY <1>5 DEF ReadHigh, Goto, TypeOK, UndisturbedReads, Reading, Limits
<1>6. ASSUME NEW p \in Panics, Tighten(p) PROVE ReadsBefore(q)'
  BY <1>6 DEF Tighten, SetLimits, Goto, Exit, Between, TypeOK, UndisturbedReads
<1>7. ASSUME NEW p \in Panics, Restore(p) PROVE ReadsBefore(q)'
  BY <1>7 DEF Restore, SetLimits, Exit, Between, TypeOK, UndisturbedReads
<1>8. ASSUME NEW p \in Panics, CallFails(p) \/ Kill(p) PROVE ReadsBefore(q)'
  <2>1. /\ pc' = [pc EXCEPT ![p] = "done"] /\ local' = [local EXCEPT ![p] = NoLocals]
        /\ UNCHANGED <<limits, before, disturbed>>
    BY <1>8 DEF CallFails, Kill, Exit
  <2> QED BY <2>1 DEF TypeOK, UndisturbedReads
<1> QED BY <1>1, <1>2, <1>3, <1>4, <1>5, <1>6, <1>7, <1>8 DEF Next, Run

\* A panic is pushed when it starts to read and popped when it ends; if it ends
\* elsewhere than on top, nested is FALSE from then on.
Pushes(p) ==
  /\ pc[p] = "idle" /\ pc'[p] = "read_high" /\ \A q \in Panics \ {p} : pc'[q] = pc[q]
  /\ active' = Append(active, p) /\ nested' = nested
Pops(p) ==
  /\ Between(p) /\ pc'[p] = "done" /\ \A q \in Panics \ {p} : pc'[q] = pc[q]
  /\ Leaves(p)
Goes(p) ==
  /\ Between(p) /\ Between(p)' /\ \A q \in Panics \ {p} : pc'[q] = pc[q]
  /\ active' = active /\ (nested' => nested)
StaysOut ==
  /\ \A q \in Panics : Between(q)' <=> Between(q)
  /\ active' = active /\ nested' = nested

LEMMA StackStep ==
  ASSUME TypeOK, [Next]_vars
  PROVE  StaysOut \/ \E p \in Panics : Pushes(p) \/ Pops(p) \/ Goes(p)
<1> USE DEF counts, ghosts, TypeOK
<1>1. CASE UNCHANGED vars
  BY <1>1 DEF vars, StaysOut, Between
<1>2. CASE Tune
  BY <1>2 DEF Tune, StaysOut, Between
<1>3. ASSUME NEW p \in Panics, Refuse(p) PROVE StaysOut
  BY <1>3 DEF Refuse, Exit, StaysOut, Between
<1>4. ASSUME NEW p \in Panics, ReadMax(p) PROVE Pushes(p)
  BY <1>4 DEF ReadMax, Goto, Pushes
<1>5. ASSUME NEW p \in Panics, ReadHigh(p) PROVE Goes(p)
  BY <1>5 DEF ReadHigh, Goto, Goes, Between
<1>6. ASSUME NEW p \in Panics, Tighten(p) PROVE Pops(p) \/ Goes(p)
  <2>1. CASE \E how \in {"ok", "failed"} : Exit(p, how) /\ Leaves(p)
    BY <1>6, <2>1 DEF Tighten, Exit, Pops, Between
  <2>2. CASE Goto(p, "sleep") /\ Stays(p)
    BY <1>6, <2>2 DEF Tighten, Goto, Stays, Goes, Between
  <2> QED BY <1>6, <2>1, <2>2 DEF Tighten
<1>7. ASSUME NEW p \in Panics, Restore(p) PROVE Pops(p)
  BY <1>7 DEF Restore, Exit, Pops, Between
<1>8. ASSUME NEW p \in Panics, CallFails(p) \/ Kill(p) PROVE Pops(p)
  BY <1>8 DEF CallFails, Kill, Exit, Pops, Between
<1> QED BY <1>1, <1>2, <1>3, <1>4, <1>5, <1>6, <1>7, <1>8 DEF Next, Run

LEMMA StackIsActiveNext == TypeOK /\ StackIsActive /\ [Next]_vars => StackIsActive'
<1> SUFFICES ASSUME TypeOK, StackIsActive, [Next]_vars, nested'
             PROVE  /\ \A q \in Panics : Between(q)' <=> \E i \in DOMAIN active' : active'[i] = q
                    /\ \A i, j \in DOMAIN active' : active'[i] = active'[j] => i = j
  BY DEF StackIsActive
<1>0. active \in Seq(Panics)
  BY DEF TypeOK
<1>1. CASE StaysOut
  BY <1>1 DEF StaysOut, StackIsActive
<1>2. ASSUME NEW p \in Panics, Pushes(p)
      PROVE  /\ \A q \in Panics : Between(q)' <=> \E i \in DOMAIN active' : active'[i] = q
             /\ \A i, j \in DOMAIN active' : active'[i] = active'[j] => i = j
  <2>1. /\ nested /\ ~Between(p) /\ Between(p)'
        /\ \A q \in Panics \ {p} : Between(q)' <=> Between(q)
    BY <1>2 DEF Pushes, Between
  <2>2. /\ DOMAIN active' = 1..(Len(active) + 1) /\ active'[Len(active) + 1] = p
        /\ \A i \in 1..Len(active) : active'[i] = active[i]
        /\ DOMAIN active = 1..Len(active) /\ Len(active) \in Nat
    BY <1>0, <1>2 DEF Pushes
  <2>3. \A i \in 1..Len(active) : active[i] # p
    BY <2>1, <2>2 DEF StackIsActive
  <2>4. \A q \in Panics : Between(q)' <=> \E i \in DOMAIN active' : active'[i] = q
    <3> SUFFICES ASSUME NEW q \in Panics
                 PROVE  Between(q)' <=> \E i \in DOMAIN active' : active'[i] = q
      OBVIOUS
    <3>1. CASE q = p
      BY <2>1, <2>2, <3>1
    <3>2. CASE q # p
      BY <2>1, <2>2, <3>2 DEF StackIsActive
    <3> QED BY <3>1, <3>2
  <2>5. \A i, j \in DOMAIN active' : active'[i] = active'[j] => i = j
    BY <2>1, <2>2, <2>3 DEF StackIsActive
  <2> QED BY <2>4, <2>5
<1>3. ASSUME NEW p \in Panics, Pops(p)
      PROVE  /\ \A q \in Panics : Between(q)' <=> \E i \in DOMAIN active' : active'[i] = q
             /\ \A i, j \in DOMAIN active' : active'[i] = active'[j] => i = j
  <2>1. /\ nested /\ Last(active) = p /\ Between(p) /\ ~Between(p)'
        /\ \A q \in Panics \ {p} : Between(q)' <=> Between(q)
    BY <1>3 DEF Pops, Leaves, Between
  <2>2. active # <<>>
    BY <1>0, <2>1 DEF StackIsActive
  <2>3. /\ DOMAIN active' = 1..(Len(active) - 1) /\ active[Len(active)] = p
        /\ \A i \in 1..(Len(active) - 1) : active'[i] = active[i]
        /\ DOMAIN active = 1..Len(active) /\ Len(active) \in Nat \ {0}
    BY <1>0, <1>3, <2>1, <2>2, PopProperties DEF Pops, Leaves
  <2>4. \A i \in 1..(Len(active) - 1) : active[i] # p
    BY <2>1, <2>3 DEF StackIsActive
  <2>5. \A q \in Panics : Between(q)' <=> \E i \in DOMAIN active' : active'[i] = q
    <3> SUFFICES ASSUME NEW q \in Panics
                 PROVE  Between(q)' <=> \E i \in DOMAIN active' : active'[i] = q
      OBVIOUS
    <3>1. CASE q = p
      BY <2>1, <2>3, <2>4, <3>1
    <3>2. CASE q # p
      <4>1. Between(q)' <=> \E i \in 1..Len(active) : active[i] = q
        BY <2>1, <2>3, <3>2 DEF StackIsActive
      <4>2. (\E i \in 1..Len(active) : active[i] = q)
              <=> \E i \in 1..(Len(active) - 1) : active[i] = q
        BY <2>3, <3>2
      <4> QED BY <2>3, <4>1, <4>2
    <3> QED BY <3>1, <3>2
  <2>6. \A i, j \in DOMAIN active' : active'[i] = active'[j] => i = j
    BY <2>1, <2>3 DEF StackIsActive
  <2> QED BY <2>5, <2>6
<1>4. ASSUME NEW p \in Panics, Goes(p)
      PROVE  /\ \A q \in Panics : Between(q)' <=> \E i \in DOMAIN active' : active'[i] = q
             /\ \A i, j \in DOMAIN active' : active'[i] = active'[j] => i = j
  <2>1. \A q \in Panics : Between(q)' <=> Between(q)
    BY <1>4 DEF Goes, Between
  <2> QED BY <1>4, <2>1 DEF Goes, StackIsActive
<1> QED BY <1>1, <1>2, <1>3, <1>4, StackStep

\* A reduction goes from sleeping to the end of its process, and only once.
LEMMA OwnerHasReducedNext == TypeOK /\ OwnerHasReduced /\ [Next]_vars => OwnerHasReduced'
<1> SUFFICES ASSUME TypeOK, OwnerHasReduced, [Next]_vars PROVE OwnerHasReduced'
  OBVIOUS
<1> USE DEF counts, ghosts, OwnerHasReduced, ReductionsAre, HasReduced
<1>1. CASE UNCHANGED vars
  BY <1>1 DEF vars
<1>2. CASE Tune
  BY <1>2 DEF Tune, SetLimits
<1>3. ASSUME NEW p \in Panics, Refuse(p) PROVE OwnerHasReduced'
  BY <1>3 DEF Refuse, Exit, TypeOK
<1>4. ASSUME NEW p \in Panics, ReadMax(p) PROVE OwnerHasReduced'
  BY <1>4 DEF ReadMax, Goto, TypeOK
<1>5. ASSUME NEW p \in Panics, ReadHigh(p) PROVE OwnerHasReduced'
  BY <1>5 DEF ReadHigh, Goto, TypeOK
<1>6. ASSUME NEW p \in Panics, Tighten(p) PROVE OwnerHasReduced'
  <2>1. /\ owner' = {p} /\ duration' = duration /\ pc[p] = "tighten"
        /\ \/ pc' = [pc EXCEPT ![p] = "done"]
           \/ pc' = [pc EXCEPT ![p] = "sleep"] /\ duration[p] = "valid"
        /\ \A r \in Panics : held'[r] \subseteq held[r]
    BY <1>6 DEF Tighten, SetLimits, Goto, Exit, Leaves, Stays, TypeOK
  <2> QED BY <2>1 DEF TypeOK
<1>7. ASSUME NEW p \in Panics, Restore(p) PROVE OwnerHasReduced'
  BY <1>7 DEF Restore, SetLimits, Exit, Leaves, TypeOK
<1>8. ASSUME NEW p \in Panics, CallFails(p) \/ Kill(p) PROVE OwnerHasReduced'
  <2>1. /\ pc' = [pc EXCEPT ![p] = "done"] /\ UNCHANGED <<owner, duration>>
        /\ held' = [held EXCEPT ![p] = {}]
    BY <1>8 DEF CallFails, Kill, Exit, Leaves
  <2> QED BY <2>1 DEF TypeOK
<1> QED BY <1>1, <1>2, <1>3, <1>4, <1>5, <1>6, <1>7, <1>8 DEF Next, Run

\* When the panic on top ends, nobody else has read its reduction.
LEMMA TopIsNotHeld ==
  ASSUME TypeOK, StackIsActive, HeldIsBelow, nested,
         NEW p \in Panics, pc[p] = "sleep", Last(active) = p, NEW r \in Panics
  PROVE  p \notin held[r]
<1> SUFFICES ASSUME Below(p, r) PROVE FALSE
  BY DEF HeldIsBelow
<1>1. active \in Seq(Panics)
  BY DEF TypeOK
<1>2. PICK i \in DOMAIN active, j \in DOMAIN active : i < j /\ active[i] = p
  BY DEF Below
<1>3. active # <<>> /\ DOMAIN active = 1..Len(active) /\ Len(active) \in Nat
  BY <1>1, <1>2
<1>4. active[Len(active)] = p
  BY <1>1, <1>3, PopProperties
<1>5. Len(active) \in DOMAIN active /\ i # Len(active)
  BY <1>2, <1>3
<1> QED BY <1>2, <1>4, <1>5 DEF StackIsActive

\* A panic that gives back restores what it had read, reductions included: those
\* of the panics below it, which are still to give back.
LEMMA OwnerHasReportedNext ==
  TypeOK /\ StackIsActive /\ HeldIsBelow /\ OwnerHasReduced /\ OwnerHasReported /\ [Next]_vars
    => OwnerHasReported'
<1> SUFFICES ASSUME TypeOK, StackIsActive, HeldIsBelow, OwnerHasReduced, OwnerHasReported,
                    [Next]_vars, nested'
             PROVE  ReductionsAre(HasReported)'
  BY DEF OwnerHasReported
<1>0. nested /\ ReductionsAre(HasReported)
  BY StackStep DEF StaysOut, Pushes, Pops, Leaves, Goes, OwnerHasReported, TypeOK
<1> USE DEF counts, ghosts, ReductionsAre, HasReported
<1>1. CASE UNCHANGED vars
  BY <1>0, <1>1 DEF vars
<1>2. CASE Tune
  BY <1>0, <1>2 DEF Tune, SetLimits
<1>3. ASSUME NEW p \in Panics, Refuse(p) PROVE ReductionsAre(HasReported)'
  BY <1>0, <1>3 DEF Refuse, Exit, TypeOK
<1>4. ASSUME NEW p \in Panics, ReadMax(p) PROVE ReductionsAre(HasReported)'
  BY <1>0, <1>4 DEF ReadMax, Goto, TypeOK, OwnerHasReduced, HasReduced
<1>5. ASSUME NEW p \in Panics, ReadHigh(p) PROVE ReductionsAre(HasReported)'
  BY <1>0, <1>5 DEF ReadHigh, Goto, TypeOK
<1>6. ASSUME NEW p \in Panics, Tighten(p) PROVE ReductionsAre(HasReported)'
  <2>1. \A r \in Panics : p \notin held[r]
    BY <1>6 DEF Tighten, OwnerHasReduced, HasReduced
  <2> QED BY <1>0, <1>6, <2>1 DEF Tighten, SetLimits, Goto, Exit, Leaves, Stays, TypeOK
<1>7. ASSUME NEW p \in Panics, Restore(p) PROVE ReductionsAre(HasReported)'
  <2>1. pc[p] = "sleep" /\ Last(active) = p
    BY <1>7 DEF Restore, Leaves
  <2>2. \A r \in Panics : p \notin held[r]
    BY <1>0, <2>1, TopIsNotHeld
  <2> QED BY <1>0, <1>7, <2>2 DEF Restore, SetLimits, Exit, Leaves, TypeOK
<1>8. ASSUME NEW p \in Panics, CallFails(p) \/ Kill(p) PROVE ReductionsAre(HasReported)'
  BY <1>0, <1>8 DEF CallFails, Kill, Exit, Leaves, TypeOK
<1> QED BY <1>1, <1>2, <1>3, <1>4, <1>5, <1>6, <1>7, <1>8 DEF Next, Run

\* Nobody sets limits and goes to sleep while another is still reading.
LEMMA ReadersAreOnTopNext ==
  TypeOK /\ StackIsActive /\ ReadersAreOnTop /\ [Next]_vars => ReadersAreOnTop'
<1> SUFFICES ASSUME TypeOK, StackIsActive, ReadersAreOnTop, [Next]_vars, nested',
                    NEW i \in DOMAIN active', NEW j \in DOMAIN active', i < j,
                    pc'[active'[i]] = "read_high", pc'[active'[j]] = "sleep"
             PROVE  FALSE
  BY DEF ReadersAreOnTop
<1>0. active \in Seq(Panics) /\ nested /\ DOMAIN active = 1..Len(active) /\ Len(active) \in Nat
  <2>1. nested
    BY StackStep DEF StaysOut, Pushes, Pops, Leaves, Goes, TypeOK
  <2> QED BY <2>1 DEF TypeOK
<1>1. ASSUME pc' = pc, active' = active PROVE FALSE
  BY <1>0, <1>1 DEF ReadersAreOnTop
<1>2. ASSUME NEW p \in Panics, Pushes(p) PROVE FALSE
  <2>1. DOMAIN active' = 1..(Len(active) + 1) /\ active'[Len(active) + 1] = p
        /\ \A k \in 1..Len(active) : active'[k] = active[k] /\ active[k] \in Panics
    BY <1>0, <1>2 DEF Pushes
  <2>2. j \in 1..Len(active) /\ i \in 1..Len(active)
    BY <1>0, <1>2, <2>1 DEF Pushes
  <2>3. \A k \in 1..Len(active) : active[k] # p
    BY <1>0, <1>2 DEF Pushes, StackIsActive, Between
  <2> QED BY <1>0, <1>2, <2>1, <2>2, <2>3 DEF Pushes, ReadersAreOnTop
<1>3. ASSUME NEW p \in Panics, Pops(p) PROVE FALSE
  <2>1. active # <<>>
    BY <1>0, <1>3 DEF Pops, StackIsActive
  <2>2. /\ DOMAIN active' = 1..(Len(active) - 1)
        /\ \A k \in 1..(Len(active) - 1) : active'[k] = active[k]
    BY <1>0, <1>3, <2>1, PopProperties DEF Pops, Leaves
  <2>3. i \in DOMAIN active /\ j \in DOMAIN active /\ active[i] \in Panics /\ active[j] \in Panics
    BY <1>0, <2>2
  <2>4. pc[active[i]] = "read_high" /\ pc[active[j]] = "sleep"
    BY <1>3, <2>2, <2>3 DEF Pops
  <2> QED BY <1>0, <2>3, <2>4 DEF ReadersAreOnTop
<1>4. ASSUME NEW p \in Panics, ReadHigh(p) PROVE FALSE
  BY <1>0, <1>4 DEF ReadHigh, Goto, TypeOK, ReadersAreOnTop
<1>5. ASSUME NEW p \in Panics, Goto(p, "sleep"), Stays(p) PROVE FALSE
  <2>1. active' = active /\ pc' = [pc EXCEPT ![p] = "sleep"]
        /\ \A x \in Panics : pc[x] # "read_high"
    BY <1>5 DEF Goto, Stays
  <2>2. active[i] \in Panics /\ pc'[active[i]] = "read_high"
    BY <1>0, <2>1
  <2> QED BY <2>1, <2>2 DEF TypeOK
<1>6. ASSUME NEW p \in Panics, Refuse(p) PROVE FALSE
  BY <1>0, <1>6 DEF Refuse, Exit, TypeOK, ghosts, ReadersAreOnTop
<1>7. ASSUME NEW p \in Panics, Run(p) \/ CallFails(p) \/ Kill(p) PROVE FALSE
  <2>1. Pushes(p) \/ Pops(p) \/ ReadHigh(p) \/ (Goto(p, "sleep") /\ Stays(p))
    BY <1>7 DEF Run, ReadMax, Tighten, Restore, CallFails, Kill, Goto, Exit, Pushes, Pops, Between,
                TypeOK
  <2> QED BY <1>2, <1>3, <1>4, <1>5, <2>1
<1> QED BY <1>1, <1>6, <1>7 DEF Next, Tune, vars, ghosts

LEMMA HeldIsBelowNext ==
  TypeOK /\ StackIsActive /\ OwnerHasReduced /\ HeldIsBelow /\ ReadersAreOnTop /\ [Next]_vars
    => HeldIsBelow'
<1> SUFFICES ASSUME TypeOK, StackIsActive, OwnerHasReduced, HeldIsBelow, ReadersAreOnTop,
                    [Next]_vars, nested'
             PROVE  \A r \in Panics : \A q \in held'[r] : pc'[q] = "sleep" => Below(q, r)'
  BY DEF HeldIsBelow
<1> SUFFICES ASSUME NEW r \in Panics, NEW q \in held'[r], pc'[q] = "sleep"
             PROVE  Below(q, r)'
  OBVIOUS
<1>0. active \in Seq(Panics) /\ nested /\ DOMAIN active = 1..Len(active) /\ Len(active) \in Nat
  <2>1. nested
    BY StackStep DEF StaysOut, Pushes, Pops, Leaves, Goes, TypeOK
  <2> QED BY <2>1 DEF TypeOK
<1>1. ASSUME pc' = pc, active' = active, held' = held PROVE Below(q, r)'
  BY <1>0, <1>1 DEF HeldIsBelow, Below
<1>2. ASSUME NEW p \in Panics, ReadMax(p) PROVE Below(q, r)'
  <2>1. /\ DOMAIN active' = 1..(Len(active) + 1) /\ active'[Len(active) + 1] = p
        /\ \A k \in 1..Len(active) : active'[k] = active[k]
    BY <1>0, <1>2 DEF ReadMax
  <2>2. /\ pc[p] = "idle" /\ pc' = [pc EXCEPT ![p] = "read_high"]
        /\ held' = [held EXCEPT ![p] = owner]
    BY <1>2 DEF ReadMax, Goto
  <2>3. q \in Panics /\ q # p /\ pc[q] = "sleep"
    BY <2>2 DEF TypeOK
  <2>4. CASE r = p
    <3>1. PICK i \in 1..Len(active) : active[i] = q
      BY <1>0, <2>3 DEF StackIsActive, Between
    <3> QED BY <1>0, <2>1, <2>4, <3>1 DEF Below
  <2>5. CASE r # p
    <3>1. Below(q, r)
      BY <1>0, <2>2, <2>3, <2>5 DEF HeldIsBelow, TypeOK
    <3> QED BY <1>0, <2>1, <3>1 DEF Below
  <2> QED BY <2>4, <2>5
<1>3. ASSUME NEW p \in Panics, ReadHigh(p) PROVE Below(q, r)'
  <2>1. /\ pc[p] = "read_high" /\ pc' = [pc EXCEPT ![p] = "tighten"] /\ active' = active
        /\ held' = [held EXCEPT ![p] = @ \cup owner]
    BY <1>3 DEF ReadHigh, Goto
  <2>2. q \in Panics /\ q # p /\ pc[q] = "sleep"
    BY <2>1 DEF TypeOK
  <2>3. CASE r = p /\ q \notin held[p]
    <3>1. PICK i \in 1..Len(active) : active[i] = q
      BY <1>0, <2>2 DEF StackIsActive, Between
    <3>2. PICK j \in 1..Len(active) : active[j] = p
      BY <1>0, <2>1 DEF StackIsActive, Between
    <3>3. i < j
      BY <1>0, <2>1, <2>2, <3>1, <3>2 DEF ReadersAreOnTop
    <3> QED BY <1>0, <2>1, <2>3, <3>1, <3>2, <3>3 DEF Below
  <2>4. CASE r # p \/ q \in held[p]
    <3>1. q \in held[r]
      BY <2>1, <2>4 DEF TypeOK
    <3> QED BY <1>0, <2>1, <2>2, <3>1 DEF HeldIsBelow, Below
  <2> QED BY <2>3, <2>4
<1>4. ASSUME NEW p \in Panics, Pops(p) PROVE Below(q, r)'
  <2>1. /\ pc'[p] = "done" /\ \A x \in Panics \ {p} : pc'[x] = pc[x]
        /\ Last(active) = p /\ held' = [held EXCEPT ![p] = {}] /\ active' = Front(active)
    BY <1>4 DEF Pops, Leaves
  <2>2. r # p /\ q \in held[r] /\ q \in Panics /\ pc[q] = "sleep"
    BY <2>1 DEF TypeOK
  <2>3. PICK i \in DOMAIN active, j \in DOMAIN active : i < j /\ active[i] = q /\ active[j] = r
    BY <1>0, <2>2 DEF HeldIsBelow, Below
  <2>4. /\ DOMAIN active' = 1..(Len(active) - 1) /\ active[Len(active)] = p
        /\ \A k \in 1..(Len(active) - 1) : active'[k] = active[k]
    BY <1>0, <2>1, <2>3, PopProperties
  <2>5. i \in DOMAIN active' /\ j \in DOMAIN active'
    BY <1>0, <2>2, <2>3, <2>4
  <2> QED BY <2>3, <2>4, <2>5 DEF Below
<1>5. ASSUME NEW p \in Panics, Tighten(p), Goto(p, "sleep"), Stays(p) PROVE Below(q, r)'
  <2>1. pc[p] = "tighten" /\ pc' = [pc EXCEPT ![p] = "sleep"] /\ UNCHANGED <<active, held>>
    BY <1>5 DEF Tighten, Goto, Stays
  <2>2. q \in Panics /\ q # p
    BY <2>1 DEF TypeOK, OwnerHasReduced, ReductionsAre, HasReduced
  <2> QED BY <1>0, <2>1, <2>2 DEF HeldIsBelow, Below, TypeOK
<1>6. ASSUME NEW p \in Panics, Refuse(p) PROVE Below(q, r)'
  <2>1. pc' = [pc EXCEPT ![p] = "done"] /\ UNCHANGED <<active, held>>
    BY <1>6 DEF Refuse, Exit, ghosts
  <2> QED BY <1>0, <2>1 DEF HeldIsBelow, Below, TypeOK
<1>7. ASSUME NEW p \in Panics, Run(p) \/ CallFails(p) \/ Kill(p) PROVE Below(q, r)'
  <2>1. ReadMax(p) \/ Pops(p) \/ ReadHigh(p) \/ (Tighten(p) /\ Goto(p, "sleep") /\ Stays(p))
    BY <1>7 DEF Run, Tighten, Restore, CallFails, Kill, Exit, Pops, Between, TypeOK
  <2> QED BY <1>2, <1>3, <1>4, <1>5, <2>1
<1> QED BY <1>1, <1>6, <1>7 DEF Next, Tune, vars, ghosts

\* Once a panic has ended otherwise, or overlapped, it stays so.
LEMMA AllRestoreBefore == TypeOK /\ [Next]_vars /\ AllRestore' => AllRestore
<1> SUFFICES ASSUME TypeOK, [Next]_vars, AllRestore' PROVE AllRestore
  OBVIOUS
<1>1. nested /\ tunes = 0
  <2>1. nested
    BY StackStep DEF StaysOut, Pushes, Pops, Leaves, Goes, AllRestore, TypeOK
  <2>2. tunes = 0
    <3>1. ASSUME Tune PROVE FALSE
      BY <3>1 DEF Tune, AllRestore, TypeOK
    <3>2. ASSUME NEW p \in Panics, Refuse(p) \/ CallFails(p) \/ Kill(p) PROVE tunes' = tunes
      BY <3>2 DEF Refuse, CallFails, Kill, counts
    <3>3. ASSUME NEW p \in Panics, Run(p) PROVE tunes' = tunes
      BY <3>3 DEF Run, ReadMax, ReadHigh, Tighten, Restore, counts
    <3> QED BY <3>1, <3>2, <3>3 DEF Next, vars, counts, AllRestore
  <2> QED BY <2>1, <2>2
<1>2. ASSUME NEW q \in Panics, outcome[q] # "running"
      PROVE  outcome'[q] = outcome[q] /\ duration'[q] = duration[q]
  <2>1. pc[q] = "done"
    BY <1>2 DEF TypeOK
  <2> USE <2>1 DEF TypeOK, Exit, Goto, Between, counts, ghosts
  <2>2. ASSUME NEW p \in Panics, Run(p) \/ Refuse(p) \/ CallFails(p) \/ Kill(p)
        PROVE  outcome'[q] = outcome[q] /\ duration'[q] = duration[q]
    <3>1. CASE Refuse(p) \/ CallFails(p) \/ Kill(p)
      BY <3>1 DEF Refuse, CallFails, Kill
    <3>2. CASE ReadMax(p) \/ ReadHigh(p)
      BY <3>2 DEF ReadMax, ReadHigh
    <3>3. CASE Tighten(p) \/ Restore(p)
      BY <3>3 DEF Tighten, Restore
    <3> QED BY <2>2, <3>1, <3>2, <3>3 DEF Run
  <2>3. CASE Tune \/ UNCHANGED vars
    BY <2>3 DEF Tune, vars
  <2> QED BY <2>2, <2>3 DEF Next
<1>3. ASSUME NEW q \in Panics, outcome[q] # "running"
      PROVE  outcome[q] = "refused" \/ (outcome[q] = "ok" /\ duration[q] = "valid")
  <2>1. outcome'[q] = outcome[q] /\ duration'[q] = duration[q]
    BY <1>2, <1>3
  <2>2. outcome'[q] \in {"running", "refused"} \/ (outcome'[q] = "ok" /\ duration'[q] = "valid")
    BY DEF AllRestore
  <2> QED BY <1>3, <2>1, <2>2
<1> QED BY <1>1, <1>3 DEF AllRestore

LEMMA BottomHasOriginalNext ==
  TypeOK /\ StackIsActive /\ BottomHasOriginal /\ [Next]_vars => BottomHasOriginal'
<1> SUFFICES ASSUME TypeOK, StackIsActive, BottomHasOriginal, [Next]_vars, AllRestore'
             PROVE  BottomHasOriginal'
  BY DEF BottomHasOriginal
<1> USE DEF counts, ghosts
<1>1. /\ AllRestore /\ nested /\ nested' /\ active \in Seq(Panics)
      /\ \A q \in Panics : \/ outcome'[q] \in {"running", "refused"}
                           \/ outcome'[q] = "ok" /\ duration'[q] = "valid"
  BY AllRestoreBefore DEF AllRestore, TypeOK
<1>2. active = <<>> => limits = original /\ \A q \in Panics : ~Between(q)
  BY <1>1 DEF BottomHasOriginal, StackIsActive
<1> DEFINE b == active[1]
<1>3. ASSUME active # <<>>
      PROVE  /\ b \in Panics /\ Between(b)
             /\ pc[b] = "read_high" =>
                  /\ limits = original /\ local[b].max = original.max
                  /\ \A q \in Panics : pc[q] # "sleep"
             /\ pc[b] \in {"tighten", "sleep"} =>
                  local[b].max = original.max /\ local[b].high = original.high
  <2>1. 1 \in DOMAIN active /\ b \in Panics
    BY <1>1, <1>3
  <2> QED BY <1>1, <1>3, <2>1 DEF BottomHasOriginal, StackIsActive
<1> HIDE DEF b
<1>4. CASE UNCHANGED vars
  BY <1>4, <1>1 DEF vars, BottomHasOriginal, AllRestore
<1>5. ASSUME Tune PROVE FALSE
  BY <1>5 DEF Tune, AllRestore, TypeOK
<1>6. ASSUME NEW p \in Panics, CallFails(p) \/ Kill(p) PROVE FALSE
  BY <1>6 DEF CallFails, Kill, Exit, AllRestore, TypeOK
<1>7. ASSUME NEW p \in Panics, Refuse(p) PROVE BottomHasOriginal'
  <2>1. /\ pc[p] = "idle" /\ pc'[p] = "done" /\ UNCHANGED <<limits, active, original>>
        /\ \A q \in Panics \ {p} : pc'[q] = pc[q] /\ local'[q] = local[q]
    BY <1>7 DEF Refuse, Exit, TypeOK
  <2> QED BY <1>2, <1>3, <2>1 DEF BottomHasOriginal, Between, b
<1>8. ASSUME NEW p \in Panics, ReadMax(p) PROVE BottomHasOriginal'
  <2>1. /\ pc[p] = "idle" /\ pc'[p] = "read_high" /\ local'[p].max = limits.max
        /\ UNCHANGED <<limits, original>> /\ active' = Append(active, p)
        /\ \A q \in Panics \ {p} : pc'[q] = pc[q] /\ local'[q] = local[q]
    BY <1>8 DEF ReadMax, Goto, Reading, TypeOK
  <2>2. active' # <<>> /\ active'[1] = IF active = <<>> THEN p ELSE b
    BY <1>1, <2>1 DEF b
  <2>3. CASE active = <<>>
    BY <1>2, <2>1, <2>2, <2>3 DEF BottomHasOriginal, Between
  <2>4. CASE active # <<>>
    BY <1>3, <2>1, <2>2, <2>4 DEF BottomHasOriginal, Between
  <2> QED BY <2>3, <2>4
<1>9. ASSUME NEW p \in Panics, ReadHigh(p) PROVE BottomHasOriginal'
  <2>1. /\ pc[p] = "read_high" /\ pc'[p] = "tighten" /\ UNCHANGED <<limits, original, active>>
        /\ local'[p].high = limits.high /\ local'[p].max = local[p].max
        /\ \A q \in Panics \ {p} : pc'[q] = pc[q] /\ local'[q] = local[q]
    BY <1>9 DEF ReadHigh, Goto, Reading, TypeOK
  <2> QED BY <1>2, <1>3, <2>1 DEF BottomHasOriginal, Between, b
<1>10. ASSUME NEW p \in Panics, Tighten(p) PROVE BottomHasOriginal'
  <2>1. Goto(p, "sleep") /\ Stays(p) /\ UNCHANGED local
    BY <1>1, <1>10 DEF Tighten, Exit, TypeOK
  <2>2. /\ pc[p] = "tighten" /\ pc'[p] = "sleep" /\ UNCHANGED <<local, original, active>>
        /\ \A q \in Panics : pc[q] # "read_high"
        /\ \A q \in Panics \ {p} : pc'[q] = pc[q]
    BY <1>1, <1>10, <2>1 DEF Tighten, Goto, Stays, TypeOK
  <2> QED BY <1>2, <1>3, <2>2 DEF BottomHasOriginal, Between, b
<1>11. ASSUME NEW p \in Panics, Restore(p) PROVE BottomHasOriginal'
  <2>1. /\ pc[p] = "sleep" /\ limits' = Found(local[p]) /\ original' = original
        /\ \A q \in Panics \ {p} : pc'[q] = pc[q] /\ local'[q] = local[q]
        /\ active' = Front(active) /\ Last(active) = p
    BY <1>1, <1>11 DEF Restore, SetLimits, Exit, Leaves, TypeOK
  <2>2. active # <<>>
    BY <1>2, <2>1 DEF Between
  <2>3. /\ active[Len(active)] = p /\ Len(active) \in Nat \ {0} /\ DOMAIN active = 1..Len(active)
        /\ active' \in Seq(Panics) /\ DOMAIN active' = 1..(Len(active) - 1)
        /\ \A i \in 1..(Len(active) - 1) : active'[i] = active[i]
    BY <1>1, <2>1, <2>2, PopProperties
  <2>4. CASE Len(active) = 1
    <3>1. b = p /\ active' = <<>>
      BY <2>3, <2>4 DEF b
    <3>2. local[p].max = original.max /\ local[p].high = original.high
      BY <1>3, <2>1, <2>2, <3>1
    <3>3. limits' = original
      BY <2>1, <3>2 DEF Found, TypeOK, Limits
    <3> QED BY <2>1, <3>1, <3>3 DEF BottomHasOriginal
  <2>5. CASE Len(active) # 1
    <3>1. active' # <<>> /\ active'[1] = b /\ b # p
      BY <1>1, <2>3, <2>5 DEF b, StackIsActive
    <3>2. pc[b] # "read_high" /\ pc'[b] = pc[b] /\ local'[b] = local[b]
      BY <1>3, <2>1, <2>2, <3>1
    <3> QED BY <1>3, <2>1, <2>2, <3>1, <3>2 DEF BottomHasOriginal
  <2> QED BY <2>4, <2>5
<1> QED BY <1>4, <1>5, <1>6, <1>7, <1>8, <1>9, <1>10, <1>11 DEF Next, Run

LEMMA InvNext == TypeOK /\ Inv /\ [Next]_vars => Inv'
  BY UndisturbedReadsNext, OwnerHasReducedNext, OwnerHasReportedNext, HeldIsBelowNext,
     ReadersAreOnTopNext, StackIsActiveNext, BottomHasOriginalNext DEF Inv

LEMMA InvHolds == Spec => []Inv
<1> QED BY InvInit, InvNext, TypeCorrect, PTL DEF Spec
-----------------------------------------------------------------------------
(* The properties.                                                         *)

\* While panics end in the reverse of the order in which they started, whatever
\* calls fail and whatever an operator sets: a reduction in force, also one that
\* came back with what another panic had read, is never one of a panic that had
\* a duration and has reported success (panic.rs, the restoring set-property).
THEOREM ReductionIsReportedHolds == Spec => []ReductionIsReported
<1>1. Inv => ReductionIsReported
  BY DEF Inv, OwnerHasReported, ReductionsAre, HasReported, ReductionIsReported
<1> QED BY <1>1, InvHolds, PTL

\* Panics that overlap like brackets bring back the limits from before the
\* first, if all had durations and succeeded (panic_mode of panic_service.rs).
THEOREM NestedPanicsRestoreHolds == Spec => []NestedPanicsRestore
<1>1. Inv => NestedPanicsRestore
  BY DEF Inv, BottomHasOriginal, AllRestore, NestedPanicsRestore
<1> QED BY <1>1, InvHolds, PTL

\* A panic that ends well, with its duration over and undisturbed, has put back
\* what user.slice had when it began, although it read that with two calls.
THEOREM UndisturbedPanicRestoresHolds == Spec => UndisturbedPanicRestores
<1> DEFINE Restores(p) ==
      ( /\ outcome[p] = "running" /\ outcome'[p] = "ok"
        /\ duration[p] = "valid" /\ ~disturbed[p] ) => limits' = before[p]
<1>1. ASSUME TypeOK, Inv, [Next]_vars, NEW p \in Panics,
             outcome[p] = "running", outcome'[p] = "ok", duration[p] = "valid", ~disturbed[p]
      PROVE  limits' = before[p]
  <2> USE DEF counts, ghosts, TypeOK
  <2>1. Restore(p)
    <3>1. ASSUME NEW q \in Panics, Refuse(q) \/ CallFails(q) \/ Kill(q) PROVE FALSE
      BY <1>1, <3>1 DEF Refuse, CallFails, Kill, Exit
    <3>2. ASSUME NEW q \in Panics, ReadMax(q) \/ ReadHigh(q) PROVE FALSE
      BY <1>1, <3>2 DEF ReadMax, ReadHigh, Goto
    <3>3. ASSUME NEW q \in Panics, Tighten(q) PROVE FALSE
      BY <1>1, <3>3 DEF Tighten, Exit, Goto
    <3>4. ASSUME NEW q \in Panics, Restore(q) PROVE q = p
      BY <1>1, <3>4 DEF Restore, Exit
    <3>5. ~Tune /\ ~UNCHANGED vars
      BY <1>1 DEF Tune, vars
    <3> QED BY <1>1, <3>1, <3>2, <3>3, <3>4, <3>5 DEF Next, Run
  <2>2. pc[p] = "sleep" /\ limits' = Found(local[p])
    BY <2>1 DEF Restore, SetLimits
  <2>3. local[p].max = before[p].max /\ local[p].high = before[p].high
    BY <1>1, <2>2 DEF Inv, UndisturbedReads, ReadsBefore
  <2>4. before[p] \in Limits
    BY <1>1
  <2> QED BY <2>2, <2>3, <2>4 DEF Found, Limits
<1>2. TypeOK /\ Inv /\ [Next]_vars => [\A p \in Panics : Restores(p)]_vars
  BY <1>1
<1> QED BY <1>2, TypeCorrect, InvHolds, PTL DEF Spec, UndisturbedPanicRestores
=============================================================================
