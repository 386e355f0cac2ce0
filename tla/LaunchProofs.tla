----------------------------- MODULE LaunchProofs ---------------------------
(***************************************************************************)
(* Theorems about setup, apply, rollback, run and rescue over one store,   *)
(* for any number of processes, profiles, commands, edits, failing calls   *)
(* and kills.                                                              *)
(*                                                                         *)
(* TypeInv: the types, where each process is in its command, that what an  *)
(* apply has written and saved is the front of its plan (OnPlan), and that *)
(* the state file names what the last recorded apply saved (AsRecorded).   *)
(* PlaceInv: as long as no command was cut short and no two were at work   *)
(* at once, what has been written is in place, and so is all of a plan     *)
(* that was recorded.                                                      *)
(* RescueInv: what a rescue that is alone has read is how things stand.    *)
(* SetupInv: what a setup that is alone has written is what it applies.    *)
(***************************************************************************)
EXTENDS LaunchProperties, AutoProfileProofs, FiniteSetTheorems, SequenceTheorems

-----------------------------------------------------------------------------
(* The invariants.                                                         *)

\* A sequence, whatever its elements are.
IsSeq(s) == s \in Seq({s[i] : i \in DOMAIN s})

Calls ==
  { "idle", "cut_profile", "fill_profile", "load", "write", "record", "read_backup", "undo",
    "reset", "resolve", "read_state", "load_for_run", "check", "launch" }
Applying == {"load", "write", "record"}
RunCalls == {"resolve", "read_state", "load_for_run", "check", "launch"}

\* Where a process is in its command.
Placed(p) ==
  /\ pc[p] \in Calls /\ DOMAIN job[p] = DOMAIN NoJob
  /\ pc[p] = "idle" => job[p] = [NoJob EXCEPT !.code = job[p].code]
  /\ pc[p] \in {"cut_profile", "fill_profile"} => job[p].op = "setup"
  /\ pc[p] \in Applying => job[p].op \in {"setup", "apply"}
  /\ pc[p] \in {"read_backup", "reset"} => job[p].op = "rollback"
  /\ pc[p] = "undo" => IsWriter(job[p])
  /\ pc[p] \in RunCalls => job[p].op \in {"run", "rescue"}
  /\ pc[p] \in {"cut_profile", "fill_profile", "load_for_run"} \cup Applying => job[p].name \in Names
  /\ job[p].run.profile \in Names \cup {Nobody} /\ DOMAIN job[p].run = DOMAIN NoRun
  /\ job[p].no_classes \in BOOLEAN

\* What is written keeps its limits in order, in one of the two places.
Ordered(content) ==
  content.memory_high # NoSize /\ content.memory_max # NoSize =>
    parse_size_to_bytes(content.memory_high) <= parse_size_to_bytes(content.memory_max)
Fit(w) == w[1][1] \in Modes /\ (w[2] # Absent => Ordered(w[2]))
AllFit(s) == IsSeq(s) /\ \A i \in 1..Len(s) : Fit(s[i])

Buffers(p) ==
  /\ AllFit(job[p].todo) /\ AllFit(job[p].saved)
  /\ pc[p] \in {"cut_profile", "fill_profile", "load"} => job[p].saved = <<>>
  /\ pc[p] \in {"write", "undo"} => job[p].todo # <<>>
  /\ pc[p] \in {"check", "launch"} => job[p].slice # NoName

StateFile ==
  Whole(state) => /\ state.active \in Names \cup {Nobody} /\ AllFit(state.saved)
                  /\ (state.active = Nobody <=> state.saved = <<>>)

UnitFiles ==
  \A u \in DOMAIN units : u[1] \in Modes /\ units[u] # Absent /\ Ordered(units[u])

Counters == commands \in Nat /\ faults \in Nat /\ commands + faults <= MaxEvents /\ faults <= MaxFaults

Functions ==
  /\ machine \in Machines
  /\ profiles \in [Names -> HandWritten \cup {build_auto_profile(machine), Absent, Torn}]
  /\ DOMAIN pc = Processes /\ DOMAIN job = Processes
  /\ broken \in BOOLEAN /\ DOMAIN alone = Processes /\ undone \in [Processes -> BOOLEAN]

Plan(p) == build_apply_plan(job[p].profile, job[p].no_classes)
Done(p) == Len(Plan(p)) - Len(job[p].todo)

\* A profile that apply may plan for.
Valid(profile) == IsProfile(profile) /\ validate_profile(profile) = {}

\* What an apply has done is the front of its plan.
OnPlan(p) ==
  pc[p] \in {"write", "record"} =>
    /\ Valid(job[p].profile)
    /\ Len(job[p].todo) <= Len(Plan(p)) /\ (pc[p] = "record" => Len(job[p].todo) = 0)
    /\ \A i \in 1..Len(job[p].todo) : job[p].todo[i] = Plan(p)[Done(p) + i]
    /\ \A i \in 1..Done(p) : \E j \in 1..Len(job[p].saved) : job[p].saved[j][1] = Plan(p)[i][1]
    /\ \A j \in 1..Len(job[p].saved) : \E i \in 1..Done(p) : job[p].saved[j][1] = Plan(p)[i][1]

\* state.json names what the last recorded apply wrote.
AppliedPlan == build_apply_plan(applied.profile, applied.no_classes)
Active == Whole(state) /\ state.active # Nobody
AsRecorded ==
  Active =>
    /\ Valid(applied.profile) /\ applied.no_classes \in BOOLEAN
    /\ \A i \in 1..Len(AppliedPlan) : \E j \in 1..Len(state.saved) : state.saved[j][1] = AppliedPlan[i][1]
    /\ \A j \in 1..Len(state.saved) : \E i \in 1..Len(AppliedPlan) : state.saved[j][1] = AppliedPlan[i][1]

\* The first n writes of a plan are in place; where two classes have one slice
\* only that there is a unit.
InForce(profile, plan, n) ==
  \A i \in 1..n :
    /\ plan[i][1] \in DOMAIN units
    /\ OwnSlices(profile) => units[plan[i][1]] = plan[i][2]

WritersAtWork == {p \in Processes : pc[p] \in {"write", "record", "undo", "reset"}}

TypeInv ==
  /\ Functions /\ Counters /\ UnitFiles /\ StateFile
  /\ \A p \in Processes : Placed(p) /\ Buffers(p) /\ OnPlan(p)
  /\ AsRecorded

WriterAt(p) == pc[p] # "idle" /\ IsWriter(job[p])
OneWriter == ~broken => \A p, q \in Processes : WriterAt(p) /\ WriterAt(q) => p = q

PlaceInv ==
  /\ OneWriter
  /\ ~broken => \A p \in Processes :
                  /\ pc[p] = "undo" => job[p].op = "rollback"
                  /\ pc[p] \in {"write", "record"} => InForce(job[p].profile, Plan(p), Done(p))
  /\ ~broken /\ Active /\ WritersAtWork = {} => InForce(applied.profile, AppliedPlan, Len(AppliedPlan))

-----------------------------------------------------------------------------
(* Sequences.                                                              *)

LEMMA SeqIsSeq ==
  ASSUME NEW S, NEW s \in Seq(S)
  PROVE  IsSeq(s)
  BY DEF IsSeq

LEMMA EmptyIsSeq == IsSeq(<<>>) /\ Len(<<>>) = 0 /\ DOMAIN <<>> = {}
  BY SeqIsSeq DEF IsSeq

LEMMA SeqLength ==
  ASSUME NEW s, IsSeq(s)
  PROVE  Len(s) \in Nat /\ DOMAIN s = 1..Len(s) /\ (s = <<>> <=> Len(s) = 0)
  BY LenProperties, EmptySeq DEF IsSeq

LEMMA TailIsSeq ==
  ASSUME NEW s, IsSeq(s), s # <<>>
  PROVE  /\ IsSeq(Tail(s)) /\ Head(s) = s[1] /\ Len(s) >= 1 /\ Len(Tail(s)) = Len(s) - 1
         /\ \A i \in 1..Len(Tail(s)) : Tail(s)[i] = s[i + 1]
<1> DEFINE S == {s[i] : i \in DOMAIN s}
<1>1. s \in Seq(S)
  BY DEF IsSeq
<1> HIDE DEF S
<1>2. /\ Tail(s) \in Seq(S) /\ Len(Tail(s)) = Len(s) - 1
      /\ \A i \in 1..Len(Tail(s)) : Tail(s)[i] = s[i + 1]
  BY <1>1, HeadTailProperties
<1>3. Len(s) >= 1
  BY <1>1, EmptySeq
<1>4. Head(s) = s[1]
  BY <1>1 DEF Head
<1> QED BY <1>2, <1>3, <1>4, SeqIsSeq

LEMMA AppendIsSeq ==
  ASSUME NEW s, IsSeq(s), NEW x
  PROVE  /\ IsSeq(Append(s, x)) /\ Len(Append(s, x)) = Len(s) + 1 /\ Append(s, x) # <<>>
         /\ Append(s, x)[Len(s) + 1] = x
         /\ \A i \in 1..Len(s) : Append(s, x)[i] = s[i]
<1> DEFINE S == {s[i] : i \in DOMAIN s} \cup {x}
<1>1. s \in Seq(S) /\ x \in S
  BY SeqDef DEF IsSeq
<1> HIDE DEF S
<1>2. /\ Append(s, x) \in Seq(S) /\ Append(s, x) # <<>> /\ Len(Append(s, x)) = Len(s) + 1
      /\ \A i \in 1..Len(s) : Append(s, x)[i] = s[i]
      /\ Append(s, x)[Len(s) + 1] = x
  BY <1>1, AppendProperties
<1>3. IsSeq(Append(s, x))
  BY <1>2, SeqIsSeq
<1> QED BY <1>2, <1>3

\* SetToSeq has each element at some place.
LEMMA SetToSeqHasAll ==
  ASSUME NEW S, IsFiniteSet(S)
  PROVE  LET s == SetToSeq(S) n == Cardinality(S) IN
         /\ n \in Nat /\ s \in [1..n -> S] /\ \A x \in S : \E i \in 1..n : s[i] = x
         /\ \A i, j \in 1..n : s[i] = s[j] => i = j
<1> DEFINE n == Cardinality(S)
<1>1. n \in Nat /\ ExistsBijection(1..n, S)
  BY FS_CardinalityType
<1>2. \E f \in [1..n -> S] : IsInjective(f)
  BY <1>1 DEF ExistsBijection, Bijection, Injection
<1>3. SetToSeq(S) \in [1..n -> S] /\ IsInjective(SetToSeq(S))
  BY <1>2 DEF SetToSeq
<1>4. SetToSeq(S) \in Injection(1..n, S)
  BY <1>3 DEF Injection
<1>5. IsFiniteSet(1..n) /\ Cardinality(1..n) = n
  BY <1>1, FS_Interval
<1>6. SetToSeq(S) \in Surjection(1..n, S)
  BY <1>4, <1>5, FS_Injection
<1> QED BY <1>1, <1>3, <1>6 DEF Surjection, IsInjective

LEMMA SetToSeqIsSeq ==
  ASSUME NEW S, IsFiniteSet(S)
  PROVE  LET s == SetToSeq(S) IN
         /\ Len(s) \in Nat /\ \A i \in 1..Len(s) : s[i] \in S
         /\ \A x \in S : \E i \in 1..Len(s) : s[i] = x
         /\ \A i, j \in 1..Len(s) : s[i] = s[j] => i = j
<1> DEFINE n == Cardinality(S) s == SetToSeq(S)
<1>1. /\ n \in Nat /\ s \in [1..n -> S] /\ \A x \in S : \E i \in 1..n : s[i] = x
      /\ \A i, j \in 1..n : s[i] = s[j] => i = j
  BY SetToSeqHasAll
<1> HIDE DEF s, n
<1>2. s \in Seq(S) /\ Len(s) = n
  BY <1>1
<1> QED BY <1>1, <1>2 DEF s
-----------------------------------------------------------------------------
(* Plans.                                                                  *)

ClassWrite(profile, c, mode) ==
  << <<mode, SliceOf(collect_classes(profile), c)>>, SliceUnit(collect_classes(profile), c) >>
DropInsWrite(profile) == <<DropIns, DropInsOf(profile)>>

LEMMA ClassesAreFinite ==
  ASSUME NEW profile, IsProfile(profile)
  PROVE  /\ IsFiniteSet(DOMAIN collect_classes(profile))
         /\ DOMAIN collect_classes(profile) = DOMAIN profile.classes \cup DOMAIN profile.slices
<1>1. DOMAIN collect_classes(profile) = DOMAIN profile.classes \cup DOMAIN profile.slices
  BY DEF collect_classes, Over
<1> QED BY <1>1, FS_Union DEF IsProfile

\* The plan writes the drop-ins and, for both managers, the slice of each class.
LEMMA PlanWrites ==
  ASSUME NEW profile, IsProfile(profile), NEW no_classes \in BOOLEAN
  PROVE  LET plan == build_apply_plan(profile, no_classes) IN
         /\ IsSeq(plan) /\ Len(plan) >= 1
         /\ plan[1] = DropInsWrite(profile)
         /\ \A i \in 2..Len(plan) :
              ~no_classes /\ \E c \in DOMAIN collect_classes(profile), mode \in Modes :
                               plan[i] = ClassWrite(profile, c, mode)
         /\ ~no_classes => \A c \in DOMAIN collect_classes(profile), mode \in Modes :
                             \E i \in 2..Len(plan) : plan[i] = ClassWrite(profile, c, mode)
<1> DEFINE plan == build_apply_plan(profile, no_classes)
           classes == DOMAIN collect_classes(profile)
           names == IF no_classes THEN <<>> ELSE SetToSeq(classes)
           Mode(i) == IF i % 2 = 0 THEN "system" ELSE "user"
<1>1. IsFiniteSet(classes)
  BY ClassesAreFinite
<1>2. Len(names) \in Nat /\ \A i \in 1..Len(names) : ~no_classes /\ names[i] \in classes
  <2>1. CASE no_classes
    BY <2>1, EmptyIsSeq
  <2>2. CASE ~no_classes
    BY <1>1, <2>2, SetToSeqIsSeq
  <2> QED BY <2>1, <2>2
<1>3. plan = [ i \in 1..2 * Len(names) + 1 |->
                 IF i = 1 THEN DropInsWrite(profile)
                 ELSE ClassWrite(profile, names[i \div 2], Mode(i)) ]
  BY Zenon DEF build_apply_plan, ClassWrite, DropInsWrite
<1> HIDE DEF plan
<1>4. ~no_classes => \A c \in classes : \E i \in 1..Len(names) : names[i] = c
  BY <1>1, SetToSeqIsSeq
<1> HIDE DEF names
<1>5. plan \in [1..2 * Len(names) + 1 -> {plan[i] : i \in DOMAIN plan}]
  BY <1>3
<1>6. IsSeq(plan) /\ Len(plan) = 2 * Len(names) + 1
  BY <1>2, <1>3, <1>5 DEF IsSeq
<1>7. ASSUME NEW i \in 2..Len(plan)
      PROVE  /\ i \div 2 \in 1..Len(names) /\ Mode(i) \in Modes
             /\ plan[i] = ClassWrite(profile, names[i \div 2], Mode(i))
  <2>1. i \div 2 \in 1..Len(names)
    BY <1>2, <1>6
  <2>2. Mode(i) \in Modes
    BY DEF Modes
  <2>3. plan[i] = ClassWrite(profile, names[i \div 2], Mode(i))
    BY <1>2, <1>3, <1>6
  <2> QED BY <2>1, <2>2, <2>3
<1>8. ASSUME ~no_classes, NEW c \in classes, NEW mode \in Modes
      PROVE  \E i \in 2..Len(plan) : plan[i] = ClassWrite(profile, c, mode)
  <2>1. PICK k \in 1..Len(names) : names[k] = c
    BY <1>4, <1>8
  <2>2. CASE mode = "system"
    <3> DEFINE i == 2 * k
    <3>1. i \in 2..Len(plan) /\ i \div 2 = k /\ i % 2 = 0
      BY <1>2, <1>6
    <3>2. plan[i] = ClassWrite(profile, c, mode)
      BY <1>7, <2>1, <2>2, <3>1
    <3> QED BY <3>1, <3>2
  <2>3. CASE mode = "user"
    <3> DEFINE i == 2 * k + 1
    <3>1. i \in 2..Len(plan) /\ i \div 2 = k /\ i % 2 = 1
      BY <1>2, <1>6
    <3>2. plan[i] = ClassWrite(profile, c, mode)
      BY <1>7, <2>1, <2>3, <3>1
    <3> QED BY <3>1, <3>2
  <2> QED BY <2>2, <2>3 DEF Modes
<1>9. plan[1] = DropInsWrite(profile) /\ Len(plan) >= 1
  BY <1>2, <1>3, <1>6
<1> QED BY <1>2, <1>6, <1>7, <1>8, <1>9 DEF plan

-----------------------------------------------------------------------------
(* What a valid profile makes of its plan.                                 *)

\* Slices of classes end in .slice; the drop-ins do not.
LEMMA DefaultSliceEnds ==
  ASSUME NEW c
  PROVE  IsSuffix(<<".", "slice">>, default_slice(c)) /\ IsPrefix(<<"resguard", "-">>, default_slice(c))
<1> DEFINE slice == default_slice(c) end == <<".", "slice">>
<1>1. slice = <<"resguard", "-", c, ".", "slice">>
  BY DEF default_slice
<1>2. Len(slice) = 5 /\ slice[4] = "." /\ slice[5] = "slice" /\ slice[1] = "resguard" /\ slice[2] = "-"
  BY <1>1
<1>3. Len(end) = 2 /\ end[1] = "." /\ end[2] = "slice"
  OBVIOUS
<1> HIDE DEF slice, end
<1>4. Reverse(slice) = [i \in 1..5 |-> slice[(5 - i) + 1]]
  BY <1>2 DEF Reverse
<1>5. Reverse(end) = [i \in 1..2 |-> end[(2 - i) + 1]]
  BY <1>3 DEF Reverse
<1> DEFINE a == Reverse(end) b == Reverse(slice)
<1>6. Len(a) = 2 /\ a[1] = "slice" /\ a[2] = "."
  BY <1>3, <1>5
<1>7. Len(b) = 5 /\ b[1] = "slice" /\ b[2] = "."
  BY <1>2, <1>4
<1> HIDE DEF a, b
<1>8. SubSeq(a, 1, 2) = SubSeq(b, 1, 2)
  BY <1>6, <1>7
<1>9. IsSuffix(end, slice)
  BY <1>6, <1>7, <1>8 DEF IsSuffix, IsPrefix, a, b
<1> DEFINE start == <<"resguard", "-">>
<1>10. Len(start) = 2 /\ start[1] = "resguard" /\ start[2] = "-"
  OBVIOUS
<1> HIDE DEF start
<1>11. SubSeq(start, 1, 2) = SubSeq(slice, 1, 2)
  BY <1>2, <1>10
<1>12. IsPrefix(start, slice)
  BY <1>2, <1>10, <1>11 DEF IsPrefix
<1> QED BY <1>9, <1>12 DEF end, start, slice

LEMMA DropInsDoNot == ~IsSuffix(<<".", "slice">>, <<"drop-ins">>)
  BY DEF IsSuffix, IsPrefix, Reverse

LEMMA ValidClasses ==
  ASSUME NEW classes, NEW root, validate_classes(classes, root) = {}, NEW c \in DOMAIN classes
  PROVE  /\ classes[c].slice_name = NoName \/ IsSliceName(classes[c].slice_name)
         /\ validate_memory(classes[c].memory_high, classes[c].memory_max)
<1> DEFINE class == classes[c]
           name == Wrong(class.slice_name = NoName \/ IsSliceName(class.slice_name), <<root, c, "sliceName">>)
           memory == Wrong(validate_memory(class.memory_high, class.memory_max), <<root, c>>)
<1>1. ClassErrors(class, root, c) = {}
  BY DEF validate_classes
<1>2. name \subseteq ClassErrors(class, root, c) /\ memory \subseteq ClassErrors(class, root, c)
  BY Zenon DEF ClassErrors
<1>3. name = {} /\ memory = {}
  <2> HIDE DEF name, memory
  <2> QED BY <1>1, <1>2
<1>4. class.slice_name = NoName \/ IsSliceName(class.slice_name)
  BY <1>3, Zenon DEF Wrong
<1>5. validate_memory(class.memory_high, class.memory_max)
  BY <1>3, Zenon DEF Wrong
<1> QED BY <1>4, <1>5

LEMMA ValidParts ==
  ASSUME NEW profile, validate_profile(profile) = {}
  PROVE  /\ validate_memory(profile.memory_high, profile.memory_max)
         /\ validate_classes(profile.classes, "classes") = {}
         /\ validate_classes(profile.slices, "slices") = {}
<1>1. Wrong(validate_memory(profile.memory_high, profile.memory_max), <<"memory", "user">>) = {}
  BY Zenon DEF validate_profile
<1>2. validate_memory(profile.memory_high, profile.memory_max)
  BY <1>1, Zenon DEF Wrong
<1>3. validate_classes(profile.classes, "classes") = {}
  BY Zenon DEF validate_profile
<1>4. validate_classes(profile.slices, "slices") = {}
  BY Zenon DEF validate_profile
<1> QED BY <1>2, <1>3, <1>4

LEMMA ValidClass ==
  ASSUME NEW profile, Valid(profile), NEW c \in DOMAIN collect_classes(profile)
  PROVE  LET class == collect_classes(profile)[c] IN
         /\ class.slice_name = NoName \/ IsSliceName(class.slice_name)
         /\ validate_memory(class.memory_high, class.memory_max)
<1>1. /\ validate_classes(profile.classes, "classes") = {}
      /\ validate_classes(profile.slices, "slices") = {}
  BY ValidParts DEF Valid
<1>2. CASE c \in DOMAIN profile.classes
  <2>1. collect_classes(profile)[c] = profile.classes[c]
    BY <1>2 DEF collect_classes, Over
  <2> QED BY <1>1, <1>2, <2>1, ValidClasses
<1>3. CASE c \notin DOMAIN profile.classes
  <2>1. c \in DOMAIN profile.slices /\ collect_classes(profile)[c] = profile.slices[c]
    BY <1>3 DEF collect_classes, Over
  <2> QED BY <1>1, <2>1, ValidClasses
<1> QED BY <1>2, <1>3

LEMMA SliceEnds ==
  ASSUME NEW profile, Valid(profile), NEW c \in DOMAIN collect_classes(profile)
  PROVE  /\ IsSuffix(<<".", "slice">>, SliceOf(collect_classes(profile), c))
         /\ SliceOf(collect_classes(profile), c) # <<"drop-ins">>
<1>1. IsSuffix(<<".", "slice">>, SliceOf(collect_classes(profile), c))
  BY ValidClass, DefaultSliceEnds DEF SliceOf, IsSliceName
<1> QED BY <1>1, DropInsDoNot

LEMMA InOrder ==
  ASSUME NEW high, NEW max, validate_memory(high, max), high # NoSize, max # NoSize
  PROVE  parse_size_to_bytes(high) <= parse_size_to_bytes(max)
  BY DEF validate_memory

LEMMA ValidPlan ==
  ASSUME NEW profile, Valid(profile), NEW no_classes \in BOOLEAN,
         NEW i \in 1..Len(build_apply_plan(profile, no_classes))
  PROVE  LET w == build_apply_plan(profile, no_classes)[i] IN Fit(w) /\ w[2] # Absent
<1> DEFINE w == build_apply_plan(profile, no_classes)[i]
<1>1. CASE w = DropInsWrite(profile)
  <2>0. w = <<DropIns, DropInsOf(profile)>>
    BY <1>1, Zenon DEF DropInsWrite
  <2>2. DropIns[1] \in Modes
    BY DEF DropIns, Modes
  <2>3. Ordered(DropInsOf(profile))
    BY ValidParts, InOrder DEF Valid, Ordered, DropInsOf
  <2> HIDE DEF w
  <2>1. w[1] = DropIns /\ w[2] = DropInsOf(profile)
    BY <2>0
  <2>4. DropInsOf(profile) # Absent
    BY DEF Valid, IsProfile
  <2>5. Fit(w) /\ w[2] # Absent
    BY <2>1, <2>2, <2>3, <2>4 DEF Fit
  <2> QED BY <2>5 DEF w
<1>2. ASSUME NEW c \in DOMAIN collect_classes(profile), NEW mode \in Modes, w = ClassWrite(profile, c, mode)
      PROVE  Fit(w) /\ w[2] # Absent
  <2> DEFINE classes == collect_classes(profile)
  <2>0. w = << <<mode, SliceOf(classes, c)>>, SliceUnit(classes, c) >>
    BY <1>2, Zenon DEF ClassWrite
  <2>3. Ordered(SliceUnit(classes, c))
    <3>1. validate_memory(classes[c].memory_high, classes[c].memory_max)
      BY ValidClass
    <3>2. /\ SliceUnit(classes, c).memory_high = classes[c].memory_high
          /\ SliceUnit(classes, c).memory_max = classes[c].memory_max
      BY DEF SliceUnit
    <3> HIDE DEF classes
    <3> QED BY <3>1, <3>2, InOrder DEF Ordered
  <2> HIDE DEF w
  <2>1. w[1] = <<mode, SliceOf(classes, c)>> /\ w[2] = SliceUnit(classes, c)
    BY <2>0
  <2>2. w[1][1] = mode
    BY <2>1
  <2>4. w[2] # Absent
    BY <2>1 DEF Valid, IsProfile
  <2>5. Fit(w) /\ w[2] # Absent
    BY <2>1, <2>2, <2>3, <2>4 DEF Fit
  <2> QED BY <2>5 DEF w
<1>3. /\ build_apply_plan(profile, no_classes)[1] = DropInsWrite(profile)
      /\ i >= 2 => \E c \in DOMAIN collect_classes(profile), mode \in Modes : w = ClassWrite(profile, c, mode)
  <2>1. IsProfile(profile)
    BY DEF Valid
  <2> QED BY <2>1, PlanWrites
<1>4. w = DropInsWrite(profile) \/ \E c \in DOMAIN collect_classes(profile), mode \in Modes : w = ClassWrite(profile, c, mode)
  BY <1>3
<1> QED BY <1>1, <1>2, <1>4

\* If every class has a slice of its own no unit is written twice with different
\* contents.
LEMMA OneContent ==
  ASSUME NEW profile, Valid(profile), NEW no_classes \in BOOLEAN, OwnSlices(profile),
         NEW i \in 1..Len(build_apply_plan(profile, no_classes)),
         NEW j \in 1..Len(build_apply_plan(profile, no_classes)),
         build_apply_plan(profile, no_classes)[i][1] = build_apply_plan(profile, no_classes)[j][1]
  PROVE  build_apply_plan(profile, no_classes)[i][2] = build_apply_plan(profile, no_classes)[j][2]
<1> DEFINE plan == build_apply_plan(profile, no_classes)
           classes == collect_classes(profile)
<1>1. \A k \in 1..Len(plan) :
        \/ plan[k] = DropInsWrite(profile)
        \/ \E c \in DOMAIN classes, mode \in Modes : plan[k] = ClassWrite(profile, c, mode)
  <2>1. IsProfile(profile)
    BY DEF Valid
  <2> QED BY <2>1, PlanWrites
<1>2. /\ DropInsWrite(profile)[1][2] = <<"drop-ins">>
      /\ \A c \in DOMAIN classes, mode \in Modes :
           /\ ClassWrite(profile, c, mode)[1][2] = SliceOf(classes, c)
           /\ ClassWrite(profile, c, mode)[2] = SliceUnit(classes, c)
  BY DEF DropInsWrite, DropIns, ClassWrite
<1>3. \A c \in DOMAIN classes : SliceOf(classes, c) # <<"drop-ins">>
  BY SliceEnds
<1>4. \A c, d \in DOMAIN classes : SliceOf(classes, c) = SliceOf(classes, d) => c = d
  BY DEF OwnSlices
<1>0. /\ i \in 1..Len(plan) /\ j \in 1..Len(plan) /\ plan[i][1] = plan[j][1]
  OBVIOUS
<1> SUFFICES plan[i][2] = plan[j][2]
  OBVIOUS
<1> HIDE DEF plan, classes
<1>5. CASE plan[i] = DropInsWrite(profile) \/ plan[j] = DropInsWrite(profile)
  <2> DEFINE d == <<"drop-ins">>
  <2> HIDE DEF d
  <2>1. /\ DropInsWrite(profile)[1][2] = d
        /\ \A c \in DOMAIN classes, mode \in Modes : ClassWrite(profile, c, mode)[1][2] # d
    BY <1>2, <1>3 DEF d
  <2>2. \A k \in 1..Len(plan) : plan[k][1][2] = d => plan[k] = DropInsWrite(profile)
    BY <1>1, <2>1
  <2>3. plan[i][1][2] = d /\ plan[j][1][2] = d
    BY <1>0, <1>5, <2>1
  <2> QED BY <1>0, <2>2, <2>3
<1>6. ASSUME NEW c \in DOMAIN classes, NEW m \in Modes, plan[i] = ClassWrite(profile, c, m),
             NEW d \in DOMAIN classes, NEW n \in Modes, plan[j] = ClassWrite(profile, d, n)
      PROVE  plan[i][2] = plan[j][2]
  <2>1. SliceOf(classes, c) = SliceOf(classes, d)
    BY <1>0, <1>2, <1>6
  <2> QED BY <1>2, <1>4, <1>6, <2>1
<1> QED BY <1>0, <1>1, <1>5, <1>6

-----------------------------------------------------------------------------
(* Updates of the record of a job.                                         *)

LEMMA JobFields ==
  DOMAIN NoJob = { "op", "name", "apply", "no_classes", "run", "profile", "todo", "saved", "code",
                   "slice", "class", "fallback", "fell" }
  BY DEF NoJob

\* All that is not in fields is as it was.
Changes(r, s, fields) ==
  DOMAIN s = DOMAIN NoJob /\ \A f \in DOMAIN NoJob \ fields : s[f] = r[f]

LEMMA OneField ==
  ASSUME NEW r, DOMAIN r = DOMAIN NoJob, NEW v
  PROVE  /\ LET s == [r EXCEPT !.todo = v] IN Changes(r, s, {"todo"}) /\ s.todo = v
         /\ LET s == [r EXCEPT !.name = v] IN Changes(r, s, {"name"}) /\ s.name = v
         /\ LET s == [r EXCEPT !.slice = v] IN Changes(r, s, {"slice"}) /\ s.slice = v
         /\ LET s == [r EXCEPT !.code = v] IN Changes(r, s, {"code"}) /\ s.code = v
  BY JobFields DEF Changes

LEMMA ChangesSays ==
  ASSUME NEW r, NEW s, NEW fields, Changes(r, s, fields)
  PROVE  /\ DOMAIN s = DOMAIN NoJob
         /\ "op" \notin fields => s.op = r.op
         /\ "name" \notin fields => s.name = r.name
         /\ "apply" \notin fields => s.apply = r.apply
         /\ "no_classes" \notin fields => s.no_classes = r.no_classes
         /\ "run" \notin fields => s.run = r.run
         /\ "profile" \notin fields => s.profile = r.profile
         /\ "todo" \notin fields => s.todo = r.todo
         /\ "saved" \notin fields => s.saved = r.saved
         /\ "slice" \notin fields => s.slice = r.slice
         /\ "class" \notin fields => s.class = r.class
         /\ "fallback" \notin fields => s.fallback = r.fallback
         /\ "fell" \notin fields => s.fell = r.fell
  BY JobFields DEF Changes

-----------------------------------------------------------------------------
(* A step of p leaves the other processes where they are.                  *)

Local(p) == Placed(p) /\ Buffers(p) /\ OnPlan(p)

Elsewhere(p) ==
  /\ DOMAIN pc' = Processes /\ DOMAIN job' = Processes
  /\ \A q \in Processes \ {p} : pc'[q] = pc[q] /\ job'[q] = job[q]

\* OnPlan reads nothing but the label, the job and the plan.
Follows(label, r, plan, done) ==
  label \in {"write", "record"} =>
    /\ Valid(r.profile)
    /\ Len(r.todo) <= Len(plan) /\ (label = "record" => Len(r.todo) = 0)
    /\ \A i \in 1..Len(r.todo) : r.todo[i] = plan[done + i]
    /\ \A i \in 1..done : \E j \in 1..Len(r.saved) : r.saved[j][1] = plan[i][1]
    /\ \A j \in 1..Len(r.saved) : \E i \in 1..done : r.saved[j][1] = plan[i][1]

LEMMA OthersStay ==
  ASSUME NEW p \in Processes, Elsewhere(p), NEW q \in Processes \ {p}, Local(q)
  PROVE  Local(q)'
<1>1. pc'[q] = pc[q] /\ job'[q] = job[q]
  BY DEF Elsewhere
<1>2. Placed(q)'
  BY <1>1 DEF Local, Placed
<1>3. Buffers(q)'
  BY <1>1 DEF Local, Buffers
<1>4. Plan(q)' = Plan(q) /\ Done(q)' = Done(q)
  BY <1>1 DEF Plan, Done
<1>5. OnPlan(q)'
  <2>1. OnPlan(q)' <=> Follows(pc'[q], job'[q], Plan(q)', Done(q)')
    BY Zenon DEF OnPlan, Follows
  <2>2. OnPlan(q) <=> Follows(pc[q], job[q], Plan(q), Done(q))
    BY Zenon DEF OnPlan, Follows
  <2>3. Follows(pc'[q], job'[q], Plan(q)', Done(q)') <=> Follows(pc[q], job[q], Plan(q), Done(q))
    BY <1>1, <1>4
  <2> QED BY <2>1, <2>2, <2>3 DEF Local
<1> QED BY <1>2, <1>3, <1>5 DEF Local

LEMMA Moves ==
  ASSUME DOMAIN pc = Processes, DOMAIN job = Processes, NEW p \in Processes, NEW label,
         Goto(p, label)
  PROVE  /\ pc'[p] = label
         /\ job' = job => Elsewhere(p) /\ job'[p] = job[p]
         /\ \A r : Set(p, r) => Elsewhere(p) /\ job'[p] = r
  BY DEF Goto, Set, Elsewhere

LEMMA AllFitEmpty == AllFit(<<>>)
  BY EmptyIsSeq DEF AllFit

LEMMA CodedJob ==
  ASSUME NEW code
  PROVE  LET r == [NoJob EXCEPT !.code = code] IN
         /\ Changes(NoJob, r, {"code"}) /\ r = [NoJob EXCEPT !.code = r.code]
         /\ r.op = "none" /\ r.run = NoRun /\ r.no_classes = FALSE /\ r.todo = <<>> /\ r.saved = <<>>
<1> DEFINE r == [NoJob EXCEPT !.code = code]
<1>1. Changes(NoJob, r, {"code"}) /\ r.code = code
  BY OneField
<1>2. r.op = NoJob.op /\ r.run = NoJob.run /\ r.no_classes = NoJob.no_classes
      /\ r.todo = NoJob.todo /\ r.saved = NoJob.saved
  BY <1>1, ChangesSays
<1>3. /\ NoJob.op = "none" /\ NoJob.run = NoRun /\ NoJob.no_classes = FALSE
      /\ NoJob.todo = <<>> /\ NoJob.saved = <<>>
  BY DEF NoJob
<1> QED BY <1>1, <1>2, <1>3

LEMMA EndsLocal ==
  ASSUME DOMAIN pc = Processes, DOMAIN job = Processes, NEW p \in Processes, NEW code, Ends(p, code)
  PROVE  /\ Local(p)' /\ Elsewhere(p) /\ pc'[p] = "idle" /\ job'[p].code = code
         /\ job'[p].op = "none"
<1>1. /\ pc'[p] = "idle" /\ Elsewhere(p) /\ job'[p] = [NoJob EXCEPT !.code = code]
  BY Moves DEF Ends
<1>2. /\ DOMAIN job'[p] = DOMAIN NoJob /\ job'[p] = [NoJob EXCEPT !.code = job'[p].code]
      /\ job'[p].op = "none" /\ job'[p].run = NoRun /\ job'[p].no_classes = FALSE
      /\ job'[p].todo = <<>> /\ job'[p].saved = <<>>
  BY <1>1, CodedJob DEF Changes
<1>3. job'[p].code = code
  BY <1>1, OneField
<1>4. Placed(p)'
  <2>1. NoRun.profile = Nobody
    BY DEF NoRun
  <2> QED BY <1>1, <1>2, <2>1 DEF Placed, Calls, Applying, RunCalls
<1>5. Buffers(p)'
  BY <1>1, <1>2, AllFitEmpty DEF Buffers
<1>6. OnPlan(p)'
  BY <1>1 DEF OnPlan
<1> QED BY <1>1, <1>2, <1>3, <1>4, <1>5, <1>6 DEF Local

LEMMA StoredProfile ==
  ASSUME TypeInv, NEW name \in Names, Whole(profiles[name])
  PROVE  IsProfile(profiles[name])
<1>1. profiles[name] \in HandWritten \cup {build_auto_profile(machine)} /\ machine \in Machines
  BY DEF TypeInv, Functions, Whole
<1> QED BY <1>1, LaunchAssumption

LEMMA BeginLocal ==
  ASSUME TypeInv, NEW p \in Processes, Begin(p)
  PROVE  /\ Local(p)' /\ Elsewhere(p) /\ IsRequest(job'[p])
         /\ job'[p].op = "setup" => pc'[p] = "cut_profile"
         /\ job'[p].op = "apply" => pc'[p] = "load"
         /\ job'[p].op = "rollback" => pc'[p] = "read_backup"
         /\ job'[p].op \in {"run", "rescue"} => pc'[p] = "resolve"
         /\ job'[p].op \in {"setup", "apply", "rollback", "run", "rescue"}
<1>1. DOMAIN pc = Processes /\ DOMAIN job = Processes
  BY DEF TypeInv, Functions
<1>2. PICK c \in Commands[p] : Set(p, c) /\ Goto(p, FirstCall(c.op))
  BY DEF Begin
<1>3. IsRequest(c)
  BY LaunchAssumption
<1>4. Elsewhere(p) /\ pc'[p] = FirstCall(c.op) /\ job'[p] = c
  BY <1>1, <1>2, Moves
<1>5. c.op \in {"setup", "apply", "rollback", "run", "rescue"}
  BY <1>3 DEF IsRequest, IsWriter
<1>6. /\ c.op = "setup" => pc'[p] = "cut_profile"
      /\ c.op = "apply" => pc'[p] = "load"
      /\ c.op = "rollback" => pc'[p] = "read_backup"
      /\ c.op \in {"run", "rescue"} => pc'[p] = "resolve"
  BY <1>4, <1>5 DEF FirstCall
<1>7. Placed(p)'
  BY <1>3, <1>4, <1>5, <1>6 DEF Placed, Calls, Applying, RunCalls, IsRequest
<1>8. Buffers(p)'
  BY <1>3, <1>4, <1>5, <1>6, AllFitEmpty DEF Buffers, IsRequest
<1>9. OnPlan(p)'
  BY <1>5, <1>6 DEF OnPlan
<1> QED BY <1>3, <1>4, <1>5, <1>6, <1>7, <1>8, <1>9 DEF Local

LEMMA CutProfileLocal ==
  ASSUME TypeInv, NEW p \in Processes, CutProfile(p)
  PROVE  Local(p)' /\ Elsewhere(p)
<1>1. /\ pc[p] = "cut_profile" /\ pc'[p] = "fill_profile" /\ job'[p] = job[p] /\ Elsewhere(p)
  BY Moves DEF TypeInv, Functions, CutProfile
<1>2. Placed(p) /\ Buffers(p)
  BY DEF TypeInv
<1>3. Placed(p)'
  BY <1>1, <1>2 DEF Placed, Calls, Applying, RunCalls
<1>4. Buffers(p)' /\ OnPlan(p)'
  BY <1>1, <1>2 DEF Buffers, OnPlan
<1> QED BY <1>1, <1>3, <1>4 DEF Local

LEMMA FillProfileLocal ==
  ASSUME TypeInv, NEW p \in Processes, FillProfile(p)
  PROVE  /\ Local(p)' /\ Elsewhere(p)
         /\ IF job[p].apply THEN pc'[p] = "load" /\ job'[p] = job[p] ELSE pc'[p] = "idle" /\ job'[p].op = "none"
<1>1. DOMAIN pc = Processes /\ DOMAIN job = Processes /\ Placed(p) /\ Buffers(p)
  BY DEF TypeInv, Functions
<1>2. CASE job[p].apply
  <2>1. pc[p] = "fill_profile" /\ pc'[p] = "load" /\ job'[p] = job[p] /\ Elsewhere(p)
    BY <1>1, <1>2, Moves DEF FillProfile
  <2>2. Placed(p)'
    BY <1>1, <2>1 DEF Placed, Calls, Applying, RunCalls
  <2>3. Buffers(p)' /\ OnPlan(p)'
    BY <1>1, <2>1 DEF Buffers, OnPlan
  <2> QED BY <1>2, <2>1, <2>2, <2>3 DEF Local
<1>3. CASE ~job[p].apply
  BY <1>1, <1>3, EndsLocal DEF FillProfile
<1> QED BY <1>2, <1>3

LEMMA LoadForApplyLocal ==
  ASSUME TypeInv, NEW p \in Processes, LoadForApply(p)
  PROVE  /\ Local(p)' /\ Elsewhere(p)
         /\ \/ /\ pc'[p] = "idle" /\ job'[p].op = "none"
            \/ /\ pc'[p] = "write" /\ Changes(job[p], job'[p], {"profile", "todo"})
               /\ job'[p].profile = profiles[job[p].name] /\ Done(p)' = 0
<1> DEFINE profile == profiles[job[p].name]
           plan == build_apply_plan(profile, job[p].no_classes)
<1>1. DOMAIN pc = Processes /\ DOMAIN job = Processes /\ Placed(p) /\ Buffers(p)
  BY DEF TypeInv, Functions
<1>2. CASE \E code : Ends(p, code)
  BY <1>1, <1>2, EndsLocal
<1>3. CASE /\ Whole(profile) /\ validate_profile(profile) = {}
           /\ Goto(p, "write") /\ Set(p, [job[p] EXCEPT !.profile = profile, !.todo = plan])
  <2>1. /\ pc[p] = "load" /\ pc'[p] = "write" /\ Elsewhere(p)
        /\ job'[p] = [job[p] EXCEPT !.profile = profile, !.todo = plan]
    BY <1>1, <1>3, Moves DEF LoadForApply
  <2>2. DOMAIN job[p] = DOMAIN NoJob /\ job[p].name \in Names /\ job[p].no_classes \in BOOLEAN
        /\ job[p].op \in {"setup", "apply"}
    BY <1>1, <2>1 DEF Placed, Applying
  <2>3. IsProfile(profile)
    BY <1>3, <2>2, StoredProfile
  <2>4. Valid(profile)
    BY <1>3, <2>3 DEF Valid
  <2>5. IsSeq(plan) /\ Len(plan) >= 1
    BY <2>2, <2>3, PlanWrites
  <2>6. AllFit(plan) /\ plan # <<>> /\ Len(plan) \in Nat
    BY <2>2, <2>4, <2>5, ValidPlan, SeqLength DEF AllFit
  <2> HIDE DEF profile, plan
  <2>7. Changes(job[p], job'[p], {"profile", "todo"}) /\ job'[p].profile = profile /\ job'[p].todo = plan
    BY <2>1, <2>2, JobFields DEF Changes
  <2>8. /\ DOMAIN job'[p] = DOMAIN NoJob /\ job'[p].op = job[p].op /\ job'[p].name = job[p].name
        /\ job'[p].no_classes = job[p].no_classes /\ job'[p].run = job[p].run /\ job'[p].saved = job[p].saved
    BY <2>7, ChangesSays
  <2>9. Placed(p)'
    BY <1>1, <2>1, <2>2, <2>8 DEF Placed, Calls, Applying, RunCalls
  <2>10. Buffers(p)'
    BY <1>1, <2>1, <2>6, <2>7, <2>8 DEF Buffers
  <2>11. Plan(p)' = plan /\ Done(p)' = 0
    BY <2>6, <2>7, <2>8 DEF Plan, Done, plan, profile
  <2>12. OnPlan(p)'
    <3>1. Len(job'[p].saved) = 0
      BY <1>1, <2>1, <2>8, EmptyIsSeq DEF Buffers
    <3> QED BY <2>1, <2>4, <2>6, <2>7, <2>11, <3>1 DEF OnPlan
  <2> QED BY <2>1, <2>7, <2>9, <2>10, <2>11, <2>12 DEF Local, profile
<1>4. QED
  BY <1>2, <1>3 DEF LoadForApply

\* after remembers the units of saved and unit, and no other.
Remembers(saved, unit, after) ==
  /\ \E k \in 1..Len(after) : after[k][1] = unit
  /\ \A j \in 1..Len(saved) : \E k \in 1..Len(after) : after[k][1] = saved[j][1]
  /\ \A k \in 1..Len(after) : after[k][1] = unit \/ \E j \in 1..Len(saved) : after[k][1] = saved[j][1]

LEMMA SavingIs ==
  ASSUME NEW saved, AllFit(saved), UnitFiles, NEW unit, unit[1] \in Modes
  PROVE  AllFit(Saving(saved, unit)) /\ Remembers(saved, unit, Saving(saved, unit))
<1>1. IsSeq(saved) /\ Len(saved) \in Nat /\ DOMAIN saved = 1..Len(saved)
  BY SeqLength DEF AllFit
<1>2. CASE \E i \in DOMAIN saved : saved[i][1] = unit
  BY <1>1, <1>2 DEF Saving, Remembers
<1>3. CASE ~\E i \in DOMAIN saved : saved[i][1] = unit
  <2> DEFINE w == <<unit, Found(unit)>> after == Append(saved, w)
  <2>1. w[1] = unit /\ w[2] = Found(unit)
    OBVIOUS
  <2>2. Fit(w)
    BY <2>1 DEF UnitFiles, Found, Fit
  <2>3. Saving(saved, unit) = after
    BY <1>3 DEF Saving
  <2> HIDE DEF w
  <2>4. /\ IsSeq(after) /\ Len(after) = Len(saved) + 1 /\ after[Len(saved) + 1] = w
        /\ \A i \in 1..Len(saved) : after[i] = saved[i]
    BY <1>1, AppendIsSeq
  <2> HIDE DEF after
  <2>5. AllFit(after)
    <3>1. \A i \in 1..Len(after) : i \in 1..Len(saved) \/ i = Len(saved) + 1
      BY <1>1, <2>4
    <3> QED BY <1>1, <2>2, <2>4, <3>1 DEF AllFit
  <2>6. Len(saved) + 1 \in 1..Len(after) /\ after[Len(saved) + 1][1] = unit
    BY <1>1, <2>1, <2>4
  <2>7. \A j \in 1..Len(saved) : j \in 1..Len(after) /\ after[j][1] = saved[j][1]
    BY <1>1, <2>4
  <2>8. \A k \in 1..Len(after) : after[k][1] = unit \/ (k \in 1..Len(saved) /\ after[k][1] = saved[k][1])
    BY <1>1, <2>1, <2>4
  <2>9. Remembers(saved, unit, after)
    BY <2>6, <2>7, <2>8 DEF Remembers
  <2> QED BY <2>3, <2>5, <2>9 DEF after
<1> QED BY <1>2, <1>3

LEMMA WriteUnitLocal ==
  ASSUME TypeInv, NEW p \in Processes, WriteUnit(p)
  PROVE  /\ Local(p)' /\ Elsewhere(p) /\ pc'[p] \in {"write", "record"}
         /\ job'[p].op = job[p].op /\ job'[p].profile = job[p].profile /\ Plan(p)' = Plan(p)
         /\ job'[p].no_classes = job[p].no_classes
         /\ Done(p)' = Done(p) + 1 /\ Done(p) \in Nat /\ Done(p) + 1 <= Len(Plan(p))
         /\ Head(job[p].todo) = Plan(p)[Done(p) + 1] /\ Len(Plan(p)) \in Nat
         /\ pc'[p] = "record" => Done(p) + 1 = Len(Plan(p))
         /\ job'[p].name = job[p].name
<1> DEFINE todo == job[p].todo write == Head(todo) saved == Saving(job[p].saved, write[1])
<1>1. /\ DOMAIN pc = Processes /\ DOMAIN job = Processes /\ Placed(p) /\ Buffers(p) /\ OnPlan(p)
      /\ pc[p] = "write" /\ UnitFiles
  BY DEF TypeInv, Functions, WriteUnit
<1>2. /\ todo # <<>> /\ IsSeq(todo) /\ \A i \in 1..Len(todo) : Fit(todo[i])
  BY <1>1 DEF Buffers, AllFit
<1>3. /\ IsSeq(Tail(todo)) /\ write = todo[1] /\ Len(todo) >= 1 /\ Len(Tail(todo)) = Len(todo) - 1
      /\ \A i \in 1..Len(Tail(todo)) : Tail(todo)[i] = todo[i + 1]
      /\ Len(todo) \in Nat
  BY <1>2, TailIsSeq, SeqLength
<1>4. AllFit(Tail(todo)) /\ Fit(write)
  BY <1>2, <1>3 DEF AllFit
<1> DEFINE next == IF Len(todo) = 1 THEN "record" ELSE "write"
<1>5. /\ pc'[p] = next /\ Elsewhere(p)
      /\ job'[p] = [job[p] EXCEPT !.todo = Tail(@), !.saved = Saving(@, write[1])]
  BY <1>1, Moves DEF WriteUnit
<1>6. DOMAIN job[p] = DOMAIN NoJob
  BY <1>1 DEF Placed
<1>7. Changes(job[p], job'[p], {"todo", "saved"}) /\ job'[p].todo = Tail(todo) /\ job'[p].saved = saved
  BY <1>5, <1>6, JobFields DEF Changes
<1>8. /\ DOMAIN job'[p] = DOMAIN NoJob /\ job'[p].op = job[p].op /\ job'[p].name = job[p].name
      /\ job'[p].no_classes = job[p].no_classes /\ job'[p].run = job[p].run
      /\ job'[p].profile = job[p].profile
  BY <1>7, ChangesSays
<1>9. AllFit(saved) /\ Remembers(job[p].saved, write[1], saved)
  <2>1. AllFit(job[p].saved) /\ write[1][1] \in Modes
    BY <1>1, <1>4 DEF Fit, Buffers
  <2> QED BY <1>1, <2>1, SavingIs
<1> HIDE DEF todo, write, saved
<1>10. Placed(p)'
  BY <1>1, <1>5, <1>8 DEF Placed, Calls, Applying, RunCalls
<1>11. Tail(todo) = <<>> <=> Len(todo) = 1
  <2>1. Tail(todo) = <<>> <=> Len(Tail(todo)) = 0
    BY <1>3, SeqLength
  <2> QED BY <1>3, <2>1
<1>12. Buffers(p)'
  BY <1>4, <1>5, <1>7, <1>9, <1>11 DEF Buffers
<1>13. Plan(p)' = Plan(p)
  BY <1>8 DEF Plan
<1>14. /\ Valid(job[p].profile) /\ Len(todo) <= Len(Plan(p)) /\ job[p].no_classes \in BOOLEAN
       /\ \A i \in 1..Len(todo) : todo[i] = Plan(p)[Done(p) + i]
       /\ \A i \in 1..Done(p) : \E j \in 1..Len(job[p].saved) : job[p].saved[j][1] = Plan(p)[i][1]
       /\ \A j \in 1..Len(job[p].saved) : \E i \in 1..Done(p) : job[p].saved[j][1] = Plan(p)[i][1]
  BY <1>1 DEF OnPlan, Placed, todo
<1>15. IsSeq(Plan(p)) /\ Len(Plan(p)) \in Nat
  BY <1>14, PlanWrites, SeqLength DEF Valid, Plan
<1>16. Done(p) = Len(Plan(p)) - Len(todo) /\ Done(p)' = Len(Plan(p)) - Len(Tail(todo))
  BY <1>7, <1>13 DEF Done, todo
<1>17. /\ Done(p)' = Done(p) + 1 /\ Done(p) \in Nat /\ Done(p) + 1 <= Len(Plan(p))
       /\ Len(todo) = 1 => Done(p) + 1 = Len(Plan(p))
  <2> DEFINE n == Len(Plan(p)) m == Len(todo) k == Len(Tail(todo))
  <2>1. n \in Nat /\ m \in Nat /\ m >= 1 /\ k = m - 1 /\ m <= n
    BY <1>3, <1>14, <1>15
  <2>2. Done(p) = n - m /\ Done(p)' = n - k
    BY <1>16
  <2> HIDE DEF n, m, k
  <2>3. /\ Done(p)' = Done(p) + 1 /\ Done(p) \in Nat /\ Done(p) + 1 <= n
        /\ m = 1 => Done(p) + 1 = n
    BY <2>1, <2>2
  <2> QED BY <2>3 DEF n, m
<1>18. write = Plan(p)[Done(p) + 1]
  BY <1>3, <1>14
<1>19. OnPlan(p)'
  <2>1. \A i \in 1..Len(Tail(todo)) : Tail(todo)[i] = Plan(p)[Done(p) + 1 + i]
    <3> SUFFICES ASSUME NEW i \in 1..Len(Tail(todo)) PROVE Tail(todo)[i] = Plan(p)[Done(p) + 1 + i]
      OBVIOUS
    <3>1. i + 1 \in 1..Len(todo) /\ Done(p) + (i + 1) = Done(p) + 1 + i
      BY <1>3, <1>17
    <3> QED BY <1>3, <1>14, <3>1
  <2>2. \A i \in 1..(Done(p) + 1) : \E j \in 1..Len(saved) : saved[j][1] = Plan(p)[i][1]
    <3> SUFFICES ASSUME NEW i \in 1..(Done(p) + 1) PROVE \E j \in 1..Len(saved) : saved[j][1] = Plan(p)[i][1]
      OBVIOUS
    <3>1. CASE i = Done(p) + 1
      BY <1>9, <1>18, <3>1 DEF Remembers
    <3>2. CASE i \in 1..Done(p)
      <4>1. PICK j \in 1..Len(job[p].saved) : job[p].saved[j][1] = Plan(p)[i][1]
        BY <1>14, <3>2
      <4>2. PICK k \in 1..Len(saved) : saved[k][1] = job[p].saved[j][1]
        BY <1>9 DEF Remembers
      <4> QED BY <4>1, <4>2
    <3> QED BY <1>17, <3>1, <3>2
  <2>3. \A j \in 1..Len(saved) : \E i \in 1..(Done(p) + 1) : saved[j][1] = Plan(p)[i][1]
    <3> SUFFICES ASSUME NEW j \in 1..Len(saved) PROVE \E i \in 1..(Done(p) + 1) : saved[j][1] = Plan(p)[i][1]
      OBVIOUS
    <3>1. CASE saved[j][1] = write[1]
      BY <1>17, <1>18, <3>1
    <3>2. ASSUME NEW k \in 1..Len(job[p].saved), saved[j][1] = job[p].saved[k][1]
          PROVE  \E i \in 1..(Done(p) + 1) : saved[j][1] = Plan(p)[i][1]
      <4>1. PICK i \in 1..Done(p) : job[p].saved[k][1] = Plan(p)[i][1]
        BY <1>14
      <4>2. i \in 1..(Done(p) + 1)
        BY <1>17
      <4> QED BY <3>2, <4>1, <4>2
    <3> QED BY <1>9, <3>1, <3>2 DEF Remembers
  <2>4. Len(Tail(todo)) <= Len(Plan(p)) /\ (pc'[p] = "record" => Len(Tail(todo)) = 0)
    BY <1>3, <1>5, <1>14, <1>15
  <2> QED BY <1>7, <1>8, <1>13, <1>14, <1>17, <2>1, <2>2, <2>3, <2>4 DEF OnPlan
<1> QED BY <1>5, <1>8, <1>10, <1>12, <1>13, <1>15, <1>17, <1>18, <1>19 DEF Local, todo, write


LEMMA ReadBackupLocal ==
  ASSUME TypeInv, NEW p \in Processes, ReadBackup(p)
  PROVE  /\ Local(p)' /\ Elsewhere(p)
         /\ \/ pc'[p] = "idle" /\ job'[p].op = "none"
            \/ pc'[p] = "undo" /\ job[p].op = "rollback" /\ job'[p].op = "rollback"
<1>1. /\ DOMAIN pc = Processes /\ DOMAIN job = Processes /\ Placed(p) /\ Buffers(p) /\ StateFile
      /\ pc[p] = "read_backup"
  BY DEF TypeInv, Functions, ReadBackup
<1>2. CASE Ends(p, 1)
  BY <1>1, <1>2, EndsLocal
<1>3. CASE /\ Whole(state) /\ state.saved # <<>>
           /\ Goto(p, "undo") /\ Set(p, [job[p] EXCEPT !.todo = state.saved])
  <2>1. pc'[p] = "undo" /\ Elsewhere(p) /\ job'[p] = [job[p] EXCEPT !.todo = state.saved]
    BY <1>1, <1>3, Moves
  <2>2. Changes(job[p], job'[p], {"todo"}) /\ job'[p].todo = state.saved
    <3>1. DOMAIN job[p] = DOMAIN NoJob
      BY <1>1 DEF Placed
    <3> QED BY <2>1, <3>1, JobFields DEF Changes
  <2>3. /\ DOMAIN job'[p] = DOMAIN NoJob /\ job'[p].op = job[p].op /\ job'[p].name = job[p].name
        /\ job'[p].no_classes = job[p].no_classes /\ job'[p].run = job[p].run /\ job'[p].saved = job[p].saved
    BY <2>2, ChangesSays
  <2>4. job[p].op = "rollback" /\ AllFit(state.saved)
    BY <1>1, <1>3 DEF Placed, StateFile
  <2>5. Placed(p)'
    BY <1>1, <2>1, <2>3, <2>4 DEF Placed, Calls, Applying, RunCalls, IsWriter
  <2>6. Buffers(p)' /\ OnPlan(p)'
    BY <1>1, <1>3, <2>1, <2>2, <2>3, <2>4 DEF Buffers, OnPlan
  <2> QED BY <2>1, <2>3, <2>4, <2>5, <2>6 DEF Local
<1> QED BY <1>2, <1>3 DEF ReadBackup

LEMMA UndoLocal ==
  ASSUME TypeInv, NEW p \in Processes, Undo(p)
  PROVE  /\ Local(p)' /\ Elsewhere(p) /\ Fit(Head(job[p].todo))
         /\ \/ pc'[p] = "idle" /\ job'[p].op = "none"
            \/ pc'[p] \in {"undo", "reset"} /\ job'[p].op = job[p].op
         /\ pc'[p] = "reset" => job[p].op = "rollback"
<1> DEFINE todo == job[p].todo
<1>1. /\ DOMAIN pc = Processes /\ DOMAIN job = Processes /\ Placed(p) /\ Buffers(p)
      /\ pc[p] = "undo"
  BY DEF TypeInv, Functions, Undo
<1>2. todo # <<>> /\ IsSeq(todo) /\ \A i \in 1..Len(todo) : Fit(todo[i])
  BY <1>1 DEF Buffers, AllFit
<1>3. /\ IsSeq(Tail(todo)) /\ Head(todo) = todo[1] /\ Len(todo) >= 1 /\ Len(Tail(todo)) = Len(todo) - 1
      /\ \A i \in 1..Len(Tail(todo)) : Tail(todo)[i] = todo[i + 1]
      /\ Len(todo) \in Nat
  BY <1>2, TailIsSeq, SeqLength
<1>4. AllFit(Tail(todo)) /\ Fit(Head(todo))
  BY <1>2, <1>3 DEF AllFit
<1>5. CASE Len(todo) > 1 /\ Set(p, [job[p] EXCEPT !.todo = Tail(@)]) /\ UNCHANGED pc
  <2>1. pc'[p] = "undo" /\ Elsewhere(p) /\ job'[p] = [job[p] EXCEPT !.todo = Tail(todo)]
    BY <1>1, <1>5 DEF Set, Elsewhere
  <2>2. Changes(job[p], job'[p], {"todo"}) /\ job'[p].todo = Tail(todo)
    <3>1. DOMAIN job[p] = DOMAIN NoJob
      BY <1>1 DEF Placed
    <3> QED BY <2>1, <3>1, JobFields DEF Changes
  <2>3. /\ DOMAIN job'[p] = DOMAIN NoJob /\ job'[p].op = job[p].op /\ job'[p].name = job[p].name
        /\ job'[p].no_classes = job[p].no_classes /\ job'[p].run = job[p].run /\ job'[p].saved = job[p].saved
    BY <2>2, ChangesSays
  <2>4. Tail(todo) # <<>>
    <3>1. Tail(todo) = <<>> => Len(Tail(todo)) = 0
      BY <1>3, SeqLength
    <3>2. Len(todo) > 1
      BY <1>5
    <3> DEFINE m == Len(todo) k == Len(Tail(todo))
    <3>3. m \in Nat /\ k = m - 1 /\ m > 1
      BY <1>3, <3>2
    <3> HIDE DEF m, k
    <3>4. k # 0
      BY <3>3
    <3> QED BY <3>1, <3>4 DEF k
  <2>5. Placed(p)'
    BY <1>1, <2>1, <2>3 DEF Placed, Calls, Applying, RunCalls, IsWriter
  <2>6. Buffers(p)' /\ OnPlan(p)'
    BY <1>1, <1>4, <2>1, <2>2, <2>3, <2>4 DEF Buffers, OnPlan
  <2> QED BY <1>4, <2>1, <2>3, <2>5, <2>6 DEF Local
<1>6. CASE job[p].op = "rollback" /\ Goto(p, "reset") /\ UNCHANGED job
  <2>1. pc'[p] = "reset" /\ Elsewhere(p) /\ job'[p] = job[p]
    BY <1>1, <1>6, Moves
  <2>2. Placed(p)'
    BY <1>1, <1>6, <2>1 DEF Placed, Calls, Applying, RunCalls, IsWriter
  <2>3. Buffers(p)' /\ OnPlan(p)'
    BY <1>1, <2>1 DEF Buffers, OnPlan
  <2> QED BY <1>4, <1>6, <2>1, <2>2, <2>3 DEF Local
<1>7. CASE Ends(p, 4)
  BY <1>1, <1>4, <1>7, EndsLocal
<1> QED BY <1>5, <1>6, <1>7 DEF Undo

\* Record and Reset write the state file and are done.
LEMMA RecordLocal ==
  ASSUME TypeInv, NEW p \in Processes, Record(p) \/ Reset(p)
  PROVE  Local(p)' /\ Elsewhere(p) /\ pc'[p] = "idle" /\ job'[p].op = "none"
<1>1. DOMAIN pc = Processes /\ DOMAIN job = Processes /\ Ends(p, 0)
  BY DEF TypeInv, Functions, Record, Reset
<1> QED BY <1>1, EndsLocal
-----------------------------------------------------------------------------
(* Runs.                                                                   *)

LEMMA RunFields ==
  DOMAIN NoRun = {"mode", "class", "profile", "slice", "no_check", "wait", "exec"}
  BY DEF NoRun

LEMMA FallbackRunIs ==
  ASSUME NEW run, DOMAIN run = DOMAIN NoRun
  PROVE  LET after == FallbackRun(run) IN
         /\ DOMAIN after = DOMAIN NoRun /\ after.mode = run.mode /\ after.profile = run.profile
         /\ after.class = "rescue" /\ after.slice = SystemSlice /\ after.no_check = TRUE
         /\ after.wait = run.wait
  BY RunFields DEF FallbackRun

\* What a run that fails does: it ends, or falls back once.
Refused(p) ==
  \/ pc'[p] = "idle" /\ job'[p].op = "none"
  \/ /\ job[p].fallback /\ ~job[p].fell
     /\ pc'[p] = "resolve" /\ Changes(job[p], job'[p], {"run", "fell"})
     /\ job'[p].run = FallbackRun(job[p].run) /\ job'[p].fell = TRUE

LEMMA RunFailsLocal ==
  ASSUME TypeInv, NEW p \in Processes, pc[p] \in RunCalls, NEW why, RunFails(p, why)
  PROVE  /\ Local(p)' /\ Elsewhere(p) /\ Refused(p)
         /\ pc'[p] = "resolve" => rescue_target_missing(why)
<1>1. DOMAIN pc = Processes /\ DOMAIN job = Processes /\ Placed(p) /\ Buffers(p)
  BY DEF TypeInv, Functions
<1>2. CASE Ends(p, 1)
  BY <1>1, <1>2, EndsLocal DEF Refused
<1>3. CASE /\ job[p].fallback /\ ~job[p].fell /\ rescue_target_missing(why)
           /\ Goto(p, "resolve") /\ Set(p, [job[p] EXCEPT !.run = FallbackRun(@), !.fell = TRUE])
  <2>1. /\ pc'[p] = "resolve" /\ Elsewhere(p)
        /\ job'[p] = [job[p] EXCEPT !.run = FallbackRun(@), !.fell = TRUE]
    BY <1>1, <1>3, Moves
  <2>2. DOMAIN job[p] = DOMAIN NoJob /\ DOMAIN job[p].run = DOMAIN NoRun
    BY <1>1 DEF Placed
  <2>3. /\ Changes(job[p], job'[p], {"run", "fell"})
        /\ job'[p].run = FallbackRun(job[p].run) /\ job'[p].fell = TRUE
    BY <2>1, <2>2, JobFields DEF Changes
  <2>4. /\ DOMAIN job'[p] = DOMAIN NoJob /\ job'[p].op = job[p].op /\ job'[p].name = job[p].name
        /\ job'[p].no_classes = job[p].no_classes /\ job'[p].todo = job[p].todo /\ job'[p].saved = job[p].saved
    BY <2>3, ChangesSays
  <2>5. job'[p].run.profile = job[p].run.profile /\ DOMAIN job'[p].run = DOMAIN NoRun
    BY <2>2, <2>3, FallbackRunIs
  <2>6. Placed(p)'
    BY <1>1, <2>1, <2>4, <2>5 DEF Placed, Calls, Applying, RunCalls, IsWriter
  <2>7. Buffers(p)' /\ OnPlan(p)'
    BY <1>1, <2>1, <2>4 DEF Buffers, OnPlan
  <2> QED BY <1>3, <2>1, <2>3, <2>6, <2>7 DEF Local, Refused
<1> QED BY <1>2, <1>3 DEF RunFails


LEMMA NamedSlices ==
  /\ \A class : default_slice(class) # NoName
  /\ \A profile, class : resolve_class_slice(profile, class) # NoName
<1>1. ASSUME NEW class PROVE default_slice(class) # NoName
  <2>1. Len(default_slice(class)) = 5 /\ Len(NoName) = 0
    BY DEF default_slice, NoName
  <2> QED BY <2>1
<1>2. ASSUME NEW profile, NEW class PROVE resolve_class_slice(profile, class) # NoName
  BY <1>1, Zenon DEF resolve_class_slice, SliceOf
<1> QED BY <1>1, <1>2

\* A run that knows its slice goes on to the check, or launches without.
GoesOn(p, slice) ==
  /\ pc'[p] = IF job[p].run.no_check THEN "launch" ELSE "check"
  /\ Changes(job[p], job'[p], {"slice"}) /\ job'[p].slice = slice

LEMMA ResolvedLocal ==
  ASSUME TypeInv, NEW p \in Processes, pc[p] \in RunCalls, NEW slice, slice # NoName, Resolved(p, slice)
  PROVE  Local(p)' /\ Elsewhere(p) /\ GoesOn(p, slice)
<1>1. DOMAIN pc = Processes /\ DOMAIN job = Processes /\ Placed(p) /\ Buffers(p)
  BY DEF TypeInv, Functions
<1>2. /\ pc'[p] = IF job[p].run.no_check THEN "launch" ELSE "check"
      /\ Elsewhere(p) /\ job'[p] = [job[p] EXCEPT !.slice = slice]
  BY <1>1, Moves DEF Resolved
<1>3. DOMAIN job[p] = DOMAIN NoJob
  BY <1>1 DEF Placed
<1>4. Changes(job[p], job'[p], {"slice"}) /\ job'[p].slice = slice
  BY <1>2, <1>3, JobFields DEF Changes
<1>5. /\ DOMAIN job'[p] = DOMAIN NoJob /\ job'[p].op = job[p].op /\ job'[p].name = job[p].name
      /\ job'[p].no_classes = job[p].no_classes /\ job'[p].run = job[p].run
      /\ job'[p].todo = job[p].todo /\ job'[p].saved = job[p].saved
  BY <1>4, ChangesSays
<1>6. pc'[p] \in {"launch", "check"}
  BY <1>2
<1>7. Placed(p)'
  BY <1>1, <1>5, <1>6 DEF Placed, Calls, Applying, RunCalls, IsWriter
<1>8. Buffers(p)' /\ OnPlan(p)'
  BY <1>1, <1>4, <1>5, <1>6 DEF Buffers, OnPlan
<1> QED BY <1>2, <1>4, <1>7, <1>8 DEF Local, GoesOn

\* A run that has the name of a profile to load.
Named(p, name) ==
  pc'[p] = "load_for_run" /\ Changes(job[p], job'[p], {"name"}) /\ job'[p].name = name

LEMMA NamedLocal ==
  ASSUME TypeInv, NEW p \in Processes, pc[p] \in RunCalls, NEW name \in Names,
         Goto(p, "load_for_run"), Set(p, [job[p] EXCEPT !.name = name])
  PROVE  Local(p)' /\ Elsewhere(p) /\ Named(p, name)
<1>1. DOMAIN pc = Processes /\ DOMAIN job = Processes /\ Placed(p) /\ Buffers(p)
  BY DEF TypeInv, Functions
<1>2. pc'[p] = "load_for_run" /\ Elsewhere(p) /\ job'[p] = [job[p] EXCEPT !.name = name]
  BY <1>1, Moves
<1>3. DOMAIN job[p] = DOMAIN NoJob
  BY <1>1 DEF Placed
<1>4. Changes(job[p], job'[p], {"name"}) /\ job'[p].name = name
  BY <1>2, <1>3, JobFields DEF Changes
<1>5. /\ DOMAIN job'[p] = DOMAIN NoJob /\ job'[p].op = job[p].op
      /\ job'[p].no_classes = job[p].no_classes /\ job'[p].run = job[p].run
      /\ job'[p].todo = job[p].todo /\ job'[p].saved = job[p].saved
  BY <1>4, ChangesSays
<1>6. Placed(p)'
  BY <1>1, <1>2, <1>4, <1>5 DEF Placed, Calls, Applying, RunCalls, IsWriter
<1>7. Buffers(p)' /\ OnPlan(p)'
  BY <1>1, <1>2, <1>5 DEF Buffers, OnPlan
<1> QED BY <1>2, <1>4, <1>6, <1>7 DEF Local, Named

LEMMA ResolveLocal ==
  ASSUME TypeInv, NEW p \in Processes, Resolve(p)
  PROVE  /\ Local(p)' /\ Elsewhere(p)
         /\ \/ pc'[p] = "idle" /\ job'[p].op = "none"
            \/ job[p].run.slice # NoName /\ GoesOn(p, job[p].run.slice)
            \/ job[p].run.slice = NoName /\ job[p].run.profile \in Names /\ Named(p, job[p].run.profile)
            \/ /\ job[p].run.slice = NoName /\ job[p].run.profile = Nobody
               /\ pc'[p] = "read_state" /\ job'[p] = job[p]
<1>1. /\ DOMAIN pc = Processes /\ DOMAIN job = Processes /\ Placed(p) /\ Buffers(p)
      /\ pc[p] = "resolve"
  BY DEF TypeInv, Functions, Resolve
<1>2. pc[p] \in RunCalls
  BY <1>1 DEF RunCalls
<1>3. CASE RunFails(p, "class")
  <2>1. ~rescue_target_missing("class")
    BY DEF rescue_target_missing
  <2> QED BY <1>2, <1>3, <2>1, RunFailsLocal DEF Refused
<1>4. CASE job[p].run.slice # NoName /\ Resolved(p, job[p].run.slice)
  BY <1>2, <1>4, ResolvedLocal
<1>5. CASE /\ job[p].run.slice = NoName /\ job[p].run.profile # Nobody /\ Goto(p, "load_for_run")
           /\ Set(p, [job[p] EXCEPT !.name = job[p].run.profile])
  <2>1. job[p].run.profile \in Names
    BY <1>1, <1>5 DEF Placed
  <2> QED BY <1>2, <1>5, <2>1, NamedLocal
<1>6. CASE /\ job[p].run.slice = NoName /\ job[p].run.profile = Nobody
           /\ Goto(p, "read_state") /\ UNCHANGED job
  <2>1. pc'[p] = "read_state" /\ Elsewhere(p) /\ job'[p] = job[p]
    BY <1>1, <1>6, Moves
  <2>2. Placed(p)'
    BY <1>1, <2>1 DEF Placed, Calls, Applying, RunCalls
  <2>3. Buffers(p)' /\ OnPlan(p)'
    BY <1>1, <2>1 DEF Buffers, OnPlan
  <2> QED BY <1>6, <2>1, <2>2, <2>3 DEF Local
<1> QED BY <1>3, <1>4, <1>5, <1>6 DEF Resolve

LEMMA ReadStateLocal ==
  ASSUME TypeInv, NEW p \in Processes, ReadState(p)
  PROVE  /\ Local(p)' /\ Elsewhere(p)
         /\ \/ pc'[p] = "idle" /\ job'[p].op = "none" /\ ~Whole(state)
            \/ /\ Whole(state) /\ state.active = Nobody
               /\ GoesOn(p, default_slice(class_of(job[p].run)))
            \/ Whole(state) /\ state.active \in Names /\ Named(p, state.active)
<1>1. pc[p] \in RunCalls /\ StateFile
  BY DEF TypeInv, ReadState, RunCalls
<1>2. CASE ~Whole(state)
  <2>1. ~rescue_target_missing("state")
    BY DEF rescue_target_missing
  <2> QED BY <1>1, <1>2, <2>1, RunFailsLocal DEF Refused, ReadState
<1>3. CASE Whole(state) /\ state.active = Nobody
  BY <1>1, <1>3, ResolvedLocal, NamedSlices DEF ReadState
<1>4. CASE Whole(state) /\ state.active # Nobody
  <2>1. state.active \in Names
    BY <1>1, <1>4 DEF StateFile
  <2> QED BY <1>1, <1>4, <2>1, NamedLocal DEF ReadState
<1> QED BY <1>2, <1>3, <1>4

LEMMA LoadForRunLocal ==
  ASSUME TypeInv, NEW p \in Processes, LoadForRun(p)
  PROVE  /\ Local(p)' /\ Elsewhere(p)
         /\ \/ pc'[p] = "idle" /\ job'[p].op = "none" /\ ~Whole(profiles[job[p].name])
            \/ /\ Whole(profiles[job[p].name])
               /\ GoesOn(p, resolve_class_slice(profiles[job[p].name], class_of(job[p].run)))
<1>1. pc[p] \in RunCalls
  BY DEF LoadForRun, RunCalls
<1>2. CASE ~Whole(profiles[job[p].name])
  <2>1. ~rescue_target_missing("profile")
    BY DEF rescue_target_missing
  <2> QED BY <1>1, <1>2, <2>1, RunFailsLocal DEF Refused, LoadForRun
<1>3. CASE Whole(profiles[job[p].name])
  BY <1>1, <1>3, ResolvedLocal, NamedSlices DEF LoadForRun
<1> QED BY <1>2, <1>3

LEMMA CheckLocal ==
  ASSUME TypeInv, NEW p \in Processes, Check(p)
  PROVE  /\ Local(p)' /\ Elsewhere(p)
         /\ \/ /\ Loadable(job[p].run.mode, job[p].slice)
               /\ pc'[p] = "launch" /\ job'[p] = job[p]
            \/ ~Loadable(job[p].run.mode, job[p].slice) /\ Refused(p)
<1>1. /\ DOMAIN pc = Processes /\ DOMAIN job = Processes /\ Placed(p) /\ Buffers(p)
      /\ pc[p] = "check" /\ pc[p] \in RunCalls
  BY DEF TypeInv, Functions, Check, RunCalls
<1>2. CASE Loadable(job[p].run.mode, job[p].slice)
  <2>1. pc'[p] = "launch" /\ Elsewhere(p) /\ job'[p] = job[p]
    BY <1>1, <1>2, Moves DEF Check
  <2>2. Placed(p)'
    BY <1>1, <2>1 DEF Placed, Calls, Applying, RunCalls
  <2>3. Buffers(p)' /\ OnPlan(p)'
    BY <1>1, <2>1 DEF Buffers, OnPlan
  <2> QED BY <1>2, <2>1, <2>2, <2>3 DEF Local
<1>3. CASE ~Loadable(job[p].run.mode, job[p].slice)
  BY <1>1, <1>3, RunFailsLocal DEF Check
<1> QED BY <1>2, <1>3

LEMMA LaunchLocal ==
  ASSUME TypeInv, NEW p \in Processes, Launch(p)
  PROVE  Local(p)' /\ Elsewhere(p) /\ pc'[p] = "idle" /\ job'[p].op = "none"
<1>1. /\ DOMAIN pc = Processes /\ DOMAIN job = Processes /\ \E code : Ends(p, code)
  BY DEF TypeInv, Functions, Launch
<1> QED BY <1>1, EndsLocal

\* A failing call ends the command, lets a run fall back, or turns an apply
\* to the undo of what it wrote.
LEMMA CallFailsLocal ==
  ASSUME TypeInv, NEW p \in Processes, CallFails(p)
  PROVE  /\ Local(p)' /\ Elsewhere(p)
         /\ \/ pc'[p] = "idle" /\ job'[p].op = "none"
            \/ pc[p] = "check" /\ Refused(p)
            \/ pc[p] \in {"write", "record"} /\ pc'[p] = "undo" /\ job'[p].op = job[p].op
<1>1. DOMAIN pc = Processes /\ DOMAIN job = Processes /\ Placed(p) /\ Buffers(p)
  BY DEF TypeInv, Functions
<1>2. CASE \E code : Ends(p, code)
  BY <1>1, <1>2, EndsLocal
<1>3. CASE pc[p] = "check" /\ RunFails(p, "slice_check_failed")
  <2>1. pc[p] \in RunCalls
    BY <1>3 DEF RunCalls
  <2> QED BY <1>3, <2>1, RunFailsLocal
<1>4. CASE /\ pc[p] \in {"write", "record"} /\ job[p].saved # <<>>
           /\ Goto(p, "undo") /\ Set(p, [job[p] EXCEPT !.todo = job[p].saved])
  <2>1. pc'[p] = "undo" /\ Elsewhere(p) /\ job'[p] = [job[p] EXCEPT !.todo = job[p].saved]
    BY <1>1, <1>4, Moves
  <2>2. DOMAIN job[p] = DOMAIN NoJob
    BY <1>1 DEF Placed
  <2>3. Changes(job[p], job'[p], {"todo"}) /\ job'[p].todo = job[p].saved
    BY <2>1, <2>2, JobFields DEF Changes
  <2>4. /\ DOMAIN job'[p] = DOMAIN NoJob /\ job'[p].op = job[p].op /\ job'[p].name = job[p].name
        /\ job'[p].no_classes = job[p].no_classes /\ job'[p].run = job[p].run /\ job'[p].saved = job[p].saved
    BY <2>3, ChangesSays
  <2>5. Placed(p)'
    BY <1>1, <1>4, <2>1, <2>4 DEF Placed, Calls, Applying, RunCalls, IsWriter
  <2>6. Buffers(p)' /\ OnPlan(p)'
    BY <1>1, <1>4, <2>1, <2>3, <2>4 DEF Buffers, OnPlan
  <2> QED BY <1>4, <2>1, <2>4, <2>5, <2>6 DEF Local
<1> QED BY <1>2, <1>3, <1>4 DEF CallFails, TakesBack

LEMMA KillLocal ==
  ASSUME TypeInv, NEW p \in Processes, Kill(p)
  PROVE  Local(p)' /\ Elsewhere(p) /\ pc'[p] = "idle" /\ job'[p].op = "none"
<1>1. DOMAIN pc = Processes /\ DOMAIN job = Processes /\ Ends(p, 1)
  BY DEF TypeInv, Functions, Kill
<1> QED BY <1>1, EndsLocal

-----------------------------------------------------------------------------
(* TypeInv is inductive.                                                   *)

\* The store, the units and the state file are written by these steps alone.
LEMMA WhoWrites ==
  ASSUME [Next]_vars
  PROVE  /\ machine' = machine
         /\ profiles' = profiles \/ Edit \/ \E p \in Processes : CutProfile(p) \/ FillProfile(p)
         /\ units' = units \/ \E p \in Processes : WriteUnit(p) \/ Undo(p)
         /\ \/ state' = state
            \/ state' = Torn /\ \E p \in Processes : pc[p] \in {"record", "reset"} /\ (CallFails(p) \/ Kill(p))
            \/ \E p \in Processes : Record(p) \/ Reset(p)
         /\ applied' = applied \/ \E p \in Processes : Record(p)
<1>1. CASE UNCHANGED vars
  BY <1>1 DEF vars, shared, counts, ghosts
<1>2. CASE Edit
  BY <1>2 DEF Edit
<1>3. ASSUME NEW p \in Processes, Run(p)
      PROVE  /\ machine' = machine
             /\ profiles' = profiles \/ CutProfile(p) \/ FillProfile(p)
             /\ units' = units \/ WriteUnit(p) \/ Undo(p)
             /\ state' = state \/ Record(p) \/ Reset(p)
             /\ applied' = applied \/ Record(p)
  <2>1. CASE Begin(p)
    BY <2>1 DEF Begin, shared
  <2>2. CASE CutProfile(p)
    BY <2>2 DEF CutProfile, Keeps, ghosts
  <2>3. CASE FillProfile(p)
    BY <2>3 DEF FillProfile, Keeps, ghosts
  <2>4. CASE LoadForApply(p)
    BY <2>4 DEF LoadForApply, shared, Keeps, ghosts
  <2>5. CASE WriteUnit(p)
    BY <2>5 DEF WriteUnit, Keeps, ghosts
  <2>6. CASE Record(p)
    BY <2>6 DEF Record
  <2>7. CASE ReadBackup(p)
    BY <2>7 DEF ReadBackup, shared, Keeps, ghosts
  <2>8. CASE Undo(p)
    BY <2>8 DEF Undo
  <2>9. CASE Reset(p)
    BY <2>9 DEF Reset, Keeps, ghosts
  <2>10. CASE Resolve(p)
    BY <2>10 DEF Resolve, shared, Keeps, ghosts
  <2>11. CASE ReadState(p)
    BY <2>11 DEF ReadState, shared, Keeps, ghosts
  <2>12. CASE LoadForRun(p)
    BY <2>12 DEF LoadForRun, shared, Keeps, ghosts
  <2>13. CASE Check(p)
    BY <2>13 DEF Check, shared, Keeps, ghosts
  <2>14. CASE Launch(p)
    BY <2>14 DEF Launch, shared, Keeps, ghosts
  <2> QED BY <1>3, <2>1, <2>2, <2>3, <2>4, <2>5, <2>6, <2>7, <2>8, <2>9, <2>10, <2>11, <2>12, <2>13,
             <2>14 DEF Run
<1>4. ASSUME NEW p \in Processes, CallFails(p) \/ Kill(p)
      PROVE  /\ machine' = machine /\ profiles' = profiles /\ units' = units /\ applied' = applied
             /\ state' = state \/ (state' = Torn /\ pc[p] \in {"record", "reset"})
  BY <1>4 DEF CallFails, Kill, Fault, StateMayTear, TakesBack
<1> QED BY <1>1, <1>2, <1>3, <1>4 DEF Next

\* Every process stays where its command can be.
LEMMA LocalStep ==
  ASSUME TypeInv, [Next]_vars
  PROVE  DOMAIN pc' = Processes /\ DOMAIN job' = Processes /\ \A q \in Processes : Local(q)'
<1>1. DOMAIN pc = Processes /\ DOMAIN job = Processes /\ \A q \in Processes : Local(q)
  BY DEF TypeInv, Functions, Local
<1>2. CASE pc' = pc /\ job' = job
  <2>1. ASSUME NEW q \in Processes PROVE Local(q)'
    <3>1. Plan(q)' = Plan(q) /\ Done(q)' = Done(q)
      BY <1>2 DEF Plan, Done
    <3> QED BY <1>1, <1>2, <3>1 DEF Local, Placed, Buffers, OnPlan
  <2> QED BY <1>1, <1>2, <2>1
<1>3. ASSUME NEW p \in Processes, Elsewhere(p), Local(p)'
      PROVE  DOMAIN pc' = Processes /\ DOMAIN job' = Processes /\ \A q \in Processes : Local(q)'
  <2>1. ASSUME NEW q \in Processes PROVE Local(q)'
    <3>1. CASE q = p
      BY <1>3, <3>1
    <3>2. CASE q # p
      BY <1>1, <1>3, <3>2, OthersStay
    <3> QED BY <3>1, <3>2
  <2> QED BY <1>3, <2>1 DEF Elsewhere
<1>4. ASSUME NEW p \in Processes, Run(p)
      PROVE  Elsewhere(p) /\ Local(p)'
  BY <1>4, BeginLocal, CutProfileLocal, FillProfileLocal, LoadForApplyLocal, WriteUnitLocal, RecordLocal,
     ReadBackupLocal, UndoLocal, ResolveLocal, ReadStateLocal, LoadForRunLocal, CheckLocal, LaunchLocal
     DEF Run
<1>5. ASSUME NEW p \in Processes, CallFails(p) \/ Kill(p)
      PROVE  Elsewhere(p) /\ Local(p)'
  BY <1>5, CallFailsLocal, KillLocal
<1>6. CASE Edit
  BY <1>2, <1>6 DEF Edit
<1>7. CASE UNCHANGED vars
  BY <1>2, <1>7 DEF vars
<1> QED BY <1>3, <1>4, <1>5, <1>6, <1>7 DEF Next

LEMMA CountersStep ==
  ASSUME Counters, [Next]_vars
  PROVE  Counters'
<1>1. MaxEvents \in Nat /\ MaxFaults \in Nat
  BY LaunchAssumption
<1>2. CASE \E p \in Processes : Begin(p)
  BY <1>1, <1>2 DEF Begin, Counters
<1>3. CASE \E p \in Processes : CallFails(p) \/ Kill(p)
  <2>1. FaultsLeft /\ faults' = faults + 1 /\ commands' = commands
    BY <1>3 DEF CallFails, Kill, Fault
  <2> QED BY <1>1, <2>1 DEF FaultsLeft, Counters
<1>4. CASE Edit
  BY <1>1, <1>4 DEF Edit, FaultsLeft, Counters
<1>5. CASE UNCHANGED counts
  BY <1>5 DEF counts, Counters
<1>6. ASSUME NEW p \in Processes, Run(p), ~Begin(p)
      PROVE  UNCHANGED counts
  BY <1>6 DEF Run, CutProfile, FillProfile, LoadForApply, WriteUnit, Record, ReadBackup, Undo, Reset, Resolve,
     ReadState, LoadForRun, Check, Launch, Keeps, counts
<1>7. CASE UNCHANGED vars
  BY <1>5, <1>7 DEF vars
<1> QED BY <1>2, <1>3, <1>4, <1>5, <1>6, <1>7 DEF Next

LEMMA FunctionsStep ==
  ASSUME TypeInv, [Next]_vars
  PROVE  Functions'
<1> USE DEF Functions
<1>1. machine' = machine /\ machine \in Machines
  BY WhoWrites DEF TypeInv
<1>2. profiles' \in [Names -> HandWritten \cup {build_auto_profile(machine), Absent, Torn}]
  <2> DEFINE All == HandWritten \cup {build_auto_profile(machine), Absent, Torn}
  <2>1. profiles \in [Names -> All]
    BY DEF TypeInv
  <2>2. build_auto_profile(machine) \in All /\ Torn \in All /\ HandWritten \cup {Absent} \subseteq All
    OBVIOUS
  <2> HIDE DEF All
  <2>3. profiles' \in [Names -> All]
    <3>1. CASE Edit
      BY <2>1, <2>2, <3>1 DEF Edit
    <3>2. ASSUME NEW p \in Processes, CutProfile(p)
          PROVE  profiles' \in [Names -> All]
      BY <2>1, <2>2, <3>2 DEF CutProfile
    <3>3. ASSUME NEW p \in Processes, FillProfile(p)
          PROVE  profiles' \in [Names -> All]
      BY <2>1, <2>2, <3>3 DEF FillProfile
    <3> QED BY <2>1, <3>1, <3>2, <3>3, WhoWrites
  <2> QED BY <2>3 DEF All
<1>3. broken \in BOOLEAN /\ DOMAIN alone = Processes /\ undone \in [Processes -> BOOLEAN]
  BY DEF TypeInv
<1>4. broken' \in BOOLEAN /\ DOMAIN alone' = Processes /\ undone' \in [Processes -> BOOLEAN]
  <2>1. CASE \E p \in Processes : Begin(p)
    <3>1. broken' \in BOOLEAN
      BY <1>3, <2>1, Zenon DEF Begin
    <3>2. DOMAIN alone' = Processes
      BY <2>1, Zenon DEF Begin
    <3>3. undone' \in [Processes -> BOOLEAN]
      BY <1>3, <2>1 DEF Begin
    <3> QED BY <3>1, <3>2, <3>3
  <2>2. CASE \E p \in Processes : CallFails(p) \/ Kill(p)
    <3>1. broken' \in BOOLEAN
      BY <1>3, <2>2, Zenon DEF CallFails, Kill, Fault
    <3>2. alone' = alone /\ undone' = undone
      BY <2>2 DEF CallFails, Kill, Fault
    <3> QED BY <1>3, <3>1, <3>2
  <2>3. CASE Edit
    <3>1. DOMAIN alone' = Processes
      BY <2>3, Zenon DEF Edit
    <3> QED BY <1>3, <2>3, <3>1 DEF Edit
  <2>4. ASSUME NEW p \in Processes, Undo(p)
        PROVE  broken' \in BOOLEAN /\ DOMAIN alone' = Processes /\ undone' \in [Processes -> BOOLEAN]
    <3>1. undone' \in [Processes -> BOOLEAN]
      BY <2>4, Zenon DEF Undo
    <3> QED BY <1>3, <2>4, <3>1 DEF Undo
  <2>5. ASSUME NEW p \in Processes, Run(p), ~Begin(p), ~Undo(p)
        PROVE  broken' = broken /\ alone' = alone /\ undone' = undone
    BY <2>5 DEF Run, CutProfile, FillProfile, LoadForApply, WriteUnit, Record, ReadBackup, Reset, Resolve,
       ReadState, LoadForRun, Check, Launch, Keeps, ghosts
  <2>6. CASE UNCHANGED vars
    BY <1>3, <2>6 DEF vars, ghosts
  <2> QED BY <1>3, <2>1, <2>2, <2>3, <2>4, <2>5, <2>6 DEF Next
<1> QED BY <1>1, <1>2, <1>4, LocalStep


\* What is written to a unit file is content, and its limits are in order.
LEMMA WriteIsContent ==
  ASSUME TypeInv, NEW p \in Processes, WriteUnit(p)
  PROVE  LET write == Head(job[p].todo) IN Fit(write) /\ write[2] # Absent
<1>1. /\ Done(p) \in Nat /\ Done(p) + 1 <= Len(Plan(p)) /\ Len(Plan(p)) \in Nat
      /\ Head(job[p].todo) = Plan(p)[Done(p) + 1]
  BY WriteUnitLocal
<1>2. Valid(job[p].profile) /\ job[p].no_classes \in BOOLEAN
  BY DEF TypeInv, OnPlan, Placed, WriteUnit
<1>3. Done(p) + 1 \in 1..Len(Plan(p))
  BY <1>1
<1> QED BY <1>1, <1>2, <1>3, ValidPlan DEF Plan

\* after is before with content in unit.
Updated(after, before, unit, content) ==
  /\ DOMAIN after = DOMAIN before \cup {unit} /\ after[unit] = content
  /\ \A u \in DOMAIN before : u # unit => after[u] = before[u]

\* after is before without unit, or with content in it.
Restored(after, before, unit, content) ==
  /\ \A u \in DOMAIN after : (u = unit /\ content # Absent /\ after[u] = content)
                             \/ (u \in DOMAIN before /\ after[u] = before[u])
  /\ \A u \in DOMAIN before : u # unit => u \in DOMAIN after /\ after[u] = before[u]

LEMMA WrittenIs ==
  ASSUME NEW unit, NEW content
  PROVE  Updated(Written(unit, content), units, unit, content)
  BY DEF Written, Over, Updated

LEMMA RolledBackIs ==
  ASSUME NEW unit, NEW content
  PROVE  Restored(RolledBack(unit, content), units, unit, content)
<1>1. CASE content = Absent
  BY <1>1 DEF RolledBack, Restored
<1>2. CASE content # Absent
  <2>1. RolledBack(unit, content) = Written(unit, content)
    BY <1>2 DEF RolledBack
  <2> DEFINE after == Written(unit, content)
  <2>2. Updated(after, units, unit, content)
    BY WrittenIs
  <2> HIDE DEF after
  <2>3. Restored(after, units, unit, content)
    BY <1>2, <2>2 DEF Restored, Updated
  <2> QED BY <2>1, <2>3 DEF after
<1> QED BY <1>1, <1>2

LEMMA UnitFilesStep ==
  ASSUME TypeInv, [Next]_vars
  PROVE  UnitFiles'
<1>1. UnitFiles
  BY DEF TypeInv
<1>2. ASSUME NEW p \in Processes, WriteUnit(p) PROVE UnitFiles'
  <2> DEFINE write == Head(job[p].todo)
  <2>1. units' = Written(write[1], write[2])
    BY <1>2 DEF WriteUnit
  <2>2. write[1][1] \in Modes /\ write[2] # Absent /\ Ordered(write[2])
    BY <1>2, WriteIsContent DEF Fit
  <2> DEFINE unit == write[1] content == write[2]
  <2>3. Updated(units', units, unit, content)
    BY <2>1, WrittenIs
  <2> HIDE DEF write, unit, content
  <2> QED BY <1>1, <2>2, <2>3 DEF UnitFiles, Updated, unit, content
<1>3. ASSUME NEW p \in Processes, Undo(p) PROVE UnitFiles'
  <2> DEFINE write == Head(job[p].todo)
  <2>1. units' = RolledBack(write[1], write[2])
    BY <1>3 DEF Undo
  <2>2. write[1][1] \in Modes /\ (write[2] # Absent => Ordered(write[2]))
    BY <1>3, UndoLocal DEF Fit
  <2> DEFINE unit == write[1] content == write[2]
  <2>3. Restored(units', units, unit, content)
    BY <2>1, RolledBackIs
  <2> HIDE DEF write, unit, content
  <2> QED BY <1>1, <2>2, <2>3 DEF UnitFiles, Restored, unit, content
<1> QED BY <1>1, <1>2, <1>3, WhoWrites DEF UnitFiles

\* What a recorded apply leaves in the state file.
LEMMA RecordWrites ==
  ASSUME TypeInv, NEW p \in Processes, Record(p)
  PROVE  /\ state' = [active |-> job[p].name, saved |-> job[p].saved]
         /\ applied' = [profile |-> job[p].profile, no_classes |-> job[p].no_classes]
         /\ job[p].name \in Names /\ AllFit(job[p].saved) /\ job[p].saved # <<>>
         /\ Valid(job[p].profile) /\ job[p].no_classes \in BOOLEAN /\ Done(p) = Len(Plan(p))
         /\ AppliedPlan' = Plan(p)
<1>1. pc[p] = "record" /\ Placed(p) /\ Buffers(p) /\ OnPlan(p)
  BY DEF TypeInv, Record
<1>2. /\ job[p].name \in Names /\ AllFit(job[p].saved) /\ Valid(job[p].profile)
      /\ job[p].no_classes \in BOOLEAN /\ Len(job[p].todo) = 0
      /\ \A i \in 1..Done(p) : \E j \in 1..Len(job[p].saved) : job[p].saved[j][1] = Plan(p)[i][1]
  BY <1>1 DEF Placed, Applying, Buffers, OnPlan
<1>3. Len(Plan(p)) >= 1 /\ Len(Plan(p)) \in Nat
  BY <1>2, PlanWrites, SeqLength DEF Valid, Plan
<1>4. Done(p) = Len(Plan(p))
  BY <1>2, <1>3 DEF Done
<1>5. job[p].saved # <<>>
  <2>1. 1 \in 1..Done(p)
    BY <1>3, <1>4
  <2>2. PICK j \in 1..Len(job[p].saved) : job[p].saved[j][1] = Plan(p)[1][1]
    BY <1>2, <2>1
  <2>3. IsSeq(job[p].saved)
    BY <1>2 DEF AllFit
  <2> QED BY <2>2, <2>3, SeqLength
<1>6. applied'.profile = job[p].profile /\ applied'.no_classes = job[p].no_classes
  BY Zenon DEF Record
<1>7. AppliedPlan' = Plan(p)
  BY <1>6 DEF AppliedPlan, Plan
<1> QED BY <1>2, <1>4, <1>5, <1>7 DEF Record

LEMMA StateFileStep ==
  ASSUME TypeInv, [Next]_vars
  PROVE  StateFile'
<1>1. StateFile
  BY DEF TypeInv
<1>2. CASE state' = state
  BY <1>1, <1>2 DEF StateFile, Whole
<1>3. CASE state' = Torn
  BY <1>3 DEF StateFile, Whole
<1>4. ASSUME NEW p \in Processes, Record(p) PROVE StateFile'
  <2>1. /\ state'.active = job[p].name /\ state'.saved = job[p].saved
        /\ job[p].name \in Names /\ AllFit(job[p].saved) /\ job[p].saved # <<>>
    BY <1>4, RecordWrites
  <2> QED BY <2>1, LaunchAssumption DEF StateFile
<1>5. ASSUME NEW p \in Processes, Reset(p) PROVE StateFile'
  <2>1. state'.active = Nobody /\ state'.saved = <<>>
    BY <1>5 DEF Reset, DefaultState
  <2> QED BY <2>1, AllFitEmpty DEF StateFile
<1> QED BY <1>2, <1>3, <1>4, <1>5, WhoWrites

LEMMA AsRecordedStep ==
  ASSUME TypeInv, [Next]_vars
  PROVE  AsRecorded'
<1>1. AsRecorded
  BY DEF TypeInv
<1>2. CASE state' = state /\ applied' = applied
  <2>1. AppliedPlan' = AppliedPlan
    BY <1>2 DEF AppliedPlan
  <2> QED BY <1>1, <1>2, <2>1 DEF AsRecorded, Active, Whole
<1>3. CASE state' = Torn
  BY <1>3 DEF AsRecorded, Active, Whole
<1>4. ASSUME NEW p \in Processes, Record(p) PROVE AsRecorded'
  <2>1. /\ state'.saved = job[p].saved /\ applied'.profile = job[p].profile
        /\ applied'.no_classes = job[p].no_classes
        /\ Valid(job[p].profile) /\ job[p].no_classes \in BOOLEAN /\ Done(p) = Len(Plan(p))
        /\ AppliedPlan' = Plan(p)
    BY <1>4, RecordWrites
  <2>2. /\ \A i \in 1..Done(p) : \E j \in 1..Len(job[p].saved) : job[p].saved[j][1] = Plan(p)[i][1]
        /\ \A j \in 1..Len(job[p].saved) : \E i \in 1..Done(p) : job[p].saved[j][1] = Plan(p)[i][1]
    BY <1>4 DEF TypeInv, OnPlan, Record
  <2> QED BY <2>1, <2>2 DEF AsRecorded
<1>5. ASSUME NEW p \in Processes, Reset(p) PROVE AsRecorded'
  <2>1. state'.active = Nobody
    BY <1>5 DEF Reset, DefaultState
  <2> QED BY <2>1 DEF AsRecorded, Active
<1>6. ASSUME applied' # applied PROVE \E p \in Processes : Record(p)
  BY <1>6, WhoWrites
<1> QED BY <1>2, <1>3, <1>4, <1>5, <1>6, WhoWrites

LEMMA TypeInvInit == Init => TypeInv
<1> SUFFICES ASSUME Init PROVE TypeInv
  OBVIOUS
<1>1. Functions
  <2>1. profiles \in [Names -> HandWritten \cup {Absent, Torn}]
    BY LaunchAssumption DEF Init
  <2>2. profiles \in [Names -> HandWritten \cup {build_auto_profile(machine), Absent, Torn}]
    <3> DEFINE All == HandWritten \cup {build_auto_profile(machine), Absent, Torn}
    <3>1. HandWritten \cup {Absent, Torn} \subseteq All
      OBVIOUS
    <3> HIDE DEF All
    <3>2. profiles \in [Names -> All]
      BY <2>1, <3>1
    <3> QED BY <3>2 DEF All
  <2> QED BY <2>2 DEF Functions, Init
<1>2. Counters
  BY LaunchAssumption DEF Init, Counters
<1>3. UnitFiles
  BY EmptyIsSeq DEF Init, UnitFiles
<1>4. StateFile /\ AsRecorded
  BY DEF Init, StateFile, AsRecorded, Active, Whole
<1>5. ASSUME NEW p \in Processes PROVE Placed(p) /\ Buffers(p) /\ OnPlan(p)
  <2>1. pc[p] = "idle" /\ job[p] = NoJob
    BY DEF Init
  <2>2. NoJob = [NoJob EXCEPT !.code = NoJob.code]
    BY DEF NoJob
  <2>3. /\ NoJob.run = NoRun /\ NoRun.profile = Nobody /\ NoJob.no_classes = FALSE
        /\ NoJob.todo = <<>> /\ NoJob.saved = <<>>
    BY DEF NoJob, NoRun
  <2>4. Placed(p)
    BY <2>1, <2>2, <2>3 DEF Placed, Calls, Applying, RunCalls
  <2>5. Buffers(p) /\ OnPlan(p)
    BY <2>1, <2>3, AllFitEmpty DEF Buffers, OnPlan
  <2> QED BY <2>4, <2>5
<1> QED BY <1>1, <1>2, <1>3, <1>4, <1>5 DEF TypeInv

LEMMA TypeInvStep == TypeInv /\ [Next]_vars => TypeInv'
<1> SUFFICES ASSUME TypeInv, [Next]_vars PROVE TypeInv'
  OBVIOUS
<1>1. Counters'
  BY CountersStep DEF TypeInv
<1>2. \A q \in Processes : Placed(q)' /\ Buffers(q)' /\ OnPlan(q)'
  BY LocalStep DEF Local
<1>3. Functions' /\ UnitFiles' /\ StateFile' /\ AsRecorded'
  BY FunctionsStep, UnitFilesStep, StateFileStep, AsRecordedStep
<1> QED BY <1>1, <1>2, <1>3 DEF TypeInv

\* The types, where each process is in its command, what it still has to write
\* and what it saved; what the state file names.
THEOREM TypeInvHolds == Spec => []TypeInv
  BY TypeInvInit, TypeInvStep, PTL DEF Spec

\* What is typed, whoever runs what and whatever fails: no writer is without a
\* write to do, and the state file names a profile just if it names a backup.
THEOREM TypeCorrect == Spec => []TypeOK
<1>1. TypeInv => TypeOK
  <2> SUFFICES ASSUME TypeInv PROVE TypeOK
    OBVIOUS
  <2>1. \A n \in Names : Whole(profiles[n]) => profiles[n].header_ok \in BOOLEAN
    BY StoredProfile, Zenon DEF IsProfile
  <2>2. commands + faults \in 0..MaxEvents /\ faults \in 0..MaxFaults
    BY LaunchAssumption DEF TypeInv, Counters
  <2>3. \A u \in DOMAIN units : u[1] \in Modes /\ units[u] # Absent
    BY DEF TypeInv, UnitFiles
  <2>4. Whole(state) => /\ state.active \in Names \cup {Nobody}
                        /\ state.active = Nobody <=> state.saved = <<>>
    BY DEF TypeInv, StateFile
  <2>5. \A p \in Processes :
          /\ pc[p] \in {"write", "undo"} => job[p].todo # <<>>
          /\ pc[p] \in {"check", "launch"} => job[p].slice # NoName
          /\ pc[p] = "idle" => job[p] = [NoJob EXCEPT !.code = job[p].code]
    BY DEF TypeInv, Buffers, Placed
  <2>6. machine \in Machines
    BY DEF TypeInv, Functions
  <2> QED BY <2>1, <2>2, <2>3, <2>4, <2>5, <2>6 DEF TypeOK
<1> QED BY <1>1, TypeInvHolds, PTL

\* An invalid profile is never installed: in every unit file MemoryHigh is at
\* most MemoryMax, also in what an undo or a rollback brings back.
THEOREM InstalledLimitsAreOrderedHolds == Spec => []InstalledLimitsAreOrdered
<1>1. TypeInv => InstalledLimitsAreOrdered
  BY DEF TypeInv, UnitFiles, Ordered, InstalledLimitsAreOrdered
<1> QED BY <1>1, TypeInvHolds, PTL

-----------------------------------------------------------------------------
(* A program that is started after the check is contained.                 *)

LEMMA OthersWait ==
  ASSUME TypeInv, NEW p \in Processes, Run(p) \/ CallFails(p) \/ Kill(p)
  PROVE  Elsewhere(p)
<1>1. CASE Run(p)
  BY <1>1, BeginLocal, CutProfileLocal, FillProfileLocal, LoadForApplyLocal, WriteUnitLocal, RecordLocal,
     ReadBackupLocal, UndoLocal, ResolveLocal, ReadStateLocal, LoadForRunLocal, CheckLocal, LaunchLocal
     DEF Run
<1>2. CASE CallFails(p) \/ Kill(p)
  BY <1>2, CallFailsLocal, KillLocal
<1> QED BY <1>1, <1>2

\* One process moves, or none does.
LEMMA OneMoves ==
  ASSUME TypeInv, [Next]_vars
  PROVE  \/ UNCHANGED <<pc, job>>
         \/ \E p \in Processes : Elsewhere(p) /\ (Run(p) \/ CallFails(p) \/ Kill(p))
<1>1. CASE Edit
  BY <1>1 DEF Edit
<1>2. CASE UNCHANGED vars
  BY <1>2 DEF vars
<1> QED BY <1>1, <1>2, OthersWait DEF Next

\* A process comes to its launch without a check or by a check that passed.
LEMMA BeforeLaunch ==
  ASSUME TypeInv, [Next]_vars, NEW q \in Processes, pc'[q] = "launch", ~job'[q].run.no_check
  PROVE  /\ job'[q] = job[q]
         /\ \/ pc[q] = "launch"
            \/ Check(q) /\ Loadable(job[q].run.mode, job[q].slice)
<1>1. CASE UNCHANGED <<pc, job>>
  BY <1>1
<1>2. ASSUME NEW p \in Processes \ {q}, Elsewhere(p)
      PROVE  pc'[q] = pc[q] /\ job'[q] = job[q]
  BY <1>2 DEF Elsewhere
<1>3. ASSUME NEW slice, GoesOn(q, slice)
      PROVE  FALSE
  <2>1. pc'[q] = IF job[q].run.no_check THEN "launch" ELSE "check"
    BY <1>3 DEF GoesOn
  <2>2. job'[q].run = job[q].run
    BY <1>3, ChangesSays DEF GoesOn
  <2> QED BY <2>1, <2>2
<1>4. ~Refused(q)
  BY DEF Refused
<1>5. \A name : ~Named(q, name)
  BY DEF Named
<1>6. CASE Run(q)
  <2>1. ~Begin(q)
    BY BeginLocal
  <2>2. ~CutProfile(q) /\ ~FillProfile(q)
    BY Moves DEF CutProfile, FillProfile, Ends, Goto, TypeInv, Functions
  <2>3. ~LoadForApply(q) /\ ~WriteUnit(q) /\ ~Record(q) /\ ~ReadBackup(q) /\ ~Undo(q) /\ ~Reset(q)
    BY LoadForApplyLocal, WriteUnitLocal, RecordLocal, ReadBackupLocal, UndoLocal
  <2>4. ~Resolve(q) /\ ~ReadState(q) /\ ~LoadForRun(q) /\ ~Launch(q)
    BY <1>3, <1>5, ResolveLocal, ReadStateLocal, LoadForRunLocal, LaunchLocal
  <2>5. Check(q)
    BY <1>6, <2>1, <2>2, <2>3, <2>4 DEF Run
  <2> QED BY <1>4, <2>5, CheckLocal
<1>7. ~CallFails(q) /\ ~Kill(q)
  BY <1>4, CallFailsLocal, KillLocal
<1> QED BY <1>1, <1>2, <1>6, <1>7, OneMoves

\* Only a command that begins, or an undo, changes undone.
LEMMA WhoUndoes ==
  ASSUME [Next]_vars
  PROVE  undone' = undone \/ \E p \in Processes : Begin(p) \/ Undo(p)
<1>1. CASE Edit
  BY <1>1 DEF Edit
<1>2. ASSUME NEW p \in Processes, Run(p), ~Begin(p), ~Undo(p)
      PROVE  undone' = undone
  BY <1>2 DEF Run, CutProfile, FillProfile, LoadForApply, WriteUnit, Record, ReadBackup, Reset, Resolve,
     ReadState, LoadForRun, Check, Launch, Keeps, ghosts
<1>3. ASSUME NEW p \in Processes, CallFails(p) \/ Kill(p)
      PROVE  undone' = undone
  BY <1>3 DEF CallFails, Kill, Fault
<1>4. CASE UNCHANGED vars
  BY <1>4 DEF vars, ghosts
<1> QED BY <1>1, <1>2, <1>3, <1>4 DEF Next

LEMMA ContainedStep == TypeInv /\ ContainedRuns /\ [Next]_vars => ContainedRuns'
<1> SUFFICES ASSUME TypeInv, ContainedRuns, [Next]_vars, NEW q \in Processes,
                    pc'[q] = "launch", ~job'[q].run.no_check, ~undone'[q]
             PROVE  Loadable(job[q].run.mode, job[q].slice)' 
  BY DEF ContainedRuns
<1>1. /\ job'[q] = job[q]
      /\ pc[q] = "launch" \/ (Check(q) /\ Loadable(job[q].run.mode, job[q].slice))
  BY BeforeLaunch
<1>2. undone \in [Processes -> BOOLEAN]
  BY DEF TypeInv, Functions
<1>3. ASSUME NEW p \in Processes, Begin(p)
      PROVE  undone'[q] = undone[q] /\ units' = units
  <2>1. p # q
    BY <1>3, BeginLocal
  <2> QED BY <1>2, <1>3, <2>1 DEF Begin, shared
<1>4. ASSUME NEW p \in Processes, Undo(p), pc[q] = "launch"
      PROVE  FALSE
  BY <1>4 DEF Undo
<1>5. CASE Check(q)
  BY <1>1, <1>5 DEF Check, shared, Loadable
<1>6. CASE pc[q] = "launch"
  <2>1. ~undone[q]
    BY <1>3, <1>4, <1>6, WhoUndoes
  <2>2. Loadable(job[q].run.mode, job[q].slice)
    BY <1>1, <1>6, <2>1 DEF ContainedRuns
  <2>3. ASSUME NEW p \in Processes, WriteUnit(p)
        PROVE  DOMAIN units \subseteq DOMAIN units'
    <3>1. units' = Written(Head(job[p].todo)[1], Head(job[p].todo)[2])
      BY <2>3 DEF WriteUnit
    <3>2. Updated(units', units, Head(job[p].todo)[1], Head(job[p].todo)[2])
      BY <3>1, WrittenIs
    <3> QED BY <3>2 DEF Updated
  <2>4. DOMAIN units \subseteq DOMAIN units'
    BY <1>4, <1>6, <2>3, WhoWrites
  <2> QED BY <1>1, <2>2, <2>4 DEF Loadable
<1> QED BY <1>1, <1>5, <1>6

\* A program that run or rescue starts after its check has a unit to run in,
\* for its manager, if no undo took units back between its check and its start,
\* with any number of applies, edits, failing calls, kills and earlier undoings
\* beside it.  Nothing is said of an undo in between, when the unit may be gone
\* (execute_run_plan does not look again).
THEOREM ContainedRunsHolds == Spec => []ContainedRuns
<1>1. Init => ContainedRuns
  BY DEF Init, ContainedRuns
<1> QED BY <1>1, ContainedStep, TypeInvHolds, PTL DEF Spec
-----------------------------------------------------------------------------
(* doctor goes by the managed paths.                                       *)

LEMMA ResolvedAsCollected ==
  ASSUME NEW profile, NEW c \in DOMAIN collect_classes(profile)
  PROVE  resolve_class_slice(profile, c) = SliceOf(collect_classes(profile), c)
  BY DEF resolve_class_slice, collect_classes, Over, SliceOf

LEMMA ManagedPaths ==
  ASSUME StateFile, Active
  PROVE  \A u : u \in managed_paths <=> \E j \in 1..Len(state.saved) : state.saved[j][1] = u
<1>1. DOMAIN state.saved = 1..Len(state.saved)
  BY SeqLength DEF StateFile, Active, AllFit
<1>2. KnownState = state
  BY DEF KnownState, Active
<1> QED BY <1>1, <1>2 DEF managed_paths

\* The units of every class are managed paths, unless the apply left them out,
\* and then no managed path is a slice.
LEMMA ManagedSlices ==
  ASSUME StateFile, AsRecorded, Active
  PROVE  IF applied.no_classes THEN \A u \in managed_paths : ~EndsInSlice(u)
         ELSE \A c \in DOMAIN collect_classes(applied.profile), mode \in Modes :
                LET u == <<mode, resolve_class_slice(applied.profile, c)>>
                IN  u \in managed_paths /\ EndsInSlice(u)
<1>1. /\ Valid(applied.profile) /\ applied.no_classes \in BOOLEAN /\ IsProfile(applied.profile)
      /\ \A i \in 1..Len(AppliedPlan) : \E j \in 1..Len(state.saved) : state.saved[j][1] = AppliedPlan[i][1]
      /\ \A j \in 1..Len(state.saved) : \E i \in 1..Len(AppliedPlan) : state.saved[j][1] = AppliedPlan[i][1]
  BY DEF AsRecorded, Valid
<1>2. /\ AppliedPlan[1] = DropInsWrite(applied.profile)
      /\ \A i \in 2..Len(AppliedPlan) : ~applied.no_classes
      /\ ~applied.no_classes => \A c \in DOMAIN collect_classes(applied.profile), mode \in Modes :
           \E i \in 2..Len(AppliedPlan) : AppliedPlan[i] = ClassWrite(applied.profile, c, mode)
      /\ Len(AppliedPlan) \in Nat
  BY <1>1, PlanWrites, SeqLength DEF AppliedPlan
<1>3. CASE applied.no_classes
  <2> SUFFICES ASSUME NEW u \in managed_paths PROVE ~EndsInSlice(u)
    BY <1>3
  <2>1. PICK j \in 1..Len(state.saved) : state.saved[j][1] = u
    BY ManagedPaths
  <2>2. PICK i \in 1..Len(AppliedPlan) : u = AppliedPlan[i][1]
    BY <1>1, <2>1
  <2>3. i = 1
    BY <1>2, <1>3, <2>2
  <2>4. u[2] = <<"drop-ins">>
    BY <1>2, <2>2, <2>3 DEF DropInsWrite, DropIns
  <2> QED BY <2>4, DropInsDoNot DEF EndsInSlice
<1>4. CASE ~applied.no_classes
  <2> SUFFICES ASSUME NEW c \in DOMAIN collect_classes(applied.profile), NEW mode \in Modes
               PROVE  LET u == <<mode, resolve_class_slice(applied.profile, c)>>
                      IN  u \in managed_paths /\ EndsInSlice(u)
    BY <1>4
  <2> DEFINE slice == SliceOf(collect_classes(applied.profile), c) u == <<mode, slice>>
  <2>1. resolve_class_slice(applied.profile, c) = slice
    BY ResolvedAsCollected
  <2>2. IsSuffix(<<".", "slice">>, slice)
    BY <1>1, SliceEnds
  <2>3. PICK i \in 2..Len(AppliedPlan) : AppliedPlan[i] = ClassWrite(applied.profile, c, mode)
    BY <1>2, <1>4
  <2>4. AppliedPlan[i][1] = u
    BY <2>3 DEF ClassWrite
  <2>5. i \in 1..Len(AppliedPlan)
    BY <1>2, <2>3
  <2>6. PICK j \in 1..Len(state.saved) : state.saved[j][1] = AppliedPlan[i][1]
    BY <1>1, <2>5
  <2>7. u \in managed_paths
    BY <2>4, <2>6, ManagedPaths
  <2>8. EndsInSlice(u)
    <3> HIDE DEF slice
    <3>1. u[2] = slice
      OBVIOUS
    <3> QED BY <2>2, <3>1 DEF EndsInSlice, slice
  <2> QED BY <2>1, <2>7, <2>8
<1> QED BY <1>3, <1>4

\* doctor reports no missing slice only if run finds the slice of every class,
\* for both managers, also while another apply or rollback is at work.
THEOREM DoctorFindsMissingSlicesHolds == Spec => []DoctorFindsMissingSlices
<1>1. TypeInv => DoctorFindsMissingSlices
  <2> SUFFICES ASSUME TypeInv, ActiveAsApplied, doctor(TRUE, FALSE, TRUE) = 0,
                      NEW c \in DOMAIN collect_classes(applied.profile), NEW mode \in Modes
               PROVE  Loadable(mode, resolve_class_slice(applied.profile, c))
    BY DEF DoctorFindsMissingSlices
  <2> DEFINE installed == class_slices_installed({u \in managed_paths : EndsInSlice(u)})
  <2>1. installed
    BY DEF doctor, Code
  <2>2. /\ \E u \in managed_paths : EndsInSlice(u)
        /\ \A u \in managed_paths : EndsInSlice(u) => u \in DOMAIN units
    BY <2>1 DEF class_slices_installed
  <2>3. Active /\ StateFile /\ AsRecorded
    BY DEF TypeInv, ActiveAsApplied, Active
  <2>4. ~applied.no_classes
    BY <2>2, <2>3, ManagedSlices
  <2>5. LET u == <<mode, resolve_class_slice(applied.profile, c)>> IN u \in managed_paths /\ EndsInSlice(u)
    BY <2>3, <2>4, ManagedSlices
  <2> QED BY <2>2, <2>5 DEF Loadable
<1> QED BY <1>1, TypeInvHolds, PTL

-----------------------------------------------------------------------------
(* What an apply wrote stays in place.                                     *)

LEMMA IdleIsNoWriter ==
  ASSUME NEW p, Placed(p), IsWriter(job[p])
  PROVE  pc[p] # "idle" /\ pc[p] \notin RunCalls
<1>1. ASSUME pc[p] = "idle" PROVE FALSE
  <2>1. job[p] = [NoJob EXCEPT !.code = job[p].code]
    BY <1>1 DEF Placed
  <2>2. job[p].op = "none"
    BY <2>1, CodedJob
  <2> QED BY <2>2 DEF IsWriter
<1>2. pc[p] \notin RunCalls
  BY DEF Placed, IsWriter
<1> QED BY <1>1, <1>2

\* A command keeps its kind until it ends.
LEMMA OpStays ==
  ASSUME TypeInv, [Next]_vars, NEW q \in Processes, ~Begin(q)
  PROVE  job'[q].op = job[q].op \/ (pc'[q] = "idle" /\ job'[q].op = "none")
<1>1. CASE UNCHANGED <<pc, job>>
  BY <1>1
<1>2. ASSUME NEW p \in Processes \ {q}, Elsewhere(p)
      PROVE  job'[q] = job[q]
  BY <1>2 DEF Elsewhere
<1>3. ASSUME NEW slice, GoesOn(q, slice)
      PROVE  job'[q].op = job[q].op
  BY <1>3, ChangesSays DEF GoesOn
<1>4. ASSUME NEW name, Named(q, name)
      PROVE  job'[q].op = job[q].op
  BY <1>4, ChangesSays DEF Named
<1>5. ASSUME Refused(q)
      PROVE  job'[q].op = job[q].op \/ (pc'[q] = "idle" /\ job'[q].op = "none")
  BY <1>5, ChangesSays DEF Refused
<1>6. CASE Run(q)
  <2>1. CASE CutProfile(q)
    BY <2>1 DEF CutProfile
  <2>2. CASE FillProfile(q)
    BY <2>2, FillProfileLocal
  <2>3. CASE LoadForApply(q)
    BY <2>3, LoadForApplyLocal, ChangesSays
  <2>4. CASE WriteUnit(q) \/ Record(q) \/ Reset(q) \/ ReadBackup(q) \/ Undo(q) \/ Launch(q)
    BY <2>4, WriteUnitLocal, RecordLocal, ReadBackupLocal, UndoLocal, LaunchLocal
  <2>5. CASE Resolve(q)
    BY <1>3, <1>4, <2>5, ResolveLocal
  <2>6. CASE ReadState(q)
    BY <1>3, <1>4, <2>6, ReadStateLocal
  <2>7. CASE LoadForRun(q)
    BY <1>3, <2>7, LoadForRunLocal
  <2>8. CASE Check(q)
    BY <1>5, <2>8, CheckLocal
  <2> QED BY <1>6, <2>1, <2>2, <2>3, <2>4, <2>5, <2>6, <2>7, <2>8 DEF Run
<1>7. CASE CallFails(q) \/ Kill(q)
  BY <1>5, <1>7, CallFailsLocal, KillLocal
<1> QED BY <1>1, <1>2, <1>6, <1>7, OneMoves

\* Once broken always broken; a writer that is cut short, or begins beside
\* another, breaks.
LEMMA WhoBreaks ==
  ASSUME [Next]_vars, ~broken'
  PROVE  /\ ~broken
         /\ \A p \in Processes : CallFails(p) \/ Kill(p) => ~IsWriter(job[p])
<1>1. ASSUME NEW p \in Processes, CallFails(p) \/ Kill(p)
      PROVE  ~broken /\ ~IsWriter(job[p])
  BY <1>1, Zenon DEF CallFails, Kill, Fault
<1>2. ASSUME NEW p \in Processes, Begin(p)
      PROVE  ~broken
  BY <1>2, Zenon DEF Begin
<1>3. ASSUME NEW p \in Processes, Run(p), ~Begin(p)
      PROVE  broken' = broken
  BY <1>3 DEF Run, CutProfile, FillProfile, LoadForApply, WriteUnit, Record, ReadBackup, Undo, Reset, Resolve,
     ReadState, LoadForRun, Check, Launch, Keeps, ghosts
<1>4. ASSUME Edit \/ UNCHANGED vars
      PROVE  broken' = broken
  BY <1>4 DEF Edit, vars, ghosts
<1> QED BY <1>1, <1>2, <1>3, <1>4 DEF Next

LEMMA OneWriterStep ==
  ASSUME TypeInv, OneWriter, [Next]_vars
  PROVE  OneWriter'
<1> SUFFICES ASSUME ~broken', NEW p \in Processes, NEW q \in Processes, WriterAt(p)', WriterAt(q)'
             PROVE  p = q
  BY DEF OneWriter
<1>1. ~broken
  BY WhoBreaks
<1>2. ASSUME NEW r \in Processes, WriterAt(r)', ~Begin(r)
      PROVE  WriterAt(r)
  <2>1. IsWriter(job[r])
    BY <1>2, OpStays DEF WriterAt, IsWriter
  <2> QED BY <2>1, IdleIsNoWriter DEF TypeInv, WriterAt
<1>3. ASSUME NEW r \in Processes, Begin(r), WriterAt(r)', NEW s \in Processes, s # r
      PROVE  ~WriterAt(s)'
  <2>1. PICK c \in Commands[r] : /\ Set(r, c)
                                 /\ broken' = (broken \/ (IsWriter(c) /\ \E w \in Working : IsWriter(job[w])))
    BY <1>3, Zenon DEF Begin
  <2>2. job'[r] = c
    BY <2>1 DEF Set, TypeInv, Functions
  <2>3. IsWriter(c)
    BY <1>3, <2>2 DEF WriterAt
  <2>4. \A w \in Working : ~IsWriter(job[w])
    BY <2>1, <2>3, Zenon
  <2>5. pc'[s] = pc[s] /\ job'[s] = job[s]
    BY <1>3, BeginLocal DEF Elsewhere
  <2> QED BY <2>4, <2>5 DEF WriterAt, Working
<1> QED BY <1>1, <1>2, <1>3 DEF OneWriter

\* The front of a plan stays in force when its next write is made.
LEMMA InForceGrows ==
  ASSUME NEW profile, Valid(profile), NEW no_classes \in BOOLEAN, NEW n \in Nat,
         n + 1 <= Len(build_apply_plan(profile, no_classes)),
         Len(build_apply_plan(profile, no_classes)) \in Nat,
         InForce(profile, build_apply_plan(profile, no_classes), n),
         LET write == build_apply_plan(profile, no_classes)[n + 1]
         IN  Updated(units', units, write[1], write[2])
  PROVE  InForce(profile, build_apply_plan(profile, no_classes), n + 1)'
<1> DEFINE plan == build_apply_plan(profile, no_classes)
<1>1. ASSUME OwnSlices(profile), NEW i \in 1..Len(plan), NEW j \in 1..Len(plan), plan[i][1] = plan[j][1]
      PROVE  plan[i][2] = plan[j][2]
  BY <1>1, OneContent
<1>2. /\ n + 1 <= Len(plan) /\ Len(plan) \in Nat /\ InForce(profile, plan, n)
      /\ Updated(units', units, plan[n + 1][1], plan[n + 1][2])
  OBVIOUS
<1> SUFFICES InForce(profile, plan, n + 1)'
  OBVIOUS
<1> HIDE DEF plan
<1> SUFFICES ASSUME NEW i \in 1..(n + 1)
             PROVE  /\ plan[i][1] \in DOMAIN units'
                    /\ OwnSlices(profile) => units'[plan[i][1]] = plan[i][2]
  BY Zenon DEF InForce
<1>3. i \in 1..Len(plan) /\ n + 1 \in 1..Len(plan)
  BY <1>2
<1>4. CASE plan[i][1] = plan[n + 1][1]
  BY <1>1, <1>2, <1>3, <1>4 DEF Updated
<1>5. CASE plan[i][1] # plan[n + 1][1]
  <2>1. i \in 1..n
    <3>1. i # n + 1
      BY <1>5
    <3> QED BY <3>1
  <2>2. /\ plan[i][1] \in DOMAIN units
        /\ OwnSlices(profile) => units[plan[i][1]] = plan[i][2]
    BY <1>2, <2>1 DEF InForce
  <2> QED BY <1>2, <1>5, <2>2 DEF Updated
<1> QED BY <1>4, <1>5


Writing == {"write", "record", "undo", "reset"}

\* How a process comes to write, or goes on writing.
LEMMA IntoWriting ==
  ASSUME TypeInv, [Next]_vars, NEW q \in Processes, pc'[q] \in Writing
  PROVE  \/ pc'[q] = pc[q] /\ job'[q] = job[q]
         \/ LoadForApply(q) \/ WriteUnit(q) \/ ReadBackup(q) \/ Undo(q)
         \/ CallFails(q) /\ IsWriter(job[q])
<1> USE DEF Writing
<1>1. CASE UNCHANGED <<pc, job>>
  BY <1>1
<1>2. ASSUME NEW p \in Processes \ {q}, Elsewhere(p)
      PROVE  pc'[q] = pc[q] /\ job'[q] = job[q]
  BY <1>2 DEF Elsewhere
<1>3. ~Refused(q)
  BY DEF Refused
<1>4. \A x : ~Named(q, x) /\ ~GoesOn(q, x)
  BY DEF Named, GoesOn
<1>5. CASE Run(q)
  <2>1. ~Begin(q)
    BY BeginLocal
  <2>2. ~CutProfile(q) /\ ~FillProfile(q)
    BY Moves DEF CutProfile, FillProfile, Ends, Goto, TypeInv, Functions
  <2>3. ~Record(q) /\ ~Reset(q) /\ ~Launch(q)
    BY RecordLocal, LaunchLocal
  <2>4. ~Resolve(q) /\ ~ReadState(q) /\ ~LoadForRun(q)
    BY <1>4, ResolveLocal, ReadStateLocal, LoadForRunLocal
  <2>5. ~Check(q)
    BY <1>3, CheckLocal
  <2> QED BY <1>5, <2>1, <2>2, <2>3, <2>4, <2>5 DEF Run
<1>6. ~Kill(q)
  BY KillLocal
<1>7. ASSUME CallFails(q) PROVE IsWriter(job[q])
  <2>1. pc[q] \in {"write", "record"}
    BY <1>3, <1>7, CallFailsLocal
  <2> QED BY <2>1 DEF TypeInv, Placed, Applying, IsWriter
<1> QED BY <1>1, <1>2, <1>5, <1>6, <1>7, OneMoves

\* How a process that is not cut short stops writing.
LEMMA OutOfWriting ==
  ASSUME TypeInv, PlaceInv, [Next]_vars, ~broken', NEW q \in Processes, pc[q] \in Writing
  PROVE  pc'[q] \in Writing \/ Record(q) \/ Reset(q)
<1> SUFFICES ASSUME pc'[q] \notin Writing PROVE Record(q) \/ Reset(q)
  OBVIOUS
<1> USE DEF Writing
<1>1. ~UNCHANGED <<pc, job>>
  OBVIOUS
<1>2. ASSUME NEW p \in Processes \ {q}, Elsewhere(p)
      PROVE  FALSE
  BY <1>2 DEF Elsewhere
<1>3. IsWriter(job[q])
  BY DEF TypeInv, Placed, Applying, IsWriter
<1>4. ~CallFails(q) /\ ~Kill(q)
  BY <1>3, WhoBreaks
<1>5. CASE Run(q)
  <2>1. ~WriteUnit(q)
    BY WriteUnitLocal
  <2>2. ASSUME Undo(q) PROVE FALSE
    <3>1. job[q].op = "rollback"
      BY <2>2, WhoBreaks DEF PlaceInv, Undo
    <3>2. pc'[q] \in {"undo", "reset"}
      BY <2>2, <3>1, Moves DEF Undo, TypeInv, Functions
    <3> QED BY <3>2
  <2>3. /\ ~Begin(q) /\ ~CutProfile(q) /\ ~FillProfile(q) /\ ~LoadForApply(q) /\ ~ReadBackup(q)
        /\ ~Resolve(q) /\ ~ReadState(q) /\ ~LoadForRun(q) /\ ~Check(q) /\ ~Launch(q)
    BY DEF Begin, CutProfile, FillProfile, LoadForApply, ReadBackup, Resolve, ReadState, LoadForRun, Check, Launch
  <2> QED BY <1>5, <2>1, <2>2, <2>3 DEF Run
<1> QED BY <1>1, <1>2, <1>4, <1>5, OneMoves

\* Only who is at work on unit files changes them.
LEMMA WhoChangesUnits ==
  ASSUME TypeInv, [Next]_vars, units' # units
  PROVE  \E p \in Processes : /\ WriteUnit(p) \/ Undo(p)
                              /\ p \in WritersAtWork /\ WriterAt(p)
<1>1. PICK p \in Processes : WriteUnit(p) \/ Undo(p)
  BY WhoWrites
<1>2. pc[p] \in {"write", "undo"}
  BY <1>1 DEF WriteUnit, Undo
<1>3. Placed(p)
  BY DEF TypeInv
<1>4. IsWriter(job[p])
  BY <1>2, <1>3 DEF Placed, Applying, IsWriter
<1> QED BY <1>1, <1>2, <1>4 DEF WritersAtWork, WriterAt

LEMMA UndoStep ==
  ASSUME TypeInv, PlaceInv, [Next]_vars, ~broken', NEW q \in Processes, pc'[q] = "undo"
  PROVE  job'[q].op = "rollback"
<1>1. ~broken
  BY WhoBreaks
<1>2. pc[q] = "undo" => job[q].op = "rollback"
  BY <1>1 DEF PlaceInv
<1>3. CASE LoadForApply(q) \/ WriteUnit(q)
  BY <1>3, LoadForApplyLocal, WriteUnitLocal
<1>4. CASE ReadBackup(q)
  BY <1>4, ReadBackupLocal
<1>5. CASE Undo(q)
  <2>1. pc[q] = "undo"
    BY <1>5 DEF Undo
  <2> QED BY <1>2, <1>5, <2>1, UndoLocal
<1>6. CASE CallFails(q) /\ IsWriter(job[q])
  BY <1>6, WhoBreaks
<1>7. CASE pc'[q] = pc[q] /\ job'[q] = job[q]
  BY <1>2, <1>7
<1> QED BY <1>3, <1>4, <1>5, <1>6, <1>7, IntoWriting DEF Writing

\* What this apply has written is in place.
LEMMA PlanStep ==
  ASSUME TypeInv, PlaceInv, [Next]_vars, ~broken', NEW q \in Processes, pc'[q] \in {"write", "record"}
  PROVE  InForce(job[q].profile, Plan(q), Done(q))'
<1>1. ~broken
  BY WhoBreaks
<1>2. pc[q] \in {"write", "record"} => InForce(job[q].profile, Plan(q), Done(q))
  BY <1>1 DEF PlaceInv
<1>3. CASE LoadForApply(q)
  <2>1. Done(q)' = 0
    BY <1>3, LoadForApplyLocal
  <2> QED BY <2>1 DEF InForce
<1>4. CASE WriteUnit(q)
  <2>1. /\ job'[q].profile = job[q].profile /\ Plan(q)' = Plan(q) /\ Done(q)' = Done(q) + 1
        /\ Done(q) \in Nat /\ Done(q) + 1 <= Len(Plan(q)) /\ Len(Plan(q)) \in Nat
        /\ Head(job[q].todo) = Plan(q)[Done(q) + 1]
    BY <1>4, WriteUnitLocal
  <2>2. Valid(job[q].profile) /\ job[q].no_classes \in BOOLEAN /\ pc[q] = "write"
    BY <1>4 DEF TypeInv, OnPlan, Placed, WriteUnit
  <2>3. PICK profile, no_classes, n : profile = job[q].profile /\ no_classes = job[q].no_classes /\ n = Done(q)
    OBVIOUS
  <2>4. Plan(q) = build_apply_plan(profile, no_classes)
    BY <2>3 DEF Plan
  <2> DEFINE write == Head(job[q].todo)
  <2>5. Updated(units', units, write[1], write[2])
    BY <1>4, WrittenIs DEF WriteUnit
  <2> DEFINE plan == build_apply_plan(profile, no_classes)
  <2>6. /\ Valid(profile) /\ no_classes \in BOOLEAN /\ n \in Nat /\ n + 1 <= Len(plan) /\ Len(plan) \in Nat
        /\ InForce(profile, plan, n) /\ Updated(units', units, plan[n + 1][1], plan[n + 1][2])
    BY <1>2, <2>1, <2>2, <2>3, <2>4, <2>5
  <2>7. InForce(profile, plan, n + 1)'
    BY <2>6, InForceGrows
  <2>8. job'[q].profile = profile /\ Plan(q)' = plan /\ Done(q)' = n + 1
    BY <2>1, <2>3, <2>4
  <2> HIDE DEF plan
  <2> QED BY <2>7, <2>8 DEF InForce
<1>5. CASE ReadBackup(q) \/ Undo(q)
  BY <1>5, ReadBackupLocal, UndoLocal
<1>6. CASE CallFails(q) /\ IsWriter(job[q])
  BY <1>6, WhoBreaks
<1>7. CASE pc'[q] = pc[q] /\ job'[q] = job[q] /\ ~WriteUnit(q) /\ ~Undo(q)
  <2>1. WriterAt(q)
    BY <1>7 DEF TypeInv, Placed, Applying, WriterAt, IsWriter
  <2>2. units' = units
    <3> SUFFICES ASSUME NEW p \in Processes, WriteUnit(p) \/ Undo(p), WriterAt(p) PROVE FALSE
      BY WhoChangesUnits
    <3>1. p = q
      BY <1>1, <2>1 DEF PlaceInv, OneWriter
    <3> QED BY <1>7, <3>1
  <2>3. Plan(q)' = Plan(q) /\ Done(q)' = Done(q)
    BY <1>7 DEF Plan, Done
  <2> QED BY <1>2, <1>7, <2>2, <2>3 DEF InForce
<1> QED BY <1>3, <1>4, <1>5, <1>6, <1>7, IntoWriting DEF Writing

\* What was applied last is in place when nobody is at work on the unit files.
LEMMA AppliedStep ==
  ASSUME TypeInv, PlaceInv, [Next]_vars, ~broken', Active', WritersAtWork' = {}
  PROVE  InForce(applied.profile, AppliedPlan, Len(AppliedPlan))'
<1>1. ~broken
  BY WhoBreaks
<1>2. ASSUME NEW p \in Processes, Record(p)
      PROVE  InForce(applied.profile, AppliedPlan, Len(AppliedPlan))'
  <2>1. /\ applied'.profile = job[p].profile /\ Done(p) = Len(Plan(p)) /\ AppliedPlan' = Plan(p)
    BY <1>2, RecordWrites
  <2>2. pc[p] = "record" /\ units' = units
    BY <1>2 DEF Record
  <2>3. InForce(job[p].profile, Plan(p), Done(p))
    BY <1>1, <2>2 DEF PlaceInv
  <2> QED BY <2>1, <2>2, <2>3 DEF InForce
<1>3. ASSUME NEW p \in Processes PROVE ~Reset(p)
  BY DEF Reset, Active, DefaultState
<1>4. CASE ~\E p \in Processes : Record(p)
  <2>1. state' = state /\ applied' = applied
    <3>1. state' # Torn
      BY DEF Active, Whole
    <3> QED BY <1>3, <1>4, <3>1, WhoWrites
  <2>2. Active /\ AppliedPlan' = AppliedPlan
    BY <2>1 DEF Active, Whole, AppliedPlan
  <2>3. WritersAtWork = {}
    BY <1>3, <1>4, OutOfWriting DEF WritersAtWork, Writing
  <2>4. units' = units
    BY <2>3, WhoChangesUnits
  <2>5. InForce(applied.profile, AppliedPlan, Len(AppliedPlan))
    BY <1>1, <2>2, <2>3 DEF PlaceInv
  <2> QED BY <2>1, <2>2, <2>4, <2>5 DEF InForce
<1> QED BY <1>2, <1>4

LEMMA PlaceInvStep == TypeInv /\ PlaceInv /\ [Next]_vars => PlaceInv'
<1> SUFFICES ASSUME TypeInv, PlaceInv, [Next]_vars PROVE PlaceInv'
  OBVIOUS
<1>1. OneWriter'
  BY OneWriterStep DEF PlaceInv
<1>2. ASSUME ~broken', NEW q \in Processes
      PROVE  /\ pc'[q] = "undo" => job'[q].op = "rollback"
             /\ pc'[q] \in {"write", "record"} => InForce(job[q].profile, Plan(q), Done(q))'
  BY <1>2, UndoStep, PlanStep
<1>3. ASSUME ~broken', Active', WritersAtWork' = {}
      PROVE  InForce(applied.profile, AppliedPlan, Len(AppliedPlan))'
  BY <1>3, AppliedStep
<1> QED BY <1>1, <1>2, <1>3 DEF PlaceInv

LEMMA PlaceInvInit == Init => PlaceInv
<1> SUFFICES ASSUME Init PROVE PlaceInv
  OBVIOUS
<1>1. \A p \in Processes : pc[p] = "idle"
  BY DEF Init
<1>2. OneWriter
  BY <1>1 DEF OneWriter, WriterAt
<1>3. ~Active
  BY DEF Init, Active, Whole
<1> QED BY <1>1, <1>2, <1>3 DEF PlaceInv

\* As long as no command is cut short and no two are at work at once, what an
\* apply has written so far is in place, and so is all of the apply recorded last.
THEOREM PlaceInvHolds == Spec => [](TypeInv /\ PlaceInv)
<1>1. Init => TypeInv /\ PlaceInv
  BY TypeInvInit, PlaceInvInit
<1>2. TypeInv /\ PlaceInv /\ [Next]_vars => (TypeInv /\ PlaceInv)'
  BY TypeInvStep, PlaceInvStep
<1> QED BY <1>1, <1>2, PTL DEF Spec

-----------------------------------------------------------------------------
(* What holds when nobody is at work.                                      *)

\* The units of every class of what is applied, with their contents.
LEMMA SettledUnits ==
  ASSUME TypeInv, PlaceInv, Settled
  PROVE  /\ Active /\ StateFile /\ AsRecorded /\ Valid(applied.profile) /\ applied.no_classes = FALSE
         /\ InForce(applied.profile, AppliedPlan, Len(AppliedPlan)) /\ Len(AppliedPlan) \in Nat
         /\ \A c \in DOMAIN collect_classes(applied.profile), mode \in Modes :
              \E i \in 1..Len(AppliedPlan) : AppliedPlan[i] = ClassWrite(applied.profile, c, mode)
<1>1. ~broken /\ Active /\ ~applied.no_classes
  BY DEF Settled, ActiveAsApplied, Active
<1>2. WritersAtWork = {}
  BY DEF Settled, Working, WritersAtWork
<1>3. InForce(applied.profile, AppliedPlan, Len(AppliedPlan))
  BY <1>1, <1>2 DEF PlaceInv
<1>4. StateFile /\ AsRecorded /\ Valid(applied.profile) /\ applied.no_classes \in BOOLEAN
  BY <1>1 DEF TypeInv, AsRecorded
<1>5. applied.no_classes = FALSE
  BY <1>1, <1>4
<1>6. /\ Len(AppliedPlan) \in Nat
      /\ \A c \in DOMAIN collect_classes(applied.profile), mode \in Modes :
           \E i \in 2..Len(AppliedPlan) : AppliedPlan[i] = ClassWrite(applied.profile, c, mode)
  BY <1>1, <1>4, PlanWrites, SeqLength DEF AppliedPlan, Valid
<1>7. \A i \in 2..Len(AppliedPlan) : i \in 1..Len(AppliedPlan)
  BY <1>6
<1> QED BY <1>1, <1>3, <1>4, <1>5, <1>6, <1>7

LEMMA SettledClass ==
  ASSUME TypeInv, PlaceInv, Settled, NEW c \in DOMAIN collect_classes(applied.profile), NEW mode \in Modes
  PROVE  LET u == <<mode, resolve_class_slice(applied.profile, c)>> IN
         /\ u \in DOMAIN units
         /\ OwnSlices(applied.profile) => units[u] = SliceUnit(collect_classes(applied.profile), c)
<1> DEFINE classes == collect_classes(applied.profile) u == <<mode, SliceOf(classes, c)>>
<1>1. resolve_class_slice(applied.profile, c) = SliceOf(classes, c)
  BY ResolvedAsCollected
<1>2. PICK i \in 1..Len(AppliedPlan) : AppliedPlan[i] = ClassWrite(applied.profile, c, mode)
  BY SettledUnits
<1>3. /\ AppliedPlan[i][1] \in DOMAIN units
      /\ OwnSlices(applied.profile) => units[AppliedPlan[i][1]] = AppliedPlan[i][2]
  BY SettledUnits DEF InForce
<1>4. AppliedPlan[i][1] = u /\ AppliedPlan[i][2] = SliceUnit(classes, c)
  BY <1>2 DEF ClassWrite
<1> QED BY <1>1, <1>3, <1>4

LEMMA AppliedClassesRunNow == TypeInv /\ PlaceInv => AppliedClassesRun
  BY SettledClass DEF AppliedClassesRun, Loadable

\* After an apply, whatever was done before it, every class of the active
\* profile has the slice that run looks up, for root and for users.
THEOREM AppliedClassesRunHolds == Spec => []AppliedClassesRun
  BY AppliedClassesRunNow, PlaceInvHolds, PTL

\* And nothing is left of what was applied before: diff has no change to report.
THEOREM DiffIsEmptyAfterApplyHolds == Spec => []DiffIsEmptyAfterApply
<1>1. TypeInv /\ PlaceInv => DiffIsEmptyAfterApply
  <2> SUFFICES ASSUME TypeInv, PlaceInv, Settled, OwnSlices(applied.profile)
               PROVE  diff(state.active) = [code |-> 0, changes |-> {}]
    BY DEF DiffIsEmptyAfterApply
  <2>1. /\ Valid(applied.profile) /\ applied.no_classes = FALSE /\ Len(AppliedPlan) \in Nat
        /\ InForce(applied.profile, AppliedPlan, Len(AppliedPlan))
    BY SettledUnits
  <2>2. profiles[state.active] = applied.profile
    BY DEF Settled, ActiveAsApplied
  <2>3. Whole(profiles[state.active]) /\ validate_profile(profiles[state.active]) = {}
    BY <2>1, <2>2 DEF Valid, IsProfile, Whole
  <2>4. profile_validate(state.active) = [code |-> 0, errors |-> {}]
    BY <2>3 DEF profile_validate
  <2>5. profile_validate(state.active).code = 0
    BY <2>4
  <2> DEFINE plan == build_apply_plan(profiles[state.active], FALSE)
             changes == {plan[i][1] : i \in {j \in DOMAIN plan : ~InPlace(plan[j])}}
  <2>6. diff(state.active) = [code |-> 0, changes |-> changes]
    BY <2>5, Zenon DEF diff
  <2>7. plan = AppliedPlan
    BY <2>1, <2>2 DEF AppliedPlan
  <2>8. DOMAIN AppliedPlan = 1..Len(AppliedPlan)
    BY <2>1, PlanWrites, SeqLength DEF AppliedPlan, Valid
  <2>9. \A j \in DOMAIN plan : InPlace(plan[j])
    <3> HIDE DEF plan
    <3> QED BY <2>1, <2>7, <2>8 DEF InForce, InPlace
  <2>10. changes = {}
    <3> HIDE DEF plan
    <3> QED BY <2>9
  <2> QED BY <2>6, <2>10
<1> QED BY <1>1, PlaceInvHolds, PTL

\* After an apply that nothing has cut short or changed since, status lists
\* resguard's own slices among those that run uses, and each has its units.
THEOREM StatusAgreesWithRunHolds == Spec => []StatusAgreesWithRun
<1>1. TypeInv /\ PlaceInv => StatusAgreesWithRun
  <2> SUFFICES ASSUME TypeInv, PlaceInv, Settled PROVE StatusAgreesWithRun
    BY DEF StatusAgreesWithRun
  <2> DEFINE classes == DOMAIN collect_classes(applied.profile)
             slices == {resolve_class_slice(applied.profile, class) : class \in classes}
             Own(slice) == IsPrefix(<<"resguard", "-">>, slice)
             listed == {u[2] : u \in {v \in managed_paths : Own(v[2]) /\ EndsInSlice(v)}}
  <2>1. status(Modes, TRUE).class_slices = listed
    BY DEF status, collect_class_slices_from_state
  <2>2. /\ Active /\ StateFile /\ AsRecorded /\ Valid(applied.profile) /\ applied.no_classes = FALSE
    BY SettledUnits
  <2>3. ASSUME NEW u \in managed_paths, EndsInSlice(u)
        PROVE  u[2] \in slices
    <3>1. PICK j \in 1..Len(state.saved) : state.saved[j][1] = u
      BY <2>2, ManagedPaths
    <3>2. PICK i \in 1..Len(AppliedPlan) : u = AppliedPlan[i][1]
      BY <2>2, <3>1 DEF AsRecorded
    <3>3. CASE i = 1
      <4>1. AppliedPlan[1] = DropInsWrite(applied.profile)
        BY <2>2, PlanWrites DEF AppliedPlan, Valid
      <4>2. u[2] = <<"drop-ins">>
        BY <3>2, <3>3, <4>1 DEF DropInsWrite, DropIns
      <4> QED BY <2>3, <4>2, DropInsDoNot DEF EndsInSlice
    <3>4. CASE i # 1
      <4>1. i \in 2..Len(AppliedPlan)
        BY <3>2, <3>4
      <4>5. IsProfile(applied.profile) /\ applied.no_classes \in BOOLEAN
        BY <2>2 DEF Valid
      <4>6. \A k \in 2..Len(AppliedPlan) :
              \E c \in classes, mode \in Modes : AppliedPlan[k] = ClassWrite(applied.profile, c, mode)
        BY <4>5, PlanWrites DEF AppliedPlan
      <4>2. PICK c \in classes, mode \in Modes : AppliedPlan[i] = ClassWrite(applied.profile, c, mode)
        BY <4>1, <4>6
      <4>3. u[2] = SliceOf(collect_classes(applied.profile), c)
        BY <3>2, <4>2 DEF ClassWrite
      <4>4. u[2] = resolve_class_slice(applied.profile, c)
        BY <4>3, ResolvedAsCollected
      <4> QED BY <4>4
    <3> QED BY <3>3, <3>4
  <2>4. ASSUME NEW c \in classes
        PROVE  \E u \in managed_paths : EndsInSlice(u) /\ u[2] = resolve_class_slice(applied.profile, c)
    <3> DEFINE slice == resolve_class_slice(applied.profile, c) u == <<"user", slice>>
    <3>1. "user" \in Modes
      BY DEF Modes
    <3>2. u \in managed_paths /\ EndsInSlice(u)
      BY <2>2, <3>1, ManagedSlices
    <3>3. u[2] = slice
      OBVIOUS
    <3> HIDE DEF u
    <3> QED BY <3>2, <3>3
  <2>5. listed = {slice \in slices : Own(slice)}
    <3> HIDE DEF slices, Own
    <3>1. ASSUME NEW slice \in slices, Own(slice) PROVE slice \in listed
      <4>1. PICK c \in classes : slice = resolve_class_slice(applied.profile, c)
        BY DEF slices
      <4> QED BY <2>4, <3>1, <4>1
    <3>2. ASSUME NEW slice \in listed PROVE slice \in slices /\ Own(slice)
      BY <2>3
    <3> QED BY <3>1, <3>2
  <2>6. \A slice \in listed, mode \in Modes : Loadable(mode, slice)
    <3>1. \A slice \in slices, mode \in Modes : Loadable(mode, slice)
      BY AppliedClassesRunNow DEF AppliedClassesRun
    <3> HIDE DEF slices, Own
    <3> QED BY <2>5, <3>1
  <2> HIDE DEF listed
  <2> QED BY <2>1, <2>5, <2>6 DEF StatusAgreesWithRun
<1> QED BY <1>1, PlaceInvHolds, PTL

\* top shows for each class the slice that run uses and, as live limits, those
\* that the profile configures.
THEOREM TopRowsAreLiveHolds == Spec => []TopRowsAreLive
<1>1. TypeInv /\ PlaceInv => TopRowsAreLive
  <2> SUFFICES ASSUME TypeInv, PlaceInv, Settled, OwnSlices(applied.profile),
                      NEW managers \in (SUBSET Modes) \ {{}},
                      NEW row \in collect_top_snapshot(managers).rows
               PROVE  /\ row.slice = resolve_class_slice(applied.profile, row.class)
                      /\ row.live = row.configured
    BY Zenon DEF TopRowsAreLive
  <2> DEFINE profile == applied.profile
  <2>1. /\ Active /\ Valid(profile) /\ profiles[state.active] = profile
    BY SettledUnits DEF Settled, ActiveAsApplied
  <2>2. load_active_profile = profile /\ Whole(profile)
    BY <2>1 DEF load_active_profile, KnownState, Active, Valid, IsProfile, Whole
  <2>3. row \in build_class_rows(managers)
    BY DEF collect_top_snapshot
  <2>4. PICK c \in DOMAIN profile.classes : row = top_row(c, profile.classes[c], managers)
    BY <2>2, <2>3 DEF build_class_rows
  <2> DEFINE spec == profile.classes[c] slice == class_slice_name(c, spec) source == Source(managers)
  <2>5. c \in DOMAIN collect_classes(profile) /\ collect_classes(profile)[c] = spec
    BY DEF collect_classes, Over
  <2>6. slice = resolve_class_slice(profile, c)
    BY DEF class_slice_name, resolve_class_slice, SliceOf
  <2>7. source \in Modes /\ source # "-"
    <3>1. managers \subseteq {"system", "user"} /\ managers # {}
      BY DEF Modes
    <3> QED BY <3>1 DEF Source, Modes
  <2>8. /\ <<source, slice>> \in DOMAIN units
        /\ units[<<source, slice>>] = SliceUnit(collect_classes(profile), c)
    BY <2>5, <2>6, <2>7, SettledClass
  <2>9. systemctl_show_props(source, slice) =
          [memory_high |-> spec.memory_high, memory_max |-> spec.memory_max, cpu_weight |-> spec.cpu_weight]
    BY <2>5, <2>8 DEF systemctl_show_props, SliceUnit
  <2>10. /\ row.class = c /\ row.slice = slice /\ row.live = systemctl_show_props(source, slice)
         /\ row.configured = [memory_high |-> spec.memory_high, memory_max |-> spec.memory_max,
                              cpu_weight |-> spec.cpu_weight]
    BY <2>4, <2>7 DEF top_row
  <2> QED BY <2>6, <2>9, <2>10
<1> QED BY <1>1, PlaceInvHolds, PTL

-----------------------------------------------------------------------------
(* Automatic profiles.                                                     *)

\* A size up to that of the largest machine can be printed and read again.
LEMMA PrintedIsReadable ==
  ASSUME NEW m \in Nat, m <= MaxSize
  PROVE  Readable(format_bytes_binary(m)) /\ SizeOk(format_bytes_binary(m))
<1>1. CASE m >= 1024
  <2>1. m \div 1024 <= MaxSize \div 1024
    BY DEF MaxSize, Gb
  <2>2. format_bytes_binary(m) = <<m \div 1024, "G">>
    BY <1>1 DEF format_bytes_binary, Gb
  <2>3. "G" \in DOMAIN Units /\ Units["G"] = 1024
    BY DEF Units, Gb
  <2> QED BY <2>1, <2>2, <2>3 DEF Readable, SizeOk
<1>2. CASE m < 1024
  <2>1. m <= MaxSize \div 1
    BY <1>2 DEF MaxSize, Gb
  <2>2. format_bytes_binary(m) = <<m, "M">>
    BY <1>2 DEF format_bytes_binary, Gb
  <2>3. "M" \in DOMAIN Units /\ Units["M"] = 1
    BY DEF Units, Gb
  <2> QED BY <2>1, <2>2, <2>3 DEF Readable, SizeOk
<1> QED BY <1>1, <1>2

NoText == ""
\* The words that no slice name may contain.
OddWords == {"/", ".."}

LEMMA DefaultSliceIsName ==
  ASSUME NEW c \in AutoClasses
  PROVE  IsSliceName(default_slice(c)) /\ c # NoText
<1> DEFINE slice == default_slice(c)
<1>1. /\ Len(slice) = 5 /\ slice[1] = "resguard" /\ slice[2] = "-" /\ slice[3] = c /\ slice[4] = "."
      /\ slice[5] = "slice"
  BY DEF default_slice
<1>2. c = "browsers" \/ c = "ide" \/ c = "heavy" \/ c = "rescue"
  BY DEF AutoClasses
<1>3. /\ c # NoText /\ c \notin OddWords /\ "resguard" \notin OddWords /\ "-" \notin OddWords
      /\ "." \notin OddWords /\ "slice" \notin OddWords
  BY <1>2, Zenon DEF OddWords, NoText
<1>4. IsSuffix(<<".", "slice">>, slice)
  BY DefaultSliceEnds
<1> HIDE DEF slice
<1>5. ASSUME NEW word \in OddWords PROVE ~Contains(slice, word)
  <2>1. c \notin OddWords /\ \A w \in {"resguard", "-", ".", "slice"} : w \notin OddWords
    BY <1>3, Zenon
  <2>2. \A i \in 1..5 : slice[i] \notin OddWords
    BY <1>1, <2>1
  <2> QED BY <1>1, <2>2 DEF Contains
<1>6. "/" \in OddWords /\ ".." \in OddWords
  BY Zenon DEF OddWords
<1>7. ~Contains(slice, "/") /\ ~Contains(slice, "..")
  BY <1>5, <1>6, Zenon
<1>8. IsSliceName(slice)
  BY <1>4, <1>7, Zenon DEF IsSliceName
<1> QED BY <1>3, <1>8, Zenon DEF slice

LEMMA NoClassErrors ==
  ASSUME NEW class, NEW root, NEW c, c # NoText,
         class.slice_name = NoName \/ IsSliceName(class.slice_name),
         SizeOk(class.memory_high), SizeOk(class.memory_max),
         validate_memory(class.memory_high, class.memory_max), WeightOk(class.cpu_weight)
  PROVE  ClassErrors(class, root, c) = {}
<1> DEFINE a1 == Wrong(c # "", <<root>>)
           a2 == Wrong(class.slice_name = NoName \/ IsSliceName(class.slice_name), <<root, c, "sliceName">>)
           a3 == Wrong(SizeOk(class.memory_high), <<root, c, "memoryHigh">>)
           a4 == Wrong(SizeOk(class.memory_max), <<root, c, "memoryMax">>)
           a5 == Wrong(validate_memory(class.memory_high, class.memory_max), <<root, c>>)
           a6 == Wrong(WeightOk(class.cpu_weight), <<root, c, "cpuWeight">>)
<1>1. a1 = {} /\ a2 = {} /\ a3 = {} /\ a4 = {} /\ a5 = {} /\ a6 = {}
  BY Zenon DEF Wrong, NoText
<1>2. ClassErrors(class, root, c) = a1 \cup a2 \cup a3 \cup a4 \cup a5 \cup a6
  BY Zenon DEF ClassErrors
<1> HIDE DEF a1, a2, a3, a4, a5, a6
<1> QED BY <1>1, <1>2

\* The caps of the classes are sizes of at most the users' memory.
LEMMA ClassCaps ==
  ASSUME NEW u \in Nat, u % 256 = 0, u % 1024 = 0 \/ u < 2048, u <= MaxSize, NEW c \in AutoClasses
  PROVE  LET class == AutoClass(c, u) IN
         /\ SizeOk(class.memory_max) /\ class.memory_high = NoSize /\ class.slice_name = default_slice(c)
         /\ WeightOk(class.cpu_weight)
<1>1. \A cap \in Nat : cap <= u => SizeOk(format_bytes_binary(cap))
  BY PrintedIsReadable DEF MaxSize, Gb
<1>2. /\ BrowsersMax(u) \in Nat /\ BrowsersMax(u) <= u /\ IdeMax(u) \in Nat /\ IdeMax(u) <= u
      /\ HeavyMax(u) \in Nat /\ HeavyMax(u) <= u
  <2>1. /\ BrowsersMax(u) \in Nat /\ BrowsersMax(u) <= HighFor(u)
        /\ IdeMax(u) \in Nat /\ IdeMax(u) <= HighFor(u)
        /\ HeavyMax(u) \in Nat /\ HeavyMax(u) <= HighFor(u)
    BY BrowsersBelowHigh, IdeBelowHigh, HeavyBelowHigh
  <2>2. HighFor(u) \in Nat /\ HighFor(u) <= u
    BY UserHighBounds
  <2> QED BY <2>1, <2>2
<1>3. SizeOk(<<1, "G">>)
  <2>1. format_bytes_binary(1024) = <<1, "G">>
    BY DEF format_bytes_binary, Gb
  <2> QED BY <2>1, PrintedIsReadable DEF MaxSize, Gb
<1>4. WeightOk(80) /\ WeightOk(70) /\ WeightOk(90) /\ WeightOk(100)
  BY DEF WeightOk
<1>5. CASE c = "browsers"
  BY <1>1, <1>2, <1>4, <1>5 DEF AutoClass, ClassSpec
<1>6. CASE c = "ide"
  BY <1>1, <1>2, <1>4, <1>6 DEF AutoClass, ClassSpec
<1>7. CASE c = "heavy"
  BY <1>1, <1>2, <1>4, <1>7 DEF AutoClass, ClassSpec
<1>8. CASE c = "rescue"
  BY <1>3, <1>4, <1>8 DEF AutoClass, ClassSpec
<1> QED BY <1>5, <1>6, <1>7, <1>8 DEF AutoClasses

LEMMA AutoIsValid ==
  ASSUME NEW total \in Nat, total <= MaxSize, NEW cores \in Nat
  PROVE  validate_profile(build_auto_profile([total_mem |-> total, cpu_cores |-> cores])) = {}
<1> DEFINE u == UserMax(total)
           profile == build_auto_profile([total_mem |-> total, cpu_cores |-> cores])
<1>1. u \in Nat /\ u <= total /\ u % 256 = 0 /\ (u % 1024 = 0 \/ u < 2048)
  BY UserMaxBounds
<1>2. HighFor(u) \in Nat /\ HighFor(u) <= u /\ UserHigh(total) = HighFor(u)
  BY <1>1, UserHighBounds DEF UserHigh, HighFor
<1>3. Reserve(total) \in Nat /\ Reserve(total) <= total
  BY ReserveBounds
<1>4. /\ profile.header_ok = TRUE /\ profile.rules_ok = TRUE /\ profile.slices = <<>>
      /\ profile.memory_low = format_bytes_binary(Reserve(total))
      /\ profile.memory_high = format_bytes_binary(HighFor(u))
      /\ profile.memory_max = format_bytes_binary(u)
      /\ profile.classes = [class \in AutoClasses |-> AutoClass(class, u)]
  BY <1>2 DEF build_auto_profile
<1>5. parse_cpuset(profile.system_cpus) /\ parse_cpuset(profile.user_cpus)
  <2>1. /\ profile.system_cpus = IF cores >= 4 THEN {<<0, 0>>} ELSE NoCpus
        /\ profile.user_cpus = IF cores >= 4 THEN {<<1, cores - 1>>} ELSE NoCpus
    BY DEF build_auto_profile
  <2> HIDE DEF profile
  <2>2. parse_cpuset({<<0, 0>>}) /\ parse_cpuset(NoCpus)
    BY DEF parse_cpuset, NoCpus
  <2>3. cores >= 4 => parse_cpuset({<<1, cores - 1>>})
    BY DEF parse_cpuset
  <2> QED BY <2>1, <2>2, <2>3
<1>6. u <= MaxSize /\ HighFor(u) <= MaxSize /\ Reserve(total) <= MaxSize
  <2>1. MaxSize \in Nat
    BY DEF MaxSize, Gb
  <2> HIDE DEF u
  <2> QED BY <1>1, <1>2, <1>3, <2>1
<1> HIDE DEF profile, u
<1>7. /\ SizeOk(profile.memory_low) /\ SizeOk(profile.memory_high) /\ SizeOk(profile.memory_max)
      /\ Readable(profile.memory_high) /\ Readable(profile.memory_max)
  BY <1>1, <1>2, <1>3, <1>4, <1>6, PrintedIsReadable
<1>8. validate_memory(profile.memory_high, profile.memory_max)
  <2>1. /\ InMiB(format_bytes_binary(HighFor(u))) <= InMiB(format_bytes_binary(u))
        /\ InMiB(format_bytes_binary(HighFor(u))) \in Nat /\ InMiB(format_bytes_binary(u)) \in Nat
    BY <1>1, <1>2, PrintingIsMonotone, PrintingRoundsDown
  <2> QED BY <1>4, <1>7, <2>1 DEF validate_memory, InMiB
<1>9. validate_classes(profile.classes, "classes") = {}
  <2>1. ASSUME NEW c \in AutoClasses PROVE ClassErrors(profile.classes[c], "classes", c) = {}
    <3> DEFINE class == profile.classes[c]
    <3>1. class = AutoClass(c, u)
      BY <1>4
    <3>2. /\ SizeOk(class.memory_max) /\ class.memory_high = NoSize /\ class.slice_name = default_slice(c)
          /\ WeightOk(class.cpu_weight)
      BY <1>1, <1>6, <3>1, ClassCaps
    <3>3. (class.slice_name = NoName \/ IsSliceName(class.slice_name)) /\ c # NoText
      BY <3>2, DefaultSliceIsName, Zenon
    <3>4. SizeOk(class.memory_high) /\ validate_memory(class.memory_high, class.memory_max)
      BY <3>2 DEF SizeOk, validate_memory
    <3> HIDE DEF class
    <3>5. ClassErrors(class, "classes", c) = {}
      BY <3>2, <3>3, <3>4, NoClassErrors, Zenon
    <3> QED BY <3>5 DEF class
  <2>2. DOMAIN profile.classes = AutoClasses
    BY <1>4
  <2> QED BY <2>1, <2>2 DEF validate_classes
<1>10. validate_classes(profile.slices, "slices") = {}
  BY <1>4, EmptyIsSeq DEF validate_classes
<1>11. validate_profile(profile) = {}
  BY <1>4, <1>5, <1>7, <1>8, <1>9, <1>10 DEF validate_profile, Wrong
<1> QED BY <1>11 DEF profile

\* On every machine the profile that init and setup write is valid and fits,
\* and the store never holds another profile that nobody wrote by hand.
THEOREM AutoProfilesFitHolds == Spec => []AutoProfilesFit
<1>1. TypeInv => AutoProfilesFit
  <2> SUFFICES ASSUME TypeInv, NEW n \in Names, Whole(profiles[n]), profiles[n] \notin HandWritten
               PROVE  profile_validate(n).code = 0 /\ LimitsFit(profiles[n], machine.total_mem)
    BY DEF AutoProfilesFit
  <2>1. profiles[n] = build_auto_profile(machine) /\ machine \in Machines
    BY DEF TypeInv, Functions, Whole
  <2>2. PICK total, cores : /\ total = machine.total_mem /\ cores = machine.cpu_cores
                            /\ total \in Nat /\ cores \in Nat /\ total <= MaxSize
                            /\ machine = [total_mem |-> total, cpu_cores |-> cores]
    BY <2>1, LaunchAssumption
  <2>3. validate_profile(profiles[n]) = {} /\ LimitsFit(profiles[n], total)
    BY <2>1, <2>2, AutoIsValid, AutoLimitsFit
  <2>4. profile_validate(n) = [code |-> 0, errors |-> {}]
    BY <2>3 DEF profile_validate
  <2> QED BY <2>2, <2>3, <2>4
<1> QED BY <1>1, TypeInvHolds, PTL


-----------------------------------------------------------------------------
(* rescue, alone and with no failing call.                                 *)

\* Nothing else is at work beside a command that is alone.
AloneInv ==
  \A p, q \in Processes : alone[p] /\ pc[p] # "idle" /\ pc[q] # "idle" => p = q

LEMMA IdleBegins ==
  ASSUME NEW q \in Processes, pc[q] = "idle", Run(q) \/ CallFails(q) \/ Kill(q)
  PROVE  Begin(q)
BY DEF Run, CutProfile, FillProfile, LoadForApply, WriteUnit, Record, ReadBackup, Undo, Reset,
     Resolve, ReadState, LoadForRun, Check, Launch, CallFails, Kill

LEMMA WhoIsAlone ==
  ASSUME [Next]_vars
  PROVE  alone' = alone \/ Edit \/ \E p \in Processes : Begin(p)
<1>1. ASSUME NEW p \in Processes, Run(p), ~Begin(p)
      PROVE  alone' = alone
  BY <1>1 DEF Run, CutProfile, FillProfile, LoadForApply, WriteUnit, Record, ReadBackup, Undo, Reset, Resolve,
     ReadState, LoadForRun, Check, Launch, Keeps, ghosts
<1>2. ASSUME NEW p \in Processes, CallFails(p) \/ Kill(p)
      PROVE  alone' = alone
  BY <1>2 DEF CallFails, Kill, Fault
<1>3. CASE UNCHANGED vars
  BY <1>3 DEF vars, ghosts
<1> QED BY <1>1, <1>2, <1>3 DEF Next

\* While a command is alone every step is its own.
LEMMA OwnSteps ==
  ASSUME TypeInv, AloneInv, [Next]_vars, NEW q \in Processes, pc[q] # "idle", alone'[q]
  PROVE  /\ alone[q]
         /\ UNCHANGED vars \/ (Run(q) /\ ~Begin(q)) \/ CallFails(q) \/ Kill(q)
<1>1. ~Edit
  <2>1. q \in Working
    BY DEF Working
  <2> QED BY <2>1, Zenon DEF Edit
<1>2. ASSUME NEW p \in Processes, Begin(p)
      PROVE  FALSE
  <2>1. p # q
    BY <1>2 DEF Begin
  <2>2. q \in Working
    BY DEF Working
  <2>3. alone' = [r \in Processes |-> IF r = p THEN Working = {} ELSE alone[r] /\ r \notin Working]
    BY <1>2 DEF Begin
  <2> QED BY <2>1, <2>2, <2>3, Zenon
<1>3. alone' = alone
  BY <1>1, <1>2, WhoIsAlone
<1>4. ASSUME NEW p \in Processes, p # q
      PROVE  ~Run(p) /\ ~CallFails(p) /\ ~Kill(p)
  <2>1. pc[p] = "idle"
    BY <1>3, <1>4 DEF AloneInv
  <2> QED BY <1>2, <2>1, IdleBegins
<1>5. UNCHANGED vars \/ Run(q) \/ CallFails(q) \/ Kill(q)
  BY <1>1, <1>4 DEF Next
<1> QED BY <1>2, <1>3, <1>5

LEMMA AloneStep ==
  ASSUME TypeInv, AloneInv, [Next]_vars
  PROVE  AloneInv'
<1> SUFFICES ASSUME NEW p \in Processes, NEW q \in Processes \ {p}, alone'[p], pc'[p] # "idle"
             PROVE  pc'[q] = "idle"
  BY DEF AloneInv
<1>1. CASE Begin(p)
  <2>1. alone' = [r \in Processes |-> IF r = p THEN Working = {} ELSE alone[r] /\ r \notin Working]
    BY <1>1 DEF Begin
  <2>2. Working = {}
    BY <2>1, Zenon
  <2>3. pc[q] = "idle"
    BY <2>2 DEF Working
  <2> QED BY <1>1, <2>3, BeginLocal DEF Elsewhere
<1>2. CASE ~Begin(p)
  <2>1. pc[p] # "idle"
    <3>1. CASE UNCHANGED <<pc, job>>
      BY <3>1
    <3>2. ASSUME NEW r \in Processes, r # p, Elsewhere(r)
          PROVE  pc[p] # "idle"
      BY <3>2 DEF Elsewhere
    <3> QED BY <1>2, <3>1, <3>2, OneMoves, IdleBegins
  <2>2. /\ alone[p]
        /\ UNCHANGED vars \/ Run(p) \/ CallFails(p) \/ Kill(p)
    BY <2>1, OwnSteps
  <2>3. pc[q] = "idle"
    BY <2>1, <2>2 DEF AloneInv
  <2>4. CASE UNCHANGED vars
    BY <2>3, <2>4 DEF vars
  <2>5. CASE Run(p) \/ CallFails(p) \/ Kill(p)
    <3>1. Elsewhere(p)
      BY <2>5, OthersWait
    <3> QED BY <2>3, <3>1 DEF Elsewhere
  <2> QED BY <2>2, <2>4, <2>5
<1> QED BY <1>1, <1>2


\* What rescue asks run for: first its class, then the fallback.
FirstTry(p) ==
  /\ job[p].run.class = job[p].class /\ job[p].run.slice = NoName
  /\ job[p].run.profile = Nobody /\ job[p].run.no_check = FALSE
FallenBack(p) ==
  /\ job[p].fallback /\ job[p].run.class = "rescue" /\ job[p].run.slice = SystemSlice
  /\ job[p].run.no_check = TRUE /\ pc[p] \in {"resolve", "launch"}
RescueShape(p) ==
  job[p].op = "rescue" =>
    /\ job[p].class # NoClass /\ job[p].run.wait = FALSE
    /\ IF job[p].fell THEN FallenBack(p) ELSE FirstTry(p)

\* With nothing beside it what rescue has read is how things stand.
RescueSound(p) ==
  job[p].op = "rescue" /\ alone[p] /\ faults = 0 =>
    /\ job[p].fell => ~RunsNow(job[p].run.mode, job[p].class)
    /\ ~job[p].fell /\ pc[p] = "load_for_run" =>
         Whole(state) /\ state.active # Nobody /\ job[p].name = state.active
    /\ ~job[p].fell /\ pc[p] \in {"check", "launch"} => job[p].slice = SliceNow(job[p].class)
RescueInv == AloneInv /\ \A p \in Processes : RescueShape(p) /\ RescueSound(p)

LEMMA RescueSteps ==
  ASSUME TypeInv, [Next]_vars, NEW q \in Processes, job'[q].op = "rescue"
  PROVE  \/ Begin(q)
         \/ /\ job[q].op = "rescue" /\ pc[q] \in RunCalls
            /\ \/ pc'[q] = pc[q] /\ job'[q] = job[q]
               \/ Resolve(q) \/ ReadState(q) \/ LoadForRun(q) \/ Check(q)
               \/ pc[q] = "check" /\ CallFails(q) /\ Refused(q)
<1> SUFFICES ASSUME ~Begin(q)
             PROVE  /\ job[q].op = "rescue" /\ pc[q] \in RunCalls
                    /\ \/ pc'[q] = pc[q] /\ job'[q] = job[q]
                       \/ Resolve(q) \/ ReadState(q) \/ LoadForRun(q) \/ Check(q)
                       \/ pc[q] = "check" /\ CallFails(q) /\ Refused(q)
  OBVIOUS
<1>1. job[q].op = "rescue"
  BY OpStays
<1>2. pc[q] \in RunCalls
  <2>1. Placed(q)
    BY DEF TypeInv
  <2>2. pc[q] # "idle"
    <3>1. ASSUME pc[q] = "idle" PROVE job[q].op = "none"
      BY <2>1, <3>1, CodedJob DEF Placed
    <3> QED BY <1>1, <3>1
  <2> QED BY <1>1, <2>1, <2>2 DEF Placed, Calls, Applying, RunCalls, IsWriter
<1>3. CASE UNCHANGED <<pc, job>>
  BY <1>1, <1>2, <1>3
<1>4. ASSUME NEW p \in Processes \ {q}, Elsewhere(p)
      PROVE  pc'[q] = pc[q] /\ job'[q] = job[q]
  BY <1>4 DEF Elsewhere
<1>5. CASE Run(q)
  <2>1. ~Launch(q)
    BY <1>1, LaunchLocal
  <2>2. ~CutProfile(q) /\ ~FillProfile(q) /\ ~LoadForApply(q) /\ ~WriteUnit(q) /\ ~Record(q) /\ ~ReadBackup(q)
        /\ ~Undo(q) /\ ~Reset(q)
    BY <1>2 DEF RunCalls, CutProfile, FillProfile, LoadForApply, WriteUnit, Record, ReadBackup, Undo, Reset
  <2> QED BY <1>1, <1>2, <1>5, <2>1, <2>2 DEF Run
<1>6. CASE CallFails(q)
  BY <1>1, <1>2, <1>6, CallFailsLocal DEF RunCalls
<1>7. ~Kill(q)
  BY KillLocal
<1> QED BY <1>1, <1>2, <1>3, <1>4, <1>5, <1>6, <1>7, OneMoves

LEMMA BeginsRescue ==
  ASSUME TypeInv, NEW q \in Processes, Begin(q), job'[q].op = "rescue"
  PROVE  RescueShape(q)' /\ pc'[q] = "resolve" /\ ~job'[q].fell
<1>1. IsRequest(job'[q]) /\ pc'[q] = "resolve"
  BY BeginLocal
<1>2. /\ job'[q].class # NoClass /\ ~job'[q].fell
      /\ job'[q].run = [NoRun EXCEPT !.mode = job'[q].run.mode, !.class = job'[q].class, !.exec = job'[q].run.exec]
  BY <1>1, Zenon DEF IsRequest
<1>3. PICK mode, class, exec : job'[q].run = [NoRun EXCEPT !.mode = mode, !.class = class, !.exec = exec]
                               /\ class = job'[q].class
  BY <1>2, Zenon
<1>4. /\ job'[q].run.class = class /\ job'[q].run.slice = NoName /\ job'[q].run.profile = Nobody
      /\ job'[q].run.no_check = FALSE /\ job'[q].run.wait = FALSE
  BY <1>3 DEF NoRun
<1> QED BY <1>1, <1>2, <1>3, <1>4 DEF RescueShape, FirstTry

LEMMA RescueShapeStep ==
  ASSUME TypeInv, [Next]_vars, NEW q \in Processes, RescueShape(q)
  PROVE  RescueShape(q)'
<1> SUFFICES ASSUME job'[q].op = "rescue"
             PROVE  RescueShape(q)'
  BY DEF RescueShape
<1> SUFFICES ASSUME ~Begin(q), job[q].op = "rescue", pc[q] \in RunCalls
             PROVE  RescueShape(q)'
  BY RescueSteps, BeginsRescue
<1>1. /\ job[q].class # NoClass /\ job[q].run.wait = FALSE
      /\ IF job[q].fell THEN FallenBack(q) ELSE FirstTry(q)
  BY DEF RescueShape
<1>2. Placed(q)
  BY DEF TypeInv
<1>3. SystemSlice # NoName
  <2>1. Len(SystemSlice) = 3 /\ Len(NoName) = 0
    BY DEF SystemSlice, NoName
  <2> QED BY <2>1
<1>4. Nobody \notin Names
  BY LaunchAssumption
<1>5. ASSUME /\ job'[q].class = job[q].class /\ job'[q].run = job[q].run
             /\ job'[q].fell = job[q].fell /\ job'[q].fallback = job[q].fallback,
             job[q].fell => pc'[q] \in {"resolve", "launch"}
      PROVE  RescueShape(q)'
  BY <1>1, <1>5 DEF RescueShape, FallenBack, FirstTry
<1>6. ASSUME NEW slice, GoesOn(q, slice)
      PROVE  RescueShape(q)'
  <2>1. /\ job'[q].class = job[q].class /\ job'[q].run = job[q].run
        /\ job'[q].fell = job[q].fell /\ job'[q].fallback = job[q].fallback
    BY <1>6, ChangesSays DEF GoesOn
  <2>2. job[q].fell => pc'[q] \in {"resolve", "launch"}
    BY <1>1, <1>6 DEF GoesOn, FallenBack
  <2> QED BY <1>5, <2>1, <2>2
<1>7. ASSUME NEW name, Named(q, name), ~job[q].fell
      PROVE  RescueShape(q)'
  <2>1. /\ job'[q].class = job[q].class /\ job'[q].run = job[q].run
        /\ job'[q].fell = job[q].fell /\ job'[q].fallback = job[q].fallback
    BY <1>7, ChangesSays DEF Named
  <2> QED BY <1>5, <1>7, <2>1
<1>8. ASSUME Refused(q)
      PROVE  RescueShape(q)'
  <2>1. /\ job[q].fallback /\ pc'[q] = "resolve" /\ Changes(job[q], job'[q], {"run", "fell"})
        /\ job'[q].run = FallbackRun(job[q].run) /\ job'[q].fell = TRUE
    BY <1>8, Zenon DEF Refused
  <2>2. job'[q].class = job[q].class /\ job'[q].fallback = job[q].fallback
    <3>1. Changes(job[q], job'[q], {"run", "fell"})
      BY <2>1
    <3> QED BY <3>1, ChangesSays
  <2>3. DOMAIN job[q].run = DOMAIN NoRun
    BY <1>2 DEF Placed
  <2>4. /\ job'[q].run.class = "rescue" /\ job'[q].run.slice = SystemSlice
        /\ job'[q].run.no_check = TRUE /\ job'[q].run.wait = job[q].run.wait
    BY <2>1, <2>3, FallbackRunIs
  <2> QED BY <1>1, <2>1, <2>2, <2>4 DEF RescueShape, FallenBack
<1>9. CASE pc'[q] = pc[q] /\ job'[q] = job[q]
  BY <1>1, <1>5, <1>9 DEF FallenBack
<1>10. CASE Resolve(q)
  <2>1. ASSUME job[q].run.slice = NoName
        PROVE  ~job[q].fell /\ job[q].run.profile = Nobody
    BY <1>1, <1>3, <2>1 DEF FallenBack, FirstTry
  <2> QED BY <1>4, <1>5, <1>6, <1>10, <2>1, ResolveLocal
<1>11. ASSUME pc[q] \in {"read_state", "load_for_run", "check"}
       PROVE  ~job[q].fell
  BY <1>1, <1>11 DEF FallenBack
<1>12. CASE ReadState(q)
  BY <1>6, <1>7, <1>11, <1>12, ReadStateLocal DEF ReadState
<1>13. CASE LoadForRun(q)
  BY <1>6, <1>13, LoadForRunLocal
<1>14. CASE Check(q)
  BY <1>5, <1>8, <1>11, <1>14, CheckLocal DEF Check
<1> QED BY <1>8, <1>9, <1>10, <1>12, <1>13, <1>14, RescueSteps


LEMMA ResolvedNow ==
  ASSUME NEW class, Active, Whole(profiles[state.active])
  PROVE  SliceNow(class) = resolve_class_slice(profiles[state.active], class)
  BY DEF SliceNow, Active, resolve_class_slice, collect_classes, Over, SliceOf

LEMMA RunsOnlyRead ==
  ASSUME NEW q \in Processes, pc[q] \in RunCalls, Run(q), ~Begin(q)
  PROVE  UNCHANGED shared /\ faults' = faults
BY DEF RunCalls, Run, CutProfile, FillProfile, LoadForApply, WriteUnit, Record, ReadBackup, Undo, Reset,
     Resolve, ReadState, LoadForRun, Check, Launch, Keeps, counts

\* Both requests name a class.
LEMMA ResolveGoesOn ==
  ASSUME TypeInv, NEW q \in Processes, job[q].op = "rescue", RescueShape(q), Resolve(q)
  PROVE  pc'[q] # "idle"
<1>1. /\ job[q].class # NoClass
      /\ IF job[q].fell THEN FallenBack(q) ELSE FirstTry(q)
  BY DEF RescueShape
<1>2. job[q].run.class # NoClass
  BY <1>1 DEF FirstTry, FallenBack, NoClass
<1>3. class_of(job[q].run) # NoClass
  BY <1>2 DEF class_of
<1>4. Resolved(q, job[q].run.slice) \/ Goto(q, "load_for_run") \/ Goto(q, "read_state")
  BY <1>3 DEF Resolve
<1> QED BY <1>4, Moves DEF Resolved, TypeInv, Functions

\* What RescueSound says of a rescue that is alone.
Sound(p) ==
  /\ job[p].fell => ~RunsNow(job[p].run.mode, job[p].class)
  /\ ~job[p].fell /\ pc[p] = "load_for_run" =>
       Whole(state) /\ state.active # Nobody /\ job[p].name = state.active
  /\ ~job[p].fell /\ pc[p] \in {"check", "launch"} => job[p].slice = SliceNow(job[p].class)

LEMMA RescueSoundStep ==
  ASSUME TypeInv, RescueInv, [Next]_vars, NEW q \in Processes
  PROVE  RescueSound(q)'
<1> SUFFICES ASSUME job'[q].op = "rescue", alone'[q], faults' = 0
             PROVE  Sound(q)'
  BY Zenon DEF RescueSound, Sound
<1>1. CASE Begin(q)
  BY <1>1, BeginsRescue DEF Sound
<1> SUFFICES ASSUME ~Begin(q), job[q].op = "rescue", pc[q] \in RunCalls
             PROVE  Sound(q)'
  BY <1>1, RescueSteps
<1>2. /\ alone[q]
      /\ UNCHANGED vars \/ (Run(q) /\ ~Begin(q)) \/ CallFails(q) \/ Kill(q)
  BY OwnSteps DEF RescueInv, RunCalls
<1>3. ~CallFails(q) /\ ~Kill(q)
  <2>1. faults \in Nat
    BY DEF TypeInv, Counters
  <2>2. faults' # faults + 1
    BY <2>1
  <2> QED BY <2>2 DEF CallFails, Kill, Fault
<1>4. UNCHANGED shared /\ faults = 0
  BY <1>2, <1>3, RunsOnlyRead DEF vars, counts
<1>5. machine' = machine /\ profiles' = profiles /\ units' = units /\ state' = state
  BY <1>4 DEF shared
<1>6. /\ \A c : SliceNow(c)' = SliceNow(c)
      /\ \A m, c : RunsNow(m, c)' <=> RunsNow(m, c)
  BY <1>5 DEF SliceNow, RunsNow, Loadable
<1>7. /\ job[q].class # NoClass
      /\ IF job[q].fell THEN FallenBack(q) ELSE FirstTry(q)
  BY DEF RescueInv, RescueShape
<1>8. Sound(q)
  BY <1>2, <1>4, Zenon DEF RescueInv, RescueSound, Sound
<1>9. ~job[q].fell => class_of(job[q].run) = job[q].class
  BY <1>7 DEF FirstTry, class_of
<1>10. ASSUME job'[q] = job[q], pc'[q] = pc[q] \/ (pc[q] = "check" /\ pc'[q] = "launch") \/ pc'[q] = "read_state"
       PROVE  Sound(q)'
  BY <1>5, <1>6, <1>8, <1>10, Zenon DEF Sound, Whole
<1>11. ASSUME NEW slice, GoesOn(q, slice), ~job[q].fell => slice = SliceNow(job[q].class)
       PROVE  Sound(q)'
  <2>1. /\ job'[q].class = job[q].class /\ job'[q].run = job[q].run /\ job'[q].fell = job[q].fell
        /\ job'[q].slice = slice
    BY <1>11, ChangesSays DEF GoesOn
  <2>2. pc'[q] \in {"check", "launch"}
    BY <1>11 DEF GoesOn
  <2>3. job[q].fell => ~RunsNow(job[q].run.mode, job[q].class)
    BY <1>8 DEF Sound
  <2>4. job'[q].fell => (~RunsNow(job[q].run.mode, job[q].class))'
    BY <1>6, <2>1, <2>3, Zenon
  <2>5. ~job'[q].fell => (job[q].slice = SliceNow(job[q].class))'
    BY <1>6, <1>11, <2>1, Zenon
  <2> QED BY <2>2, <2>4, <2>5 DEF Sound
<1>12. ASSUME ~job[q].fell, Active, Named(q, state.active)
       PROVE  Sound(q)'
  <2>1. job'[q].fell = job[q].fell /\ job'[q].name = state.active /\ pc'[q] = "load_for_run"
    BY <1>12, ChangesSays DEF Named
  <2>2. Whole(state)' /\ state'.active # Nobody /\ job'[q].name = state'.active
    BY <1>5, <1>12, <2>1 DEF Active, Whole
  <2> QED BY <1>12, <2>1, <2>2 DEF Sound
<1>13. CASE pc'[q] = pc[q] /\ job'[q] = job[q]
  BY <1>10, <1>13
<1>14. CASE Resolve(q)
  <2>1. SystemSlice # NoName /\ Nobody \notin Names
    <3>1. Len(SystemSlice) = 3 /\ Len(NoName) = 0
      BY DEF SystemSlice, NoName
    <3> QED BY <3>1, LaunchAssumption
  <2>2. job[q].run.slice # NoName => job[q].fell
    BY <1>7 DEF FirstTry
  <2>3. job[q].run.slice = NoName => job[q].run.profile = Nobody
    BY <1>7, <2>1 DEF FirstTry, FallenBack
  <2>4. pc'[q] # "idle"
    BY <1>14, ResolveGoesOn DEF RescueInv
  <2> QED BY <1>10, <1>11, <1>14, <2>1, <2>2, <2>3, <2>4, ResolveLocal
<1>15. ASSUME pc[q] \in {"read_state", "load_for_run", "check"}
       PROVE  ~job[q].fell
  BY <1>7, <1>15 DEF FallenBack
<1>16. ASSUME pc'[q] = "idle" PROVE FALSE
  <2>1. Placed(q)'
    BY TypeInvStep DEF TypeInv
  <2>2. job'[q].op = "none"
    BY <1>16, <2>1, CodedJob DEF Placed
  <2> QED BY <2>2
<1>17. CASE ReadState(q)
  <2>1. ~job[q].fell
    BY <1>15, <1>17 DEF ReadState
  <2>2. Nobody \notin Names
    BY LaunchAssumption
  <2>3. Whole(state) /\ state.active = Nobody => SliceNow(job[q].class) = default_slice(job[q].class)
    BY DEF SliceNow
  <2> QED BY <1>9, <1>11, <1>12, <1>16, <1>17, <2>1, <2>2, <2>3, ReadStateLocal DEF Active
<1>18. CASE LoadForRun(q)
  <2>1. ~job[q].fell /\ Active /\ job[q].name = state.active
    BY <1>8, <1>15, <1>18 DEF LoadForRun, Sound, Active
  <2> QED BY <1>9, <1>11, <1>16, <1>18, <2>1, ResolvedNow, LoadForRunLocal
<1>19. CASE Check(q)
  <2>1. ~job[q].fell /\ pc[q] = "check"
    BY <1>15, <1>19 DEF Check
  <2>2. job[q].slice = SliceNow(job[q].class)
    BY <1>8, <2>1 DEF Sound
  <2>3. ASSUME Refused(q), ~Loadable(job[q].run.mode, job[q].slice)
        PROVE  Sound(q)'
    <3>1. Changes(job[q], job'[q], {"run", "fell"}) /\ job'[q].run = FallbackRun(job[q].run)
      BY <1>16, <2>3, Zenon DEF Refused
    <3>2. job'[q].fell /\ pc'[q] = "resolve"
      BY <1>16, <2>3, Zenon DEF Refused
    <3>3. job'[q].class = job[q].class
      BY <3>1, ChangesSays
    <3>4. DOMAIN job[q].run = DOMAIN NoRun
      BY DEF TypeInv, Placed
    <3>5. job'[q].run.mode = job[q].run.mode
      BY <3>1, <3>4, FallbackRunIs
    <3>6. ~RunsNow(job[q].run.mode, job[q].class)
      BY <2>2, <2>3 DEF RunsNow
    <3>7. (~RunsNow(job[q].run.mode, job[q].class))'
      BY <1>6, <3>3, <3>5, <3>6, Zenon
    <3> QED BY <3>2, <3>7 DEF Sound
  <2> QED BY <1>10, <1>19, <2>1, <2>3, CheckLocal
<1> QED BY <1>3, <1>13, <1>14, <1>17, <1>18, <1>19, RescueSteps

\* What a rescue that nobody disturbs has read is how things stand.
THEOREM RescueInvHolds == Spec => [](TypeInv /\ RescueInv)
<1>1. Init => RescueInv
  <2> SUFFICES ASSUME Init PROVE RescueInv
    OBVIOUS
  <2>1. \A p \in Processes : pc[p] = "idle" /\ job[p].op = "none"
    BY DEF Init, NoJob
  <2> QED BY <2>1 DEF RescueInv, AloneInv, RescueShape, RescueSound
<1>2. TypeInv /\ RescueInv /\ [Next]_vars => RescueInv'
  BY AloneStep, RescueShapeStep, RescueSoundStep DEF RescueInv
<1> QED BY <1>1, <1>2, TypeInvHolds, PTL DEF Spec

\* rescue starts its shell in system.slice only if that is the slice of its
\* class, or if it was asked to and the slice of its class is not there: what it
\* read call by call is how things stand, for any history of the store.
THEOREM FallbackOnlyWhenMissingHolds == Spec => []FallbackOnlyWhenMissing
<1>1. RescueInv => FallbackOnlyWhenMissing
  BY DEF RescueInv, RescueShape, FallenBack, RescueSound, FallbackOnlyWhenMissing
<1> QED BY <1>1, RescueInvHolds, PTL

\* How a rescue that is alone ends with an error.
LEMMA RescueEnds ==
  ASSUME TypeInv, RescueInv, [Next]_vars, NEW q \in Processes, FailedRescue(q)
  PROVE  SliceNow(job[q].class) = NoName
<1>1. /\ job[q].op = "rescue" /\ job[q].fallback /\ alone[q] /\ faults' = 0
      /\ pc'[q] = "idle" /\ job'[q].code = 1
  BY DEF FailedRescue
<1>2. pc[q] \in RunCalls
  <2>1. Placed(q)
    BY DEF TypeInv
  <2>2. ASSUME pc[q] = "idle" PROVE job[q].op = "none"
    BY <2>1, <2>2, CodedJob DEF Placed
  <2> QED BY <1>1, <2>1, <2>2 DEF Placed, Calls, Applying, RunCalls, IsWriter
<1>3. ~CallFails(q) /\ ~Kill(q)
  <2>1. faults \in Nat
    BY DEF TypeInv, Counters
  <2>2. faults' # faults + 1
    BY <1>1, <2>1
  <2> QED BY <2>2 DEF CallFails, Kill, Fault
<1>4. Run(q) /\ ~Begin(q)
  <2>1. pc'[q] # pc[q]
    BY <1>1, <1>2 DEF RunCalls
  <2>2. \A r \in Processes : r # q => ~Elsewhere(r)
    BY <2>1 DEF Elsewhere
  <2>3. ~Begin(q)
    BY <1>2 DEF Begin, RunCalls
  <2> QED BY <1>3, <2>1, <2>2, <2>3, OneMoves
<1>5. faults = 0
  BY <1>1, <1>2, <1>4, RunsOnlyRead
<1>6. /\ job[q].run.wait = FALSE
      /\ IF job[q].fell THEN FallenBack(q) ELSE FirstTry(q)
  BY <1>1 DEF RescueInv, RescueShape
<1>7. Sound(q)
  BY <1>1, <1>5, Zenon DEF RescueInv, RescueSound, Sound
<1>8. ASSUME pc[q] \in {"read_state", "load_for_run", "check"}
      PROVE  ~job[q].fell
  BY <1>6, <1>8 DEF FallenBack
<1>9. /\ \A slice : ~GoesOn(q, slice)
      /\ \A name : ~Named(q, name)
  BY <1>1 DEF GoesOn, Named
<1>10. ~Resolve(q)
  BY <1>1, ResolveGoesOn DEF RescueInv
<1>11. CASE ReadState(q)
  BY <1>9, <1>11, ReadStateLocal DEF SliceNow
<1>12. CASE LoadForRun(q)
  <2>1. Whole(state) /\ state.active # Nobody /\ job[q].name = state.active
    BY <1>7, <1>8, <1>12 DEF Sound, LoadForRun
  <2>2. ~Whole(profiles[state.active])
    BY <1>9, <1>12, <2>1, LoadForRunLocal
  <2> QED BY <2>1, <2>2 DEF SliceNow
<1>13. ~Check(q)
  <2> SUFFICES ASSUME Check(q) PROVE FALSE
    OBVIOUS
  <2>1. ~job[q].fell
    BY <1>8 DEF Check
  <2>2. rescue_target_missing("slice_not_found")
    BY DEF rescue_target_missing
  <2>3. Goto(q, "launch") \/ Goto(q, "resolve")
    BY <1>1, <2>1, <2>2, Zenon DEF Check, RunFails
  <2>4. pc'[q] \in {"launch", "resolve"}
    BY <2>3, Moves DEF TypeInv, Functions, Goto
  <2> QED BY <1>1, <2>4
<1>14. ~Launch(q)
  <2> SUFFICES ASSUME Launch(q) PROVE FALSE
    OBVIOUS
  <2>1. Ends(q, 0) \/ Ends(q, 6)
    BY <1>6 DEF Launch
  <2>2. DOMAIN pc = Processes /\ DOMAIN job = Processes
    BY DEF TypeInv, Functions
  <2>3. job'[q].code \in {0, 6}
    BY <2>1, <2>2, EndsLocal
  <2> QED BY <1>1, <2>3
<1>15. Resolve(q) \/ ReadState(q) \/ LoadForRun(q) \/ Check(q) \/ Launch(q)
  BY <1>2, <1>4 DEF RunCalls, Run, CutProfile, FillProfile, LoadForApply, WriteUnit, Record, ReadBackup, Undo, Reset
<1> QED BY <1>10, <1>11, <1>12, <1>13, <1>14, <1>15

\* rescue --no-check that nobody disturbs starts its shell whenever state.json
\* and the active profile can be read: every error of the class, the slice and
\* the check leads to the fallback, and only once.
THEOREM RescueFallsBackHolds == Spec => RescueFallsBack
<1>1. TypeInv /\ RescueInv /\ [Next]_vars => [\A p \in Processes : FailedRescue(p) => SliceNow(job[p].class) = NoName]_vars
  BY RescueEnds
<1> QED BY <1>1, RescueInvHolds, PTL DEF Spec, RescueFallsBack


-----------------------------------------------------------------------------
(* setup suffices.                                                         *)

\* What run detects is a class of the automatic profile.
LEMMA ClassifiedIsAuto ==
  ASSUME NEW s
  PROVE  classify(s, default_suggest_rules).class \in AutoClasses \cup {NoClass}
<1> DEFINE rules == default_suggest_rules
           matching == {i \in DOMAIN rules : simple_pattern_match(rules[i].pattern, Hay(s))}
           first == CHOOSE i \in matching : \A j \in matching : i <= j
<1>1. DOMAIN rules = 1..3 /\ \A i \in 1..3 : rules[i].class \in AutoClasses
  BY DEF default_suggest_rules, Rule, AutoClasses
<1>2. ClassifyBuiltin(s).class \in AutoClasses \cup {NoClass}
  BY DEF ClassifyBuiltin, NoMatch, ClassMatch, AutoClasses
<1>3. ASSUME matching # {} PROVE first \in DOMAIN rules
  <2>1. matching \subseteq 1..3
    BY <1>1
  <2>2. \E i \in matching : \A j \in matching : i <= j
    BY <1>3, <2>1
  <2>3. first \in matching
    BY <2>2
  <2> QED BY <2>3
<1>4. classify(s, rules) = IF matching # {} THEN ClassMatch(rules[first].class, TRUE, FALSE) ELSE ClassifyBuiltin(s)
  BY Zenon DEF classify
<1> HIDE DEF rules, matching, first
<1>5. CASE matching # {}
  <2>1. classify(s, rules) = ClassMatch(rules[first].class, TRUE, FALSE)
    BY <1>4, <1>5, Zenon
  <2>2. ClassMatch(rules[first].class, TRUE, FALSE).class = rules[first].class
    BY DEF ClassMatch
  <2> QED BY <1>1, <1>3, <1>5, <2>1, <2>2 DEF rules
<1>6. CASE matching = {}
  BY <1>2, <1>4, <1>6 DEF rules
<1> QED BY <1>5, <1>6

LEMMA DetectedIsAuto == DetectedClasses \subseteq AutoClasses
<1>1. ASSUME NEW exec PROVE autodetect_class(exec) \in AutoClasses \cup {NoClass}
  BY ClassifiedIsAuto, Zenon DEF autodetect_class
<1> QED BY <1>1 DEF DetectedClasses


Early == {"cut_profile", "fill_profile", "load", "write", "record"}

\* What a setup that is alone has written is what it applies.
SetupSound(p) ==
  job[p].op = "setup" /\ pc[p] \in Early =>
    /\ job[p].no_classes = FALSE
    /\ alone[p] /\ pc[p] \in {"load", "write", "record"} =>
         profiles[job[p].name] = build_auto_profile(machine)
    /\ alone[p] /\ pc[p] \in {"write", "record"} => job[p].profile = build_auto_profile(machine)

\* Units are there only after an apply was recorded.
FirstApply == ~broken /\ ~Whole(state) /\ WritersAtWork = {} => DOMAIN units = {}

SetupInv == AloneInv /\ FirstApply /\ \A p \in Processes : SetupSound(p)

\* No state file that was written whole is taken for a missing or a torn one.
RecordsAreWhole == \A active, saved : Whole([active |-> active, saved |-> saved])

LEMMA FirstApplyStep ==
  ASSUME RecordsAreWhole, TypeInv, PlaceInv, FirstApply, [Next]_vars
  PROVE  FirstApply'
<1> SUFFICES ASSUME ~broken', ~Whole(state'), WritersAtWork' = {}
             PROVE  DOMAIN units' = {}
  BY DEF FirstApply, Whole
<1>1. ASSUME NEW p \in Processes, Record(p) \/ Reset(p) PROVE FALSE
  BY <1>1 DEF Record, Reset, DefaultState, RecordsAreWhole
<1>2. ASSUME NEW p \in Processes, pc[p] \in {"record", "reset"}
      PROVE  ~CallFails(p) /\ ~Kill(p)
  <2>1. IsWriter(job[p])
    BY <1>2 DEF TypeInv, Placed, Applying, IsWriter
  <2> QED BY <2>1, WhoBreaks
<1>3. state' = state
  BY <1>1, <1>2, WhoWrites
<1>4. ~broken
  BY WhoBreaks
<1>5. WritersAtWork = {}
  BY <1>1, OutOfWriting DEF WritersAtWork, Writing
<1>6. units' = units
  BY <1>5, WhoChangesUnits
<1> QED BY <1>3, <1>4, <1>5, <1>6 DEF FirstApply

LEMMA SetupSteps ==
  ASSUME TypeInv, [Next]_vars, NEW q \in Processes, job'[q].op = "setup", pc'[q] \in Early, ~Begin(q)
  PROVE  /\ job[q].op = "setup" /\ pc[q] \in Early
         /\ \/ pc'[q] = pc[q] /\ job'[q] = job[q]
            \/ CutProfile(q) \/ FillProfile(q) \/ LoadForApply(q) \/ WriteUnit(q)
         /\ Run(q) \/ CallFails(q) \/ Kill(q) =>
              CutProfile(q) \/ FillProfile(q) \/ LoadForApply(q) \/ WriteUnit(q)
<1>1. job[q].op = "setup"
  BY OpStays
<1>2. pc[q] \notin RunCalls
  BY <1>1 DEF TypeInv, Placed
<1>3. ASSUME Run(q) PROVE CutProfile(q) \/ FillProfile(q) \/ LoadForApply(q) \/ WriteUnit(q)
  <2>1. ~Record(q) /\ ~Reset(q) /\ ~ReadBackup(q)
    BY RecordLocal, ReadBackupLocal
  <2>2. ~Undo(q)
    BY UndoLocal DEF Early
  <2>3. ~Resolve(q) /\ ~ReadState(q) /\ ~LoadForRun(q) /\ ~Check(q) /\ ~Launch(q)
    BY <1>2 DEF RunCalls, Resolve, ReadState, LoadForRun, Check, Launch
  <2> QED BY <1>3, <2>1, <2>2, <2>3 DEF Run
<1>4. ~CallFails(q) /\ ~Kill(q)
  BY <1>2, CallFailsLocal, KillLocal DEF Early, RunCalls
<1>5. ASSUME NEW p \in Processes \ {q}, Elsewhere(p)
      PROVE  pc'[q] = pc[q] /\ job'[q] = job[q]
  BY <1>5 DEF Elsewhere
<1>6. \/ pc'[q] = pc[q] /\ job'[q] = job[q]
      \/ CutProfile(q) \/ FillProfile(q) \/ LoadForApply(q) \/ WriteUnit(q)
  BY <1>3, <1>4, <1>5, OneMoves
<1>7. pc[q] \in Early
  BY <1>6 DEF Early, CutProfile, FillProfile, LoadForApply, WriteUnit
<1> QED BY <1>1, <1>3, <1>4, <1>6, <1>7

LEMMA SetupSoundStep ==
  ASSUME TypeInv, AloneInv, [Next]_vars, NEW q \in Processes, SetupSound(q)
  PROVE  SetupSound(q)'
<1> SUFFICES ASSUME job'[q].op = "setup", pc'[q] \in Early
             PROVE  SetupSound(q)'
  BY DEF SetupSound
<1>1. CASE Begin(q)
  <2>1. IsRequest(job'[q]) /\ pc'[q] = "cut_profile"
    BY <1>1, BeginLocal
  <2>2. job'[q].no_classes = FALSE
    <3>1. job'[q].no_classes \in BOOLEAN /\ ~job'[q].no_classes
      BY <2>1, Zenon DEF IsRequest
    <3> QED BY <3>1
  <2> QED BY <2>1, <2>2 DEF SetupSound
<1> SUFFICES ASSUME ~Begin(q)
             PROVE  SetupSound(q)'
  BY <1>1
<1>2. /\ job[q].op = "setup" /\ pc[q] \in Early
      /\ \/ pc'[q] = pc[q] /\ job'[q] = job[q]
         \/ CutProfile(q) \/ FillProfile(q) \/ LoadForApply(q) \/ WriteUnit(q)
      /\ Run(q) \/ CallFails(q) \/ Kill(q) =>
           CutProfile(q) \/ FillProfile(q) \/ LoadForApply(q) \/ WriteUnit(q)
  BY SetupSteps
<1>3. job[q].no_classes = FALSE
  BY <1>2 DEF SetupSound
<1>4. job'[q].no_classes = FALSE
  <2>1. CASE CutProfile(q) \/ FillProfile(q)
    BY <1>3, <2>1, FillProfileLocal DEF CutProfile
  <2>2. CASE LoadForApply(q)
    <3>1. Changes(job[q], job'[q], {"profile", "todo"})
      BY <2>2, LoadForApplyLocal
    <3> QED BY <1>3, <3>1, ChangesSays
  <2>3. CASE WriteUnit(q)
    BY <1>3, <2>3, WriteUnitLocal
  <2> QED BY <1>2, <1>3, <2>1, <2>2, <2>3
<1>5. ASSUME alone'[q]
      PROVE  /\ pc'[q] \in {"load", "write", "record"} => profiles'[job'[q].name] = build_auto_profile(machine')
             /\ pc'[q] \in {"write", "record"} => job'[q].profile = build_auto_profile(machine')
  <2> DEFINE auto == build_auto_profile(machine)
  <2>1. pc[q] # "idle"
    BY <1>2 DEF Early
  <2>2. /\ alone[q]
        /\ UNCHANGED vars \/ CutProfile(q) \/ FillProfile(q) \/ LoadForApply(q) \/ WriteUnit(q)
    BY <1>2, <1>5, <2>1, OwnSteps
  <2>3. /\ pc[q] \in {"load", "write", "record"} => profiles[job[q].name] = auto
        /\ pc[q] \in {"write", "record"} => job[q].profile = auto
    BY <1>2, <2>2 DEF SetupSound
  <2>4. machine' = machine
    BY WhoWrites
  <2>5. CASE UNCHANGED vars
    BY <2>3, <2>4, <2>5 DEF vars, shared
  <2>6. CASE CutProfile(q)
    BY <2>6, Moves DEF CutProfile, TypeInv, Functions
  <2>7. CASE FillProfile(q)
    <3>1. pc'[q] = "load" /\ job'[q] = job[q]
      BY <2>7, FillProfileLocal
    <3>2. job[q].name \in Names /\ DOMAIN profiles = Names
      BY <2>7 DEF TypeInv, Placed, Functions, FillProfile
    <3>3. profiles' = [profiles EXCEPT ![job[q].name] = auto]
      BY <2>7 DEF FillProfile
    <3> QED BY <2>4, <3>1, <3>2, <3>3
  <2>8. CASE LoadForApply(q)
    <3>1. /\ pc'[q] = "write" /\ Changes(job[q], job'[q], {"profile", "todo"})
          /\ job'[q].profile = profiles[job[q].name]
      BY <2>8, LoadForApplyLocal
    <3>2. job'[q].name = job[q].name
      BY <3>1, ChangesSays
    <3>3. pc[q] = "load" /\ profiles' = profiles
      BY <2>8 DEF LoadForApply, shared
    <3> QED BY <2>3, <2>4, <3>1, <3>2, <3>3
  <2>9. CASE WriteUnit(q)
    <3>1. job'[q].name = job[q].name /\ job'[q].profile = job[q].profile
      BY <2>9, WriteUnitLocal
    <3>2. pc[q] = "write" /\ profiles' = profiles
      BY <2>9 DEF WriteUnit
    <3> QED BY <2>3, <2>4, <3>1, <3>2
  <2> QED BY <2>2, <2>5, <2>6, <2>7, <2>8, <2>9
<1> QED BY <1>4, <1>5 DEF SetupSound

\* What a setup that nobody disturbs has written is what it applies.
THEOREM SetupInvHolds ==
  ASSUME RecordsAreWhole
  PROVE  Spec => [](TypeInv /\ PlaceInv /\ SetupInv)
<1>1. Init => SetupInv
  <2> SUFFICES ASSUME Init PROVE SetupInv
    OBVIOUS
  <2>1. \A p \in Processes : pc[p] = "idle"
    BY DEF Init
  <2>2. DOMAIN units = {}
    BY EmptyIsSeq DEF Init
  <2> QED BY <2>1, <2>2 DEF SetupInv, AloneInv, FirstApply, SetupSound, Early
<1>2. TypeInv /\ PlaceInv /\ SetupInv /\ [Next]_vars => SetupInv'
  BY AloneStep, FirstApplyStep, SetupSoundStep DEF SetupInv
<1> QED BY <1>1, <1>2, PlaceInvHolds, PTL DEF Spec

\* The plan for the automatic profile has a unit for each of its classes.
LEMMA AutoPlan ==
  ASSUME TypeInv, NEW class \in AutoClasses, NEW mode \in Modes
  PROVE  LET auto == build_auto_profile(machine) plan == build_apply_plan(auto, FALSE) IN
         /\ IsProfile(auto) /\ collect_classes(auto)[class].slice_name = default_slice(class)
         /\ class \in DOMAIN collect_classes(auto)
         /\ SliceOf(collect_classes(auto), class) = default_slice(class)
         /\ resolve_class_slice(auto, class) = default_slice(class)
         /\ \E i \in 1..Len(plan) : plan[i][1] = <<mode, default_slice(class)>>
<1> DEFINE auto == build_auto_profile(machine) plan == build_apply_plan(auto, FALSE)
<1>1. IsProfile(auto)
  BY LaunchAssumption DEF TypeInv, Functions
<1>2. /\ class \in DOMAIN auto.classes /\ auto.classes[class].slice_name = default_slice(class)
  BY Zenon DEF build_auto_profile, AutoClass, ClassSpec
<1>3. /\ class \in DOMAIN collect_classes(auto) /\ collect_classes(auto)[class] = auto.classes[class]
  BY <1>2, Zenon DEF collect_classes, Over
<1>4. SliceOf(collect_classes(auto), class) = default_slice(class)
  BY <1>2, <1>3, Zenon DEF SliceOf
<1>5. resolve_class_slice(auto, class) = default_slice(class)
  BY <1>3, <1>4, ResolvedAsCollected
<1>6. PICK i \in 2..Len(plan) : plan[i] = ClassWrite(auto, class, mode)
  BY <1>1, <1>3, PlanWrites
<1>7. plan[i][1] = <<mode, default_slice(class)>>
  <2> HIDE DEF auto, plan
  <2>1. ClassWrite(auto, class, mode)[1] = <<mode, SliceOf(collect_classes(auto), class)>>
    BY DEF ClassWrite
  <2> QED BY <1>4, <1>6, <2>1
<1>8. i \in 1..Len(plan)
  <2>1. Len(plan) \in Nat
    BY <1>1, PlanWrites, SeqLength
  <2> HIDE DEF plan
  <2> QED BY <2>1
<1> HIDE DEF auto, plan
<1> QED BY <1>1, <1>2, <1>3, <1>4, <1>5, <1>7, <1>8, Zenon DEF auto, plan

\* How a setup that succeeds ends.
LEMMA SetupEnds ==
  ASSUME TypeInv, [Next]_vars, NEW p \in Processes, job[p].op = "setup", job[p].apply,
         pc'[p] = "idle", job'[p].code = 0
  PROVE  Record(p) \/ (LoadForApply(p) /\ job'[p].op = "none")
<1>1. DOMAIN pc = Processes /\ DOMAIN job = Processes /\ Placed(p)
  BY DEF TypeInv, Functions
<1>2. pc[p] # "idle" /\ pc[p] \notin RunCalls /\ pc[p] \notin {"read_backup", "reset"}
  <2>1. ASSUME pc[p] = "idle" PROVE job[p].op = "none"
    BY <1>1, <2>1, CodedJob DEF Placed
  <2> QED BY <1>1, <2>1 DEF Placed
<1>3. \A code : Ends(p, code) => code = 0
  BY <1>1, EndsLocal
<1>4. ~Ends(p, 1) /\ ~Ends(p, 4) /\ ~Ends(p, 5)
  BY <1>3
<1>5. ~CallFails(p) /\ ~Kill(p)
  <2>1. ~Kill(p)
    BY <1>4 DEF Kill
  <2>2. ASSUME TakesBack(p) PROVE FALSE
    <3>1. Goto(p, "undo")
      BY <1>4, <2>2 DEF TakesBack
    <3> QED BY <1>1, <3>1, Moves
  <2>3. ~CallFails(p)
    BY <1>2, <1>4, <2>2 DEF CallFails, RunCalls
  <2> QED BY <2>1, <2>3
<1>6. Run(p)
  <2>1. pc'[p] # pc[p]
    BY <1>2
  <2>2. \A r \in Processes : r # p => ~Elsewhere(r)
    BY <2>1 DEF Elsewhere
  <2> QED BY <1>5, <2>1, <2>2, OneMoves
<1>7. ~Begin(p)
  BY <1>2 DEF Begin
<1>8. ~CutProfile(p) /\ ~WriteUnit(p)
  BY <1>1, Moves, WriteUnitLocal DEF CutProfile
<1>9. ~FillProfile(p)
  BY FillProfileLocal
<1>10. ~Undo(p)
  <2> SUFFICES ASSUME Undo(p) PROVE FALSE
    OBVIOUS
  <2>1. pc[p] = "undo" /\ UNCHANGED pc
    BY <1>4 DEF Undo
  <2> QED BY <2>1
<1>11. ~ReadBackup(p) /\ ~Reset(p) /\ ~Resolve(p) /\ ~ReadState(p) /\ ~LoadForRun(p) /\ ~Check(p) /\ ~Launch(p)
  BY <1>2 DEF RunCalls, ReadBackup, Reset, Resolve, ReadState, LoadForRun, Check, Launch
<1>12. Record(p) \/ LoadForApply(p)
  BY <1>6, <1>7, <1>8, <1>9, <1>10, <1>11 DEF Run
<1> QED BY <1>12, LoadForApplyLocal


LEMMA ResolvedThen ==
  ASSUME NEW class, Active', Whole(profiles[state.active])'
  PROVE  SliceNow(class)' = resolve_class_slice(profiles'[state'.active], class)
  BY DEF SliceNow, Active, resolve_class_slice, collect_classes, Over, SliceOf

LEMMA AppliedClassesRunThen == TypeInv' /\ PlaceInv' => AppliedClassesRun'
  BY AppliedClassesRunNow, PTL

LEMMA SetupReadyStep ==
  ASSUME RecordsAreWhole, TypeInv, PlaceInv, SetupInv, [Next]_vars, TypeInv', PlaceInv',
         NEW p \in Processes, NEW name \in Names,
         job[p].op = "setup", job[p].name = name, job[p].apply, alone[p], ~broken,
         pc'[p] = "idle", job'[p].code = 0, ActiveIsSound(name)',
         NEW class \in AutoClasses, NEW mode \in Modes
  PROVE  RunsNow(mode, class)'
<1> DEFINE auto == build_auto_profile(machine) plan == build_apply_plan(auto, FALSE)
<1>1. /\ IsProfile(auto) /\ class \in DOMAIN collect_classes(auto)
      /\ resolve_class_slice(auto, class) = default_slice(class)
      /\ \E i \in 1..Len(plan) : plan[i][1] = <<mode, default_slice(class)>>
  BY AutoPlan
<1>2. machine' = machine /\ default_slice(class) # NoName
  BY WhoWrites, NamedSlices
<1>3. Whole(auto)
  BY <1>1 DEF IsProfile, Whole
<1>4. CASE Record(p)
  <2>1. pc[p] = "record" /\ pc[p] \in Early /\ UNCHANGED <<profiles, units>>
    BY <1>4 DEF Record, Early
  <2>2. job[p].no_classes = FALSE /\ profiles[name] = auto /\ job[p].profile = auto
    BY <2>1 DEF SetupInv, SetupSound
  <2>3. Plan(p) = plan
    BY <2>2 DEF Plan
  <2>4. InForce(auto, plan, Len(plan))
    BY <1>4, <2>1, <2>2, <2>3, RecordWrites DEF PlaceInv
  <2>5. <<mode, default_slice(class)>> \in DOMAIN units'
    <3> HIDE DEF plan
    <3> QED BY <1>1, <2>1, <2>4 DEF InForce
  <2>6. state' = [active |-> name, saved |-> job[p].saved]
    BY <1>4 DEF Record
  <2>7. Whole(state)' /\ state'.active = name /\ name # Nobody
    BY <2>6, LaunchAssumption DEF RecordsAreWhole, Whole
  <2>8. Active' /\ Whole(profiles[state.active])' /\ profiles'[state'.active] = auto
    BY <1>3, <2>1, <2>2, <2>7 DEF Active, Whole
  <2>9. SliceNow(class)' = default_slice(class)
    BY <1>1, <2>8, ResolvedThen
  <2> QED BY <1>2, <2>5, <2>9 DEF RunsNow, Loadable
<1>5. CASE LoadForApply(p) /\ job'[p].op = "none"
  <2>1. pc[p] = "load" /\ pc[p] \in Early /\ UNCHANGED shared
    BY <1>5 DEF LoadForApply, Early
  <2>2. job[p].no_classes = FALSE /\ profiles[name] = auto
    BY <2>1 DEF SetupInv, SetupSound
  <2>3. \A i \in DOMAIN plan : InPlace(plan[i])
    <3>1. /\ ~Ends(p, 1) /\ ~Ends(p, 2)
      BY EndsLocal DEF TypeInv, Functions
    <3>2. ~Goto(p, "write")
      BY Moves DEF TypeInv, Functions
    <3> QED BY <1>3, <1>5, <2>2, <3>1, <3>2, Zenon DEF LoadForApply
  <2>4. Len(plan) >= 1 /\ DOMAIN plan = 1..Len(plan) /\ Len(plan) \in Nat
    BY <1>1, PlanWrites, SeqLength
  <2>5. <<mode, default_slice(class)>> \in DOMAIN units
    <3> HIDE DEF plan
    <3> QED BY <1>1, <2>3, <2>4 DEF InPlace
  <2>6. \A q \in Processes : q # p => pc[q] = "idle"
    BY <2>1 DEF SetupInv, AloneInv
  <2>7. Whole(state)
    <3>1. WritersAtWork = {}
      BY <2>1, <2>6 DEF WritersAtWork
    <3> QED BY <2>5, <3>1 DEF SetupInv, FirstApply
  <2>8. profiles' = profiles /\ state' = state /\ units' = units
    BY <2>1 DEF shared
  <2>9. SliceNow(class)' = SliceNow(class) /\ Whole(state)'
    BY <2>7, <2>8 DEF SliceNow, Whole
  <2>10. CASE state.active = Nobody
    <3>1. SliceNow(class) = default_slice(class)
      BY <2>7, <2>10 DEF SliceNow
    <3> QED BY <1>2, <2>5, <2>8, <2>9, <3>1 DEF RunsNow, Loadable
  <2>11. CASE state.active = name
    <3>1. Active /\ Whole(profiles[state.active])
      BY <1>3, <2>2, <2>7, <2>11, LaunchAssumption DEF Active
    <3>2. SliceNow(class) = default_slice(class)
      BY <1>1, <2>2, <2>11, <3>1, ResolvedNow
    <3> QED BY <1>2, <2>5, <2>8, <2>9, <3>2 DEF RunsNow, Loadable
  <2>12. CASE state.active \notin {Nobody, name}
    <3>1. profiles'[state'.active] = applied'.profile /\ ~applied'.no_classes
      BY <2>8, <2>9, <2>12 DEF ActiveIsSound
    <3>2. ActiveAsApplied'
      BY <2>8, <2>9, <2>12, <3>1 DEF ActiveAsApplied
    <3>3. Settled'
      <4>1. \A q \in Processes : pc'[q] = "idle"
        BY <1>5, <2>6, LoadForApplyLocal DEF Elsewhere
      <4>2. broken' = broken
        BY <1>5 DEF LoadForApply, Keeps, ghosts
      <4> QED BY <3>1, <3>2, <4>1, <4>2, Zenon DEF Settled, Working
    <3>4. AppliedClassesRun'
      BY AppliedClassesRunThen
    <3>5. Active' /\ Valid(applied.profile)'
      BY <2>8, <2>9, <2>12 DEF Active, TypeInv, AsRecorded
    <3>6. Whole(profiles[state.active])'
      BY <3>1, <3>5 DEF Valid, IsProfile, Whole
    <3>7. SliceNow(class)' = resolve_class_slice(applied'.profile, class)
      BY <3>1, <3>5, <3>6, ResolvedThen
    <3>8. CASE class \in DOMAIN collect_classes(applied'.profile)
      <4>1. Loadable(mode, resolve_class_slice(applied.profile, class))'
        BY <3>3, <3>4, <3>8 DEF AppliedClassesRun
      <4>2. SliceNow(class)' # NoName
        BY <3>7, NamedSlices
      <4> QED BY <3>7, <4>1, <4>2 DEF RunsNow, Loadable
    <3>9. CASE class \notin DOMAIN collect_classes(applied'.profile)
      <4>1. SliceNow(class)' = default_slice(class)
        BY <3>7, <3>9 DEF resolve_class_slice, collect_classes, Over
      <4> QED BY <1>2, <2>5, <2>8, <4>1 DEF RunsNow, Loadable
    <3> QED BY <3>8, <3>9
  <2> QED BY <2>10, <2>11, <2>12
<1> QED BY <1>4, <1>5, SetupEnds

\* What one is told to do first suffices: after a setup --apply that nobody
\* disturbed every class of the automatic profile, and every command line whose
\* class is detected, has a slice to run in, whether the units were written or
\* found in place, and whichever profile stays the active one.
THEOREM SetupReadiesHolds ==
  ASSUME RecordsAreWhole
  PROVE  Spec => SetupReadies
<1> DEFINE Inv == TypeInv /\ PlaceInv /\ SetupInv
<1>1. Spec => []Inv
  BY SetupInvHolds
<1>2. Inv /\ [Next]_vars /\ Inv' =>
        [ \A p \in Processes, name \in Names :
            ( /\ job[p].op = "setup" /\ job[p].name = name /\ job[p].apply /\ alone[p] /\ ~broken
              /\ pc'[p] = "idle" /\ job'[p].code = 0 /\ ActiveIsSound(name)' )
            => \A class \in AutoClasses \cup DetectedClasses, mode \in Modes : RunsNow(mode, class)' ]_vars
  BY SetupReadyStep, DetectedIsAuto
<1> HIDE DEF Inv
<1> QED BY <1>1, <1>2, PTL DEF Spec, SetupReadies
=============================================================================
