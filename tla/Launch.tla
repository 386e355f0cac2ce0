------------------------------- MODULE Launch -------------------------------
(***************************************************************************)
(* From a profile to a contained program: resguard setup and init write an *)
(* automatic profile into the store, apply turns a profile into slices and *)
(* makes it the active one, rollback undoes that, and run and rescue look  *)
(* the active profile up to start a program in the slice of its class.     *)
(* Several processes share the store, the unit files and state.json and    *)
(* nothing is locked, so that they interleave call by call.                *)
(*                                                                         *)
(* apply and rollback are modelled in Transaction; here they keep of a     *)
(* transaction what was there before (saved), and the two drop-ins of      *)
(* system.slice and user.slice are one unit.  setup, apply and rollback    *)
(* run as root.  A program is run by a user or by root: its mode.          *)
(***************************************************************************)
EXTENDS Suggest, Validation, TLC

CONSTANTS
  Processes,
  Names,        \* names of profiles
  HandWritten,  \* the profiles an administrator may write
  Machines,     \* the machines: [total_mem, cpu_cores]
  Commands,     \* process |-> the commands it may run
  Absent, Torn, \* no file, a file cut short
  Stores,       \* what the store may be at first: name |-> profile
  MaxEvents,    \* commands, failing calls, kills and edits together
  MaxFaults     \* failing calls, kills and edits

Modes       == {"system", "user"}
SystemSlice == <<"system", ".", "slice">>
Nobody      == "nobody"

VARIABLES
  machine,
  profiles,   \* the store: name |-> profile
  units,      \* the unit files that resguard wrote: <<mode, name>> |-> content
  state,      \* state.json: [active, saved]
  pc, job,    \* of each process
  commands, faults,
  alone,      \* ghost: nothing else has happened since the command began
  undone,     \* ghost: units were taken back between the check and the start
  applied,    \* ghost: the last apply that was recorded
  broken      \* ghost: a command was cut short, or two were at work at once

shared == <<machine, profiles, units, state>>
counts == <<commands, faults>>
ghosts == <<alone, undone, applied, broken>>
vars   == <<shared, pc, job, counts, ghosts>>

\* A request to run is [mode, class, profile, slice, no_check, wait, exec].
NoRun == [ mode |-> "user", class |-> NoClass, profile |-> Nobody, slice |-> NoName,
           no_check |-> FALSE, wait |-> FALSE, exec |-> <<>> ]
NoJob == [ op |-> "none", name |-> Nobody, apply |-> FALSE, no_classes |-> FALSE,
           run |-> NoRun, profile |-> Absent, todo |-> <<>>, saved |-> <<>>, code |-> 0,
           slice |-> NoName,
           class |-> NoClass, fallback |-> FALSE, fell |-> FALSE ]

DefaultState == [active |-> Nobody, saved |-> <<>>]
Whole(file)  == file \notin {Absent, Torn}

Init ==
  /\ machine \in Machines
  /\ profiles \in Stores /\ units = <<>> /\ state = Absent
  /\ pc = [p \in Processes |-> "idle"] /\ job = [p \in Processes |-> NoJob]
  /\ commands = 0 /\ faults = 0
  /\ alone = [p \in Processes |-> TRUE] /\ undone = [p \in Processes |-> FALSE]
  /\ applied = [profile |-> Absent, no_classes |-> FALSE] /\ broken = FALSE

Working == {p \in Processes : pc[p] # "idle"}
Goto(p, label) == pc' = [pc EXCEPT ![p] = label]
Set(p, changed) == job' = [job EXCEPT ![p] = changed]
Ends(p, code) == Goto(p, "idle") /\ Set(p, [NoJob EXCEPT !.code = code])
Keeps == UNCHANGED <<counts, ghosts>>
-----------------------------------------------------------------------------
(* Commands, and the administrator.                                        *)

FirstCall(op) ==
  CASE op = "setup" -> "cut_profile" [] op = "apply" -> "load"
    [] op = "rollback" -> "read_backup" [] op \in {"run", "rescue"} -> "resolve"

IsWriter(c) == c.op \in {"setup", "apply", "rollback"}

\* A command as it is typed; nothing is known yet of profile and units.
IsRequest(c) ==
  /\ DOMAIN c = DOMAIN NoJob /\ DOMAIN c.run = DOMAIN NoRun
  /\ IsWriter(c) \/ c.op \in {"run", "rescue"}
  /\ c.op \in {"setup", "apply"} => c.name \in Names
  /\ c.apply \in BOOLEAN /\ c.no_classes \in BOOLEAN /\ (c.op = "setup" => ~c.no_classes)
  /\ c.run.profile \in Names \cup {Nobody}
  /\ c.fallback \in BOOLEAN /\ (c.op = "run" => ~c.fallback)
  /\ c.op = "rescue" => /\ c.class # NoClass
                        /\ c.run = [NoRun EXCEPT !.mode = c.run.mode, !.class = c.class, !.exec = c.run.exec]
  /\ c.profile = Absent /\ c.todo = <<>> /\ c.saved = <<>> /\ c.code = 0
  /\ c.slice = NoName /\ ~c.fell

Begin(p) ==
  /\ pc[p] = "idle" /\ commands + faults < MaxEvents
  /\ commands' = commands + 1
  /\ \E c \in Commands[p] :
       /\ Set(p, c) /\ Goto(p, FirstCall(c.op))
       /\ broken' = (broken \/ (IsWriter(c) /\ \E q \in Working : IsWriter(job[q])))
  /\ alone' = [q \in Processes |-> IF q = p THEN Working = {} ELSE alone[q] /\ q \notin Working]
  /\ undone' = [undone EXCEPT ![p] = FALSE]
  /\ UNCHANGED <<shared, faults, applied>>

FaultsLeft == faults < MaxFaults /\ commands + faults < MaxEvents

Edit ==
  /\ FaultsLeft
  /\ faults' = faults + 1
  /\ \E n \in Names, profile \in HandWritten \cup {Absent} :
       profiles[n] # profile /\ profiles' = [profiles EXCEPT ![n] = profile]
  /\ alone' = [p \in Processes |-> alone[p] /\ p \notin Working]
  /\ UNCHANGED <<machine, units, state, pc, job, commands, undone, applied, broken>>
-----------------------------------------------------------------------------
(* setup: handle_init and then apply.  The preview of suggestions at its   *)
(* end is left out: it writes nothing.                                     *)

\* save_profile overwrites what is there; fs::write cuts the file first.
CutProfile(p) ==
  /\ pc[p] = "cut_profile"
  /\ profiles' = [profiles EXCEPT ![job[p].name] = Torn]
  /\ Goto(p, "fill_profile")
  /\ UNCHANGED <<machine, units, state, job>> /\ Keeps

FillProfile(p) ==
  /\ pc[p] = "fill_profile"
  /\ profiles' = [profiles EXCEPT ![job[p].name] = build_auto_profile(machine)]
  /\ IF job[p].apply THEN Goto(p, "load") /\ UNCHANGED job ELSE Ends(p, 0)
  /\ UNCHANGED <<machine, units, state>> /\ Keeps
-----------------------------------------------------------------------------
(* apply and rollback.                                                     *)

Over(f, g) == [x \in DOMAIN f \cup DOMAIN g |-> IF x \in DOMAIN f THEN f[x] ELSE g[x]]

SliceOf(classes, c) ==
  IF classes[c].slice_name = NoName THEN default_slice(c) ELSE classes[c].slice_name

\* Mutant: the classes below slices come first.
collect_slices_first(profile) == Over(profile.slices, profile.classes)

collect_classes(profile) == Over(profile.classes, profile.slices)

DropIns == <<"system", <<"drop-ins">>>>
DropInsOf(profile) ==
  [ memory_high |-> profile.memory_high, memory_max |-> profile.memory_max,
    more |-> <<profile.memory_low, profile.system_cpus, profile.user_cpus>> ]
SliceUnit(classes, c) ==
  [ memory_high |-> classes[c].memory_high, memory_max |-> classes[c].memory_max,
    more |-> <<c, classes[c].cpu_weight>> ]

\* The units to write: the drop-ins and then, class by class, the slice of the
\* system manager and the one of the user managers.
build_apply_plan(profile, no_classes) ==
  LET classes == collect_classes(profile)
      names == IF no_classes THEN <<>> ELSE SetToSeq(DOMAIN classes)
      ClassWrite(c, mode) == << <<mode, SliceOf(classes, c)>>, SliceUnit(classes, c) >>
  IN  [ i \in 1..2 * Len(names) + 1 |->
          IF i = 1 THEN <<DropIns, DropInsOf(profile)>>
          ELSE ClassWrite(names[i \div 2], IF i % 2 = 0 THEN "system" ELSE "user") ]

\* A profile in memory: a map has finitely many classes, and what is written
\* for it is content.
IsProfile(profile) ==
  /\ profile \notin {Absent, Torn} /\ profile.header_ok \in BOOLEAN
  /\ IsFiniteSet(DOMAIN profile.classes) /\ IsFiniteSet(DOMAIN profile.slices)
  /\ DropInsOf(profile) # Absent
  /\ \A c \in DOMAIN collect_classes(profile) : SliceUnit(collect_classes(profile), c) # Absent

\* The memory of a machine is counted in 64 bits.
ASSUME LaunchAssumption ==
  /\ Absent # Torn /\ Nobody \notin Names
  /\ \A m \in Machines :
       /\ m.total_mem \in Nat /\ m.cpu_cores \in Nat /\ m.total_mem <= MaxSize
       /\ m = [total_mem |-> m.total_mem, cpu_cores |-> m.cpu_cores]
       /\ IsProfile(build_auto_profile(m))
  /\ \A profile \in HandWritten : IsProfile(profile)
  /\ \A store \in Stores : store \in [Names -> HandWritten \cup {Absent, Torn}]
  /\ \A p \in Processes : \A c \in Commands[p] : IsRequest(c)
  /\ MaxEvents \in Nat /\ MaxFaults \in Nat

\* Mutant: only the drop-ins are compared.
InPlaceDropIns(write) == write[1] # DropIns \/ (DropIns \in DOMAIN units /\ units[DropIns] = write[2])

InPlace(write) == write[1] \in DOMAIN units /\ units[write[1]] = write[2]

\* Loading, validation, the plan, and the early return when all is in place.
LoadForApply(p) ==
  /\ pc[p] = "load"
  /\ LET profile == profiles[job[p].name]
         plan == build_apply_plan(profile, job[p].no_classes)
     IN  IF ~Whole(profile) THEN Ends(p, 1)
         ELSE IF validate_profile(profile) # {} THEN Ends(p, 2)
         ELSE IF \A i \in DOMAIN plan : InPlace(plan[i]) THEN Ends(p, 0)
         ELSE Goto(p, "write") /\ Set(p, [job[p] EXCEPT !.profile = profile, !.todo = plan])
  /\ UNCHANGED shared /\ Keeps

Found(unit) == IF unit \in DOMAIN units THEN units[unit] ELSE Absent
\* Mutant: a unit that is there already is kept.
WrittenIfNew(unit, content) == Over(units, [u \in {unit} |-> content])

Written(unit, content) == Over([u \in {unit} |-> content], units)

\* What was there before comes back, and what was not there goes.
RolledBack(unit, content) ==
  IF content = Absent THEN [u \in DOMAIN units \ {unit} |-> units[u]] ELSE Written(unit, content)

\* Mutant: a unit that was not there is not remembered.
SavingBackedOnly(saved, unit) ==
  IF unit \in DOMAIN units THEN Append(saved, <<unit, units[unit]>>) ELSE saved

\* snapshot_before_write: what is there before the first write of a unit.
Saving(saved, unit) ==
  IF \E i \in DOMAIN saved : saved[i][1] = unit THEN saved ELSE Append(saved, <<unit, Found(unit)>>)

WriteUnit(p) ==
  /\ pc[p] = "write"
  /\ LET write == Head(job[p].todo) IN
     /\ units' = Written(write[1], write[2])
     /\ Set(p, [job[p] EXCEPT !.todo = Tail(@), !.saved = Saving(@, write[1])])
  /\ Goto(p, IF Len(job[p].todo) = 1 THEN "record" ELSE "write")
  /\ UNCHANGED <<machine, profiles, state>> /\ Keeps

\* The manifest and state.json.
Record(p) ==
  /\ pc[p] = "record"
  /\ state' = [active |-> job[p].name, saved |-> job[p].saved]
  /\ applied' = [profile |-> job[p].profile, no_classes |-> job[p].no_classes]
  /\ Ends(p, 0)
  /\ UNCHANGED <<machine, profiles, units, counts, alone, undone, broken>>

\* rollback --last needs a state file that names a backup.
ReadBackup(p) ==
  /\ pc[p] = "read_backup"
  /\ IF ~Whole(state) \/ (Whole(state) /\ state.saved = <<>>) THEN Ends(p, 1)
     ELSE Goto(p, "undo") /\ Set(p, [job[p] EXCEPT !.todo = state.saved])
  /\ UNCHANGED shared /\ Keeps

\* The undo of an apply that failed ends with code 4, a rollback goes on.
Undo(p) ==
  /\ pc[p] = "undo"
  /\ LET write == Head(job[p].todo) IN units' = RolledBack(write[1], write[2])
  /\ IF Len(job[p].todo) > 1 THEN Set(p, [job[p] EXCEPT !.todo = Tail(@)]) /\ UNCHANGED pc
     ELSE IF job[p].op = "rollback" THEN Goto(p, "reset") /\ UNCHANGED job
     ELSE Ends(p, 4)
  /\ undone' = [q \in Processes |-> undone[q] \/ pc[q] = "launch"]
  /\ UNCHANGED <<machine, profiles, state, counts, alone, applied, broken>>

Reset(p) ==
  /\ pc[p] = "reset"
  /\ state' = DefaultState
  /\ Ends(p, 0)
  /\ UNCHANGED <<machine, profiles, units>> /\ Keeps
-----------------------------------------------------------------------------
(* run and rescue.                                                         *)

RunScope == <<"resguard", ".", "run", ".", "scope">>
AutoDetectThreshold == 70

\* The class of a command line, if its score is high enough.
autodetect_class(exec) ==
  LET match == classify([ scope |-> RunScope, slice |-> <<"app", ".", "slice">>,
                          exec |-> exec, memory |-> 0 ], default_suggest_rules)
      confidence == score(parse_scope_identity(RunScope, exec), match, None)
  IN  IF confidence < AutoDetectThreshold THEN NoClass ELSE match.class

class_of(run) == IF run.class # NoClass THEN run.class ELSE autodetect_class(run.exec)

\* Mutant: the classes below slices come first.
resolve_slices_first(profile, class) ==
  LET classes == collect_slices_first(profile) IN
  IF class \in DOMAIN classes THEN SliceOf(classes, class) ELSE default_slice(class)

\* The slice of a class; a class that the profile lacks has the default one.
resolve_class_slice(profile, class) ==
  IF class \in DOMAIN profile.classes THEN SliceOf(profile.classes, class)
  ELSE IF class \in DOMAIN profile.slices THEN SliceOf(profile.slices, class)
  ELSE default_slice(class)

\* What rescue runs when its own class cannot be used.
FallbackRun(run) == [run EXCEPT !.class = "rescue", !.slice = SystemSlice, !.no_check = TRUE]

\* Mutant: a slice that is not there is no reason to fall back.
TargetMissingChecked(why) == why = "slice_check_failed"
rescue_target_missing(why) == why \in {"slice_not_found", "slice_check_failed"}

\* The run ends with an error; rescue --no-check looks at which one it is.
RunFails(p, why) ==
  IF job[p].fallback /\ ~job[p].fell /\ rescue_target_missing(why)
  THEN Goto(p, "resolve") /\ Set(p, [job[p] EXCEPT !.run = FallbackRun(@), !.fell = TRUE])
  ELSE Ends(p, 1)

Resolved(p, slice) ==
  /\ Set(p, [job[p] EXCEPT !.slice = slice])
  /\ Goto(p, IF job[p].run.no_check THEN "launch" ELSE "check")

\* --slice goes first, then the profile of --profile, then the active one.
Resolve(p) ==
  /\ pc[p] = "resolve"
  /\ LET run == job[p].run IN
     IF class_of(run) = NoClass THEN RunFails(p, "class")
     ELSE IF run.slice # NoName THEN Resolved(p, run.slice)
     ELSE IF run.profile # Nobody
     THEN Goto(p, "load_for_run") /\ Set(p, [job[p] EXCEPT !.name = run.profile])
     ELSE Goto(p, "read_state") /\ UNCHANGED job
  /\ UNCHANGED shared /\ Keeps

\* read_state fails when there is no state.json; without an active profile the
\* class has its default slice.
ReadState(p) ==
  /\ pc[p] = "read_state"
  /\ IF ~Whole(state) THEN RunFails(p, "state")
     ELSE IF state.active = Nobody THEN Resolved(p, default_slice(class_of(job[p].run)))
     ELSE Goto(p, "load_for_run") /\ Set(p, [job[p] EXCEPT !.name = state.active])
  /\ UNCHANGED shared /\ Keeps

LoadForRun(p) ==
  /\ pc[p] = "load_for_run"
  /\ LET profile == profiles[job[p].name] IN
     IF ~Whole(profile) THEN RunFails(p, "profile")
     ELSE Resolved(p, resolve_class_slice(profile, class_of(job[p].run)))
  /\ UNCHANGED shared /\ Keeps

\* systemctl cat finds the units of resguard and system.slice.
Loadable(mode, slice) == <<mode, slice>> \in DOMAIN units \/ slice = SystemSlice

\* Mutant: the system manager is asked, whoever runs the program.
CheckOfSystem(p) ==
  /\ pc[p] = "check"
  /\ IF Loadable("system", job[p].slice) THEN Goto(p, "launch") /\ UNCHANGED job
     ELSE RunFails(p, "slice_not_found")
  /\ UNCHANGED shared /\ Keeps

Check(p) ==
  /\ pc[p] = "check"
  /\ IF Loadable(job[p].run.mode, job[p].slice) THEN Goto(p, "launch") /\ UNCHANGED job
     ELSE RunFails(p, "slice_not_found")
  /\ UNCHANGED shared /\ Keeps

\* systemd-run starts the program or ends with a code of its own.  A slice that
\* has no unit is made up by systemd, without limits.
Launch(p) ==
  /\ pc[p] = "launch"
  /\ \E started \in BOOLEAN : Ends(p, IF started THEN 0 ELSE IF job[p].run.wait THEN 1 ELSE 6)
  /\ UNCHANGED shared /\ Keeps
-----------------------------------------------------------------------------
(* Faults.                                                                 *)

Fault(p) ==
  /\ FaultsLeft
  /\ faults' = faults + 1
  /\ broken' = (broken \/ IsWriter(job[p]))
  /\ UNCHANGED <<machine, profiles, units, commands, alone, undone, applied>>

StateMayTear(p) == state' \in IF pc[p] \in {"record", "reset"} THEN {state, Torn} ELSE {state}

\* An apply whose write or daemon-reload fails takes its units back.
TakesBack(p) ==
  /\ pc[p] \in {"write", "record"}
  /\ IF job[p].saved = <<>> THEN Ends(p, 4)
     ELSE Goto(p, "undo") /\ Set(p, [job[p] EXCEPT !.todo = job[p].saved])
  /\ UNCHANGED state

\* A call fails.  A failing check is an error of the run like any other.
CallFails(p) ==
  /\ pc[p] \notin {"idle", "resolve"}
  /\ Fault(p)
  /\ \/ TakesBack(p)
     \/ pc[p] = "check" /\ RunFails(p, "slice_check_failed") /\ UNCHANGED state
     \/ /\ pc[p] \notin {"write", "check"}
        /\ Ends(p, IF pc[p] = "undo" /\ job[p].op # "rollback" THEN 5 ELSE 1)
        /\ StateMayTear(p)

Kill(p) ==
  /\ pc[p] # "idle"
  /\ Fault(p) /\ Ends(p, 1) /\ StateMayTear(p)

Run(p) ==
  \/ Begin(p) \/ CutProfile(p) \/ FillProfile(p)
  \/ LoadForApply(p) \/ WriteUnit(p) \/ Record(p) \/ ReadBackup(p) \/ Undo(p) \/ Reset(p)
  \/ Resolve(p) \/ ReadState(p) \/ LoadForRun(p) \/ Check(p) \/ Launch(p)

Next == Edit \/ \E p \in Processes : Run(p) \/ CallFails(p) \/ Kill(p)
Spec == Init /\ [][Next]_vars
=============================================================================
