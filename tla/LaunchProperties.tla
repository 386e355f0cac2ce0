-------------------------- MODULE LaunchProperties --------------------------
(***************************************************************************)
(* What setup, apply, rollback, run and rescue promise together, and what  *)
(* the reports say of it.                                                  *)
(***************************************************************************)
EXTENDS Reports, AutoProfileProperties

\* Types; who writes has something left to write, and only a run that passed
\* its check or skips it launches.
TypeOK ==
  /\ machine \in Machines
  /\ \A n \in Names : Whole(profiles[n]) => profiles[n].header_ok \in BOOLEAN
  /\ \A u \in DOMAIN units : u[1] \in Modes /\ units[u] # Absent
  /\ Whole(state) => /\ state.active \in Names \cup {Nobody}
                     /\ state.active = Nobody <=> state.saved = <<>>
  /\ \A p \in Processes :
       /\ pc[p] \in {"write", "undo"} => job[p].todo # <<>>
       /\ pc[p] \in {"check", "launch"} => job[p].slice # NoName
       /\ pc[p] = "idle" => job[p] = [NoJob EXCEPT !.code = job[p].code]
  /\ commands + faults \in 0..MaxEvents /\ faults \in 0..MaxFaults

\* A program that is started after the check runs in a slice with a unit, for
\* the manager that starts it, if nothing has been undone between the check and
\* the start: applies, edits, failing calls, kills, and whatever was undone
\* before the check do no harm, and the check is of the manager that starts the
\* program.  An undo or a rollback just after the check may take the unit away,
\* and execute_run_plan does not notice (undone leaves that case out).
ContainedRuns ==
  \A p \in Processes :
    pc[p] = "launch" /\ ~job[p].run.no_check /\ ~undone[p]
    => Loadable(job[p].run.mode, job[p].slice)

\* Where a class runs as things stand now: NoName when the state or the profile
\* cannot be read.
SliceNow(class) ==
  IF ~Whole(state) THEN NoName
  ELSE IF state.active = Nobody THEN default_slice(class)
  ELSE IF ~Whole(profiles[state.active]) THEN NoName
  ELSE LET all == collect_classes(profiles[state.active]) IN
       IF class \in DOMAIN all THEN SliceOf(all, class) ELSE default_slice(class)
RunsNow(mode, class) == SliceNow(class) # NoName /\ Loadable(mode, SliceNow(class))

\* rescue starts its shell in system.slice only if the slice of its class is
\* not there, and only when asked to with --no-check (rescue of rescue_service.rs),
\* or if system.slice is what the active profile says.
FallbackOnlyWhenMissing ==
  \A p \in Processes :
    /\ job[p].op = "rescue" /\ pc[p] = "launch" /\ job[p].slice = SystemSlice
    /\ alone[p] /\ faults = 0
    => \/ job[p].fallback /\ ~RunsNow(job[p].run.mode, job[p].class)
       \/ SliceNow(job[p].class) = SystemSlice

\* Every class of the active profile can be run, by root and by users: apply
\* writes a unit for the very slice that run looks up, whatever commands came
\* before, unless the profile was edited since, a command was cut short, or
\* two overlapped (collect_classes of the planner, resolve_class_slice of run).
ActiveAsApplied ==
  /\ Whole(state)
  /\ Whole(state) => state.active # Nobody /\ profiles[state.active] = applied.profile
Settled == Working = {} /\ ~broken /\ ActiveAsApplied /\ ~applied.no_classes
AppliedClassesRun ==
  Settled =>
    \A class \in DOMAIN collect_classes(applied.profile), mode \in Modes :
      Loadable(mode, resolve_class_slice(applied.profile, class))

\* No two classes of the profile have the same slice.  Where two do, the plan
\* writes the unit twice and the profile is never in place.
OwnSlices(profile) ==
  LET classes == collect_classes(profile) IN
  \A c, d \in DOMAIN classes : SliceOf(classes, c) = SliceOf(classes, d) => c = d

\* Once a profile is applied diff has nothing to report, whatever was applied
\* and rolled back before: the units hold all of it and nothing older.
DiffIsEmptyAfterApply ==
  Settled /\ OwnSlices(applied.profile) => diff(state.active) = [code |-> 0, changes |-> {}]

\* doctor is content with the installed slices only if every class of the
\* active profile has its units, at every moment: in the middle of another
\* apply or rollback, after one that was killed, and when a rollback overlaps
\* an apply.  What it goes by are the managed paths, not the profile.
DoctorFindsMissingSlices ==
  ActiveAsApplied /\ doctor(TRUE, FALSE, TRUE) = 0 =>
    \A class \in DOMAIN collect_classes(applied.profile), mode \in Modes :
      Loadable(mode, resolve_class_slice(applied.profile, class))

\* While the last apply is as it was left, the slices that status lists are
\* those that run uses for the classes of the active profile, as far as they
\* have a name of resguard's own, and each has a unit for either manager.
StatusAgreesWithRun ==
  Settled =>
    /\ status(Modes, TRUE).class_slices =
         {slice \in {resolve_class_slice(applied.profile, class) :
                       class \in DOMAIN collect_classes(applied.profile)} :
            IsPrefix(<<"resguard", "-">>, slice)}
    /\ \A slice \in status(Modes, TRUE).class_slices, mode \in Modes : Loadable(mode, slice)

\* Every row of top is about the slice that run uses for its class, and the
\* live limits in it are the configured ones, from either manager.
TopRowsAreLive ==
  Settled /\ OwnSlices(applied.profile) =>
    \A managers \in (SUBSET Modes) \ {{}} : \A row \in collect_top_snapshot(managers).rows :
      /\ row.slice = resolve_class_slice(applied.profile, row.class)
      /\ row.live = row.configured

\* The automatic profile in the store is valid, and its sizes fit the machine
\* and each other (build_auto_profile; LimitsFit says how).
AutoProfilesFit ==
  \A n \in Names :
    Whole(profiles[n]) /\ profiles[n] \notin HandWritten =>
      profile_validate(n).code = 0 /\ LimitsFit(profiles[n], machine.total_mem)

\* In every unit MemoryHigh is at most MemoryMax: an invalid profile never gets
\* that far, whenever it is written (validate_profile before the plan).
InstalledLimitsAreOrdered ==
  \A u \in DOMAIN units :
    units[u].memory_high # NoSize /\ units[u].memory_max # NoSize =>
      parse_size_to_bytes(units[u].memory_high) <= parse_size_to_bytes(units[u].memory_max)

\* The classes that run detects without being told one.
DetectedClasses ==
  {autodetect_class(c.run.exec) : c \in {d \in UNION {Commands[p] : p \in Processes} : d.op = "run"}} \ {NoClass}

\* An apply that finds all units in place does not make its profile the active
\* one.  Another one that stays active is then as it was applied, with classes.
ActiveIsSound(name) ==
  Whole(state) /\ state.active \notin {Nobody, name} =>
    profiles[state.active] = applied.profile /\ ~applied.no_classes

\* What one is told to do first suffices: after a setup that applied, was alone
\* and reports success, every class of the automatic profile and every command
\* line whose class is detected can be run, if no command before was cut short
\* and no other profile stays active that was edited or applied in part.
SetupReadies ==
  [][ \A p \in Processes, name \in Names :
        ( /\ job[p].op = "setup" /\ job[p].name = name /\ job[p].apply /\ alone[p] /\ ~broken
          /\ pc'[p] = "idle" /\ job'[p].code = 0 /\ ActiveIsSound(name)' )
        => \A class \in AutoClasses \cup DetectedClasses, mode \in Modes : RunsNow(mode, class)' ]_vars

FailedRescue(p) ==
  /\ job[p].op = "rescue" /\ job[p].fallback /\ alone[p] /\ faults' = 0
  /\ pc'[p] = "idle" /\ job'[p].code = 1

\* rescue --no-check, alone and with no failing call, starts its shell unless
\* state.json or the active profile cannot be read.
RescueFallsBack ==
  [][\A p \in Processes : FailedRescue(p) => SliceNow(job[p].class) = NoName]_vars

\* docs/cli.md:282: --no-check falls back to system.slice when the class or the
\* slice cannot be resolved.
RescueAlwaysFallsBack == [][\A p \in Processes : ~FailedRescue(p)]_vars
=============================================================================
