------------------------------ MODULE Reports -------------------------------
(***************************************************************************)
(* What resguard reports of the state that Launch changes: profile         *)
(* validate, diff, status, doctor, top and tui.  They write nothing, so    *)
(* that each is an operator over the state; one that reads while another   *)
(* process writes may see a mixture, which is left out.                    *)
(*                                                                         *)
(* What is reported beside resguard's own state (pressure, the programs    *)
(* in a slice, the memory in use) is left out, but for whether it could    *)
(* be read.                                                                *)
(***************************************************************************)
EXTENDS Launch

Code(partial) == IF partial THEN 1 ELSE 0

\* profile validate and diff: 1 no profile, 2 an invalid one.
profile_validate(name) ==
  IF ~Whole(profiles[name]) THEN [code |-> 1, errors |-> {}]
  ELSE LET errors == validate_profile(profiles[name])
       IN  [code |-> IF errors = {} THEN 0 ELSE 2, errors |-> errors]

\* The units that an apply with the default options would change.
diff(name) ==
  LET checked == profile_validate(name)
      plan == build_apply_plan(profiles[name], FALSE)
  IN  IF checked.code # 0 THEN [code |-> checked.code, changes |-> {}]
      ELSE [code |-> 0, changes |-> {plan[i][1] : i \in {j \in DOMAIN plan : ~InPlace(plan[j])}}]
-----------------------------------------------------------------------------
(* status and doctor go by the managed paths of state.json.                *)

\* A state that cannot be read counts as the default one.
KnownState == IF Whole(state) THEN state ELSE DefaultState
managed_paths == {KnownState.saved[i][1] : i \in DOMAIN KnownState.saved}

EndsInSlice(unit) == IsSuffix(<<".", "slice">>, unit[2])

\* By the name of the file, whatever manager it is for.
collect_class_slices_from_state ==
  {u[2] : u \in {v \in managed_paths : IsPrefix(<<"resguard", "-">>, v[2]) /\ EndsInSlice(v)}}

\* The limits of a unit as systemctl show gives them; one that has no file is
\* shown as well, without limits.
NotSet == 0
NoLimits == [memory_high |-> NoSize, memory_max |-> NoSize, cpu_weight |-> NotSet]
systemctl_show_props(mode, slice) ==
  IF <<mode, slice>> \notin DOMAIN units THEN NoLimits
  ELSE LET unit == units[<<mode, slice>>] IN
       [memory_high |-> unit.memory_high, memory_max |-> unit.memory_max, cpu_weight |-> unit.more[2]]

\* managers: those that answer; signals_ok: oomd and the pressure can be read.
status(managers, signals_ok) ==
  [ active |-> KnownState.active,
    class_slices |-> collect_class_slices_from_state,
    code |-> Code(~Whole(state) \/ managers # Modes \/ ~signals_ok) ]

\* Mutant: one slice that is there suffices.
some_slice_installed(slices) == \E unit \in slices : unit \in DOMAIN units

class_slices_installed(slices) == slices # {} /\ slices \subseteq DOMAIN units

\* system_ok: systemd, cgroups and oomd; desktop_partial: desktop doctor.
doctor(system_ok, desktop_partial, in_sudo) ==
  Code(\/ ~system_ok \/ state = Absent
       \/ ~class_slices_installed({u \in managed_paths : EndsInSlice(u)})
       \/ desktop_partial \/ ~in_sudo)
-----------------------------------------------------------------------------
(* top and tui go by the classes of the active profile.                    *)

\* No row without an active profile; one that cannot be loaded is an error of
\* top, and no row of tui.
load_active_profile ==
  IF KnownState.active = Nobody THEN Absent ELSE profiles[KnownState.active]

\* Mutant: the slice is named by the class.
slice_of_class(class, spec) == default_slice(class)

class_slice_name(class, spec) ==
  IF spec.slice_name = NoName THEN default_slice(class) ELSE spec.slice_name

\* The user manager is asked first.
Source(managers) ==
  IF "user" \in managers THEN "user" ELSE IF "system" \in managers THEN "system" ELSE "-"

top_row(class, spec, managers) ==
  LET slice == class_slice_name(class, spec) source == Source(managers) IN
  [ class |-> class, slice |-> slice, source |-> source,
    configured |-> [memory_high |-> spec.memory_high, memory_max |-> spec.memory_max,
                    cpu_weight |-> spec.cpu_weight],
    live |-> IF source = "-" THEN NoLimits ELSE systemctl_show_props(source, slice) ]

\* Only the classes below classes have a row.
build_class_rows(managers) ==
  IF ~Whole(load_active_profile) THEN {}
  ELSE LET classes == load_active_profile.classes IN
       {top_row(class, classes[class], managers) : class \in DOMAIN classes}

collect_top_snapshot(managers) ==
  LET rows == build_class_rows(managers) IN
  [ rows |-> rows, error |-> KnownState.active # Nobody /\ ~Whole(load_active_profile),
    partial |-> managers = {} /\ rows # {} ]
=============================================================================
