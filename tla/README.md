# Resguard in TLA+

Resguard keeps a Linux desktop usable under memory, CPU and I/O pressure. It
writes systemd slice units from a profile (`apply`, `rollback`), starts
programs inside those slices (`run`, `rescue`, desktop wrappers), tightens
`user.slice` in an emergency (`panic`), and runs a daemon (`resguardd`) that
reads `/proc/pressure` and lowers the limits of class slices for a while.
This directory holds models of the parts where order, failure and concurrency
decide whether a user gets the machine back as it was.

## The system

| Part | State it keeps | Operations | What is hard |
| --- | --- | --- | --- |
| daemon policy (`resguard-policy/autopilot.rs`) | phase, ticks of the last trigger and revert | `decide_autopilot_actions` | windows over arbitrary sequences of readings |
| adaptive limits (`resguard-runtime/adaptive.rs`, `systemd.rs`) | the limits systemd holds | plan, apply, revert, a `systemctl` call each | a call fails between others; text read back and set again |
| `resguardd` (`daemon_service.rs`, `resguard-daemon/main.rs`) | tick, policy, `pending_revert`, ledger | tick, once mode, signal, restart | the policy moves before the calls succeed; all memory is lost on a stop |
| apply and rollback (`apply_service.rs`, `resguard-state`, planner, executor, `handle_rollback`) | unit files, backups, manifests, `state.json`, what the manager has loaded | apply, rollback `--last`/`--to` | no lock, no journal: a kill or failure anywhere, two processes at once |
| panic (`panic_service.rs`) | limits of `user.slice`, the limits before in memory | tighten, sleep, restore | overlap, a setting between two reads, a kill during the sleep |
| desktop wrap/unwrap (`commands/desktop.rs`, `legacy.rs`) | wrapper files, override backups, mapping file | wrap, unwrap, doctor | read, change, write without lock; backups of wrappers; wrappers are entries themselves |
| discovery (`resguard-discovery`) | none | resolve a desktop id, index programs | several rules, ambiguity, shadowing |
| suggest (`suggest_service.rs`, `classification.rs`, `confidence.rs`) | none of its own | score, plan, wrap | an id resolved twice by two rules; repeated runs |
| automatic profile, setup (`autoprofile.rs`, `setup_service.rs`) | the profile it writes | size reserve, caps, init, apply | rounding on small machines; a profile overwritten in place |
| profile validation and store (`validation.rs`, `resguard-config`) | profile files | load, save, validate | torn files; relations between limits in different units |
| run, rescue (`run_service.rs`, `rescue_service.rs`) | none | resolve class and slice, check, start | state, profile and slices change between the steps; which errors fall back |
| reports (`doctor_service.rs`, `top_service.rs`, `tui_service.rs`, status and diff in `legacy.rs`) | none | compare state, profile and units | four resolutions of a class in four places |
| tree, metrics, monitor, observation, command line | none | parsing and printing | text only |

How they interact: `setup` builds a profile and calls apply; apply writes units
and `state.json`; the daemon, `run` and `suggest` read the active profile from
`state.json` (the daemon every tick); `suggest` carries out its plan with the
same function as `desktop wrap`, and the wrappers it leaves are found by the
next discovery; the daemon, panic, an operator and apply all change limits of
slices, and none of them knows of the others.

What makes each part correct: limits that a tool lowered come back, and to the
values they had; nothing outside the classes is touched; reductions do not
follow each other faster than the cooldown; a command either takes effect or
says that it did not and leaves nothing behind; no file a user had is lost; the
state file never points at a backup that cannot be used; a wrapper starts what
it was made for; the class of a program is run in the slice that apply wrote
for it; what a report says is so.

## Modules

**Daemon.** `Autopilot` is the policy as operators, one per outcome
(`DecideInRevertWindow`, `DecideRevert`, `DecideTrigger`). `AdaptiveLimits`
describes the arithmetic of limits: percentages of the profile's sizes, the
text `systemctl show` prints and `set-property` reads, the planned change and
its revert step. Texts are records of a number and a unit, because the daemon
writes `5G` and reads bytes back: a limit that was set is never "unchanged".
`Daemon` is the process: `Start`, one observe-and-decide step per tick
(`TickWithoutLoading`, `TickWithoutProfile`, `TickWithoutWork`, `TickReverts`,
`TickReduces`), then every `systemctl` call as a step (`PlanRequest`,
`ApplyChange`, `RevertChange`, ...), the ledger record, and `CallFails`,
`Sigint`, `ExitOnFlag` and `Kill`. Around it pressure changes, the active profile
switches and an operator sets limits. `ReductionGate` is the abstract
specification of the policy seen from outside: when a reduction and a revert
may happen. `DaemonProperties` states the properties, `MCDaemon` the small
instances, `DaemonProofs` the theorems.

**Apply and rollback.** `Transaction` has the unit files, the backup copies,
the manifests, `state.json` and what the system manager read at its last
`daemon-reload`, and any number of processes. `pc[p]` names the next call of a
process: planning, `begin_transaction`, `ensure_dir`, `snapshot_before_write`,
`write_file`, `daemon_reload`, `write_backup_manifest`, `write_state`, and for a
rollback, or the undo of a failed apply, `read_backup_manifest`,
`RestorePath`, `RemovePath`, `ReloadRolledBack`, `ResetState`. Each may fail
(`StepFails` where the code undoes, `CommandFails` where it gives up) and the
process may be killed before or inside it (`Crash`). `AtomicApply` is the abstract
specification: commands are atomic, exit 4 leaves nothing, a stopped command
leaves per file the old content, one the command wrote, or a torn one; a
backup with a manifest restores what its command found.
`TransactionProperties` holds the properties and the refinement mapping: while
a command runs, the observer sees the files it found; afterwards the files on
disk, and of a manifest the values its rollback would put back.
`TransactionProofs` has the theorems about `Transaction`, `AtomicApplyProofs`
those about commands one after the other, the refinement among them.

**Panic.** `Panic` is `panic_mode` for several panics: `ReadMax`, `ReadHigh`,
`Tighten`, `Restore`, one `systemctl` call each, with `Refuse` for the checks
before, `CallFails` and `Kill`, and `Tune` for an operator. Ghost variables
remember what a panic started from, whether somebody else has set limits since,
whether the panics were properly nested, whose reductions are in force
(`owner`) and whose were in force when a panic read the limits (`held`): what it
restores brings those back. Its properties are at its end; `MCPanic` is
the instance and `PanicProofs` has the theorems.

**Desktop.** `Discovery` and `Suggest` are operators: resolution of an id
(`resolve_desktop_id`), the index from programs to ids, identities of scopes,
classification, score and plan. Texts are sequences of words, with separators
as words of their own, so that prefixes, suffixes and parts mean what they mean
in the code. `Desktop` is the process: a command resolves and checks
(`ResolveWrap`), then `BackUp`, `Copy` (or `NothingToCopy`), `Cut`, `Fill`, `LoadForWrap`,
`CutMapping`, `FillMapping`; an unwrap `LoadForUnwrap`, `RestoreCut`, `Restore`
or `RemoveFile`. Files are written as the code does, by cutting and filling,
so that other processes meet torn ones. A backup may come in the second of an
earlier one, and then overwrites it; the ghost `clashed` remembers that. A suggest plans at once and wraps item by
item through the same actions. `run_desktop_doctor_checks` is desktop doctor.
`DesktopProperties` has the properties and what the theorems assume of the
files, entries and scopes at first, `MCDesktop` the instance, for which TLC
evaluates these assumptions too (`TheoremsApply`). `DesktopProofs` has the
theorems about files, backups and mapping, `SuggestProofs` those about what is
found: types, resolution, and what suggest plans. The words that texts are made of
are a constant, `Words`: in the instance it is `STRING`, but that a given literal is
a string is nothing the provers can show, whereas `DesktopAssumption` says
that the words resguard adds are among `Words`.

`SuggestWrapsWhatItFound` has a condition: the suggest is alone, or the entry it
planned is one of the system. If the entry is only a file of the user, another
process may remove it between the plan and the wrap, and the id, resolved once
more, may then match a part of some other id; that entry is wrapped instead.

**Profiles, slices and programs.** `AutoProfile` is the arithmetic of the
automatic profile, `Validation` is `validate_profile` as the set of paths that
are wrong, `AutoProfileProperties` says how the sizes fit and
`AutoProfileProofs` proves it. `Launch` composes them with the store, the unit files and
`state.json`: setup writes the profile (`CutProfile`, `FillProfile`) and
applies (`LoadForApply`, `WriteUnit`, `Record`), rollback takes back
(`ReadBackup`, `Undo`, `Reset`), run and rescue resolve, load, check and start
(`Resolve`, `ReadState`, `LoadForRun`, `Check`, `Launch`), with the fallback of rescue in
`RunFails`. Of a transaction it keeps what `Transaction` shows it to keep, the
content that was there before. `Reports` gives what profile validate, diff, status,
doctor, top and tui say about a state of `Launch`. `LaunchProperties` states
the properties of both, `MCLaunch` the instance, `LaunchProofs` the theorems.

## Runs

Daemon instances use four slices (browsers, heavy, rescue, and work, the heavy
slice of another profile), the cooldown 3 and the
revert window 2 instead of the shipped numbers, and sizes in small units with
`MiB = 4` and `GiB = 64`: comparisons are the same, and a rounding to whole
GiB or MiB still loses something.

| Run | Checks | Shows |
| --- | --- | --- |
| `daemon_policy` | `TypeOK`, `ThrashFree`, `RevertRestoresBase`, `SettlesWhenCalm` | every reading at or below its threshold until tick 8, an operator sets limits while the daemon holds others; under fairness and with profiles that have both classes, once it is calm the daemon comes to rest with nothing pending and what its last reduction took given back |
| `daemon_faults` | `PolicyGate`, `AppliedIsPending`, `ImplementsGate`, `RevertRestoresBase`, `OtherSlicesUntouched` | a failing call, a stop and a switch to a profile with another heavy slice, or to none, loop and once mode, seven ticks |
| `daemon_prior_limits` | violates `PriorLimitsReturn` | a second reduction forgets the base of the first |
| `daemon_stranded` | violates `PendingIsReverted` | pressure nobody can act on at the end of a cooldown strands the limits |
| `apply_one` | `TypeOK`, `OriginalsAreKept`, `CommandsAreAtomic`, `LoadedWhenDone` | three commands one after the other, also of a profile with two classes on one slice file, any call failing, a kill anywhere, but no backup copy that fails half way |
| `apply_two` | `StateNamesManifest`, `ManifestIsComplete`, `OriginalsAreKept` | three commands of two processes, a failing write or restore, a kill, but no backup copy that fails half way and no two applies with one id |
| `apply_torn_backup` | violates `FailedApplyRestores` | a torn backup copy is restored over the intact file |
| `panic` | `TypeOK`, `UndisturbedPanicRestores`, `NestedPanicsRestore`, `ReductionIsReported` | three panics, an operator, a failing call, a kill; the last two properties while panics are nested |
| `desktop` | `TypeOK`, `WrapsKeepOriginals`, `UnwrapUndoesWrap`, `UnforcedKeepsFiles`, `MappingTellsTruth`, `WrappersKeepResolution`, `SuggestWrapsWhatItFound`, `SuggestConverges` | two processes wrap, override, unwrap and suggest, three commands, a failing call or a kill |
| `desktop_unmanaged` | violates `UnmanagedFilesSurvive` | unwrap --override of an id that was never wrapped so deletes the user's own entry |
| `launch` | `TypeOK`, `ContainedRuns`, `AppliedClassesRun`, `SetupReadies`, `FallbackOnlyWhenMissing`, `RescueFallsBack`, `AutoProfilesFit`, `InstalledLimitsAreOrdered`, `DiffIsEmptyAfterApply`, `DoctorFindsMissingSlices`, `StatusAgreesWithRun`, `TopRowsAreLive` | four commands of two processes, or three and an edit, a failing call or a kill |
| `launch_fallback` | violates `RescueAlwaysFallsBack` | rescue --no-check without `state.json` starts nothing |

**Why the bounds are enough.** A reduce, cool down, revert, wait cycle takes six
ticks with windows 3 and 2, so seven ticks hold one whole cycle with a
fault in any of its calls, and fourteen ticks a reduction after a revert and
the time to settle. One failing call and one
stop suffice to reach each error path of a tick; a second would start from a
state the first has already shown. For apply, three commands are enough for
apply, apply, rollback and for apply, killed apply, apply; one profile
has a class of its own and the other two classes that share its slice file, so
that a plan writes one path twice. `apply_two` plans the drop-ins only, which
both profiles write, so that every write of one process can fall between the
snapshot and the write of the other.

Three panics are what it takes for two to be nested in one or to overlap in a
chain. The desktop has two snaps, a flatpak, an entry that the user shadows by a file of
his own, a program whose name is also that of a snap, and an entry
`snap.pycharm.ide`, whose wrappers `snap_app_from_desktop_id` takes for
that application: each rule of the resolution decides somewhere, and each of the commands can meet the
file that another has cut. Three commands hold wrap, override, unwrap and
suggest, suggest next to an unwrap. Four commands of `Launch` hold setup, apply of another
profile, rollback, setup, after which everything is in place but no profile is active; setup may
write either profile of the store, so that the one it applies need not be the
active one. The profile of an administrator there has a class below `classes` and `slices`
with different slices, one below `slices` only, and names that are not
resguard's; an edit may replace it by one that has its limits in the wrong order but in
different units.
The machine has 700 MiB, where rounding to GiB leaves nothing; the theorem
`AutoLimitsFit` is about all machines.

Three failures have no run of their own; TLC finds each of them in a few steps when the
condition that excepts it is dropped, or when the opposite is stated as an invariant.
A signal between a reduction and its revert ends the daemon and leaves the limits
reduced (`main.rs:229`; `SECURITY.md:113` promises an early revert). Two panics that
overlap like links of a chain both succeed and leave the reduction of the first
(`panic_service.rs:55`; the condition is `nested`). The second of two forced overrides of
one file within a second backs up the wrapper over the user's own file
(`legacy.rs:1230`; the condition is `~clashed`).

**Fairness.** Only `daemon_policy` and `daemon_stranded` assume any: weak
fairness of the process as a whole (start, tick, call, record). The main loop
sleeps a bounded time and every call returns; `Restart=on-failure` brings a killed
daemon back. Pressure, profile, operator and failures have no fairness, and
are bounded by a horizon in the guards, which stands for "eventually calm". The commands
of the other models run to their end or do not; nothing waits for them.

**Deadlock** is not checked: budgets run out, and a daemon that was stopped or
a machine on which nobody types a command is a legal end. No command waits for
another one: there is no lock that could be held.

## What is proved

`DaemonProofs` begins with the arithmetic: `ReductionReduces` (a percentage of a limit
is not above it), for all sizes and all units that satisfy `UnitAssumption`.

`AutoProfileProofs`: `AutoLimitsFit`, for every amount of memory and number of
cores. Each rounding gets a lemma with the bounds and the divisibility it
leaves (`ReserveBounds`, `UserMaxBounds`, `PrintingRoundsDown`, ...); the sizes follow in the order in which
`build_auto_profile` computes them, and the formatted text of a size reads back as the
size because it is whole in GiB or below one.

`DaemonProofs`, for every set of slices, profiles, readings and budgets and
all window lengths the assumptions allow:

- `TypeCorrect`: `Spec => []TypeOK`. `TypeOK` is inductive; one step per action.
- `GateHolds`: `Spec => []PolicyGate`. `PolicyGate` ties the phase to the two
  timestamps and the tick; it is the inductive strengthening from which
  the next two follow. It rests on `DecisionCases`, which lists the five ways
  the policy can decide and what each does to the policy state.
- `NoThrashing`: `Spec => ThrashFree`, an action property: a tick that reduces
  decided to trigger, and a trigger is decided only with the gate open.
- `GateImplemented`: `Spec => ImplementsGate`, the refinement of
  `ReductionGate`: a trigger is `Reduce`, a revert is `Revert`, a stop or
  start is `Restart`, every other step leaves the gate alone or lets time pass.
- `OthersUntouched`: `Spec => OtherSlicesUntouched`. Its invariant
  `AdaptiveOnly` says that every request, change and revert step in any
  buffer of the daemon is for an adaptive slice of some profile; with `RevertInv` (below) a
  revert touches only slices of the pending plan, whichever profile is active by then.

`TransactionProofs`, for every number of processes, all profiles, commands and
budgets, and a failure or kill at any call:

- `TypeCorrect`: `Spec => []TypeOK`. `TypeOK` is not inductive: that an apply has
  actions left, and an id that was handed out, follows from `InPlace`, which
  says where a process is in its command; `TypeInv` is both.
- `StateNamesManifestHolds`, `ManifestIsCompleteHolds`: from `Inv`, which adds
  that two running applies never share an id (`OwnIds`), that ids not yet handed
  out have nothing on disk (`FreshIds`), and that what a transaction has recorded
  is what it has on disk, with no whole manifest before the last call
  (`Records`). Nobody else can therefore change a manifest the state names.
- `OriginalsAreKeptHolds`: from `KeptInv`, which adds that every file some
  process may still write, restore or remove has its original in a backup,
  unless it is untouched. The model gives every apply an id of its own, and the
  theorem assumes `"snapshot" \notin TearingCalls`: that a
  failing backup copy leaves no torn file. Both are needed: the run
  `apply_torn_backup` shows the rollback of a torn copy, and the mutant
  `begin_coarse_transaction` what a shared id does.

The steps are classified once, by what they write (`DiskStep`) and by what they
make of the transaction of their process (`TxStep`); the invariants are proved
from the classes.

`DaemonProofs` also has what the daemon holds between ticks, under the same
assumptions:

- `AppliedIsPendingHolds`, and `RecordTellsChangesHolds` (a ledger record names exactly
  what its tick has changed; it has no run): from `TickInv`, which says
  that a tick is a reduction or a revert and never both, that every slice it
  touches is in its lists, and that its revert plan covers what it has applied.
- `RevertRestoresBaseHolds`: from `RevertInv`. Slices an operator has set apart,
  a pending step carries the limits from before the reduction, and during a
  revert each step is ahead or its slice has its limits back. It rests on
  `ReadRestores`.

`PanicProofs`, for any set of panics, any limits, any bound on failures and settings:
`TypeCorrect`, `ReductionIsReportedHolds`, `NestedPanicsRestoreHolds` and
`UndisturbedPanicRestoresHolds`. The second and the third speak of nested panics. They must:
when a panic starts while another sleeps and wakes up after it, it restores the
reduction it has read, and both report success. The parts of the invariant:

- `UndisturbedReads`: a panic that nobody disturbed has read what was there.
- `OwnerHasReduced`: a reduction in force, or one that a panic has read and will
  bring back, is of a panic that sleeps or has ended.
- `OwnerHasReported`: while panics are nested, none of those has ended
  with success after a promise to restore. That a wake-up brings back no such reduction needs
  `HeldIsBelow` (a panic has read only reductions of those below it on the
  stack, who wake up after it), `ReadersAreOnTop` and `StackIsActive` (the ghost stack holds each panic
  under way once).
- `BottomHasOriginal`, the step that testing would not find: while panics are nested the one at
  the bottom of the stack remembers the original limits, even if it read them call by call.

`AtomicApplyProofs`, for one process and all profiles, requests, files and failures:

- `CommandsAreAtomicHolds`: `Spec => CommandsAreAtomic`, the refinement of
  `AtomicApply`. Exit 4 leaves nothing behind only if no backup copy fails half way. Until a command ends, its steps are stutters (`GoingOnIsQuiet`);
  each end is an action of the abstract specification: applied
  (`AppliedEnds`), undone with exit 4 (`UndoneEnds`), rolled back
  (`ResetEnds`), stopped half-way (`StopKeepsShown`, `ApplyStops`,
  `RollbackStops`). The invariant `AloneInv` says how far along its plan a
  command is and what each file is by then; `CreatedAreManaged` that a manifest
  creates only paths of resguard. Like `OriginalsAreKeptHolds` it assumes
  `"snapshot" \notin TearingCalls`. With two processes the refinement is false:
  two applies do mix their files, there is no lock.
- `LoadedWhenDoneHolds`: from `LoadInv`, that either the last thing a command
  still has to do is a reload or what is on disk is loaded. It leaves out
  an apply that finds nothing to change: after a command that was killed before
  its reload, such an apply succeeds and does not reload either (`apply_service.rs:157`).

`DesktopProofs`, for any set of entries, commands and processes. It assumes
`PlainFiles`: the files the user has at first have neither the name nor the
program of a wrapper, and parse.

- `WrapsKeepOriginalsHolds`: from `SafeInv`. A place is safe if what stands
  there is no content of the user or has a copy. Places of wrappers are safe, a process
  that cuts or fills has a safe place, and no step makes a safe place
  unsafe (`Grows`). The argument is per step and needs no assumption
  on who else is at work, so it covers overlapping wraps and suggests, until a file
  has two backups in one second (`clashed`): the second may replace the only
  copy.
- `UnforcedKeepsFilesHolds`: from `AloneInv`, what a command that is alone
  can rely on since it began.
- `UnwrapUndoesWrapHolds`: from `TripsInv`, which follows a wrap, what lies between
  and the unwrap: the files differ from those at the start at one place
  (`ChangedAt`), and the backup that the mapping names has what was there.
- `MappingTellsTruthHolds`: from `TellsInv`. As long as no call has failed and
  no two commands were at work at once, every entry is of the wrapper that
  its key names and that wrapper is there, but for the one file that is being written
  (`ToldBut`); the mapping is torn only while it is filled. `WrapperIdsDiffer` shows
  that two keys never name one wrapper, `WrapperIsValid` that desktop doctor accepts
  what wrap writes. It assumes `WrappersAreNotUnwrapped`: no `unwrap --override`
  is given the id of a wrapper. The hypothesis is needed: such a command
  finds no entry of its own, removes the file of that id all the same, and the
  wrapper's entry stays in the mapping without its file (a wrap and this
  unwrap suffice).

`LaunchProofs`, for any number of processes, any machine, any profiles an administrator
may write and any bound on failures, kills and edits:

- `TypeCorrect`, `InstalledLimitsAreOrderedHolds`, `AutoProfilesFitHolds` and
  `DoctorFindsMissingSlicesHolds` from `TypeInv`, that holds whoever overlaps. Every plan in a job
  comes from a profile that was validated, and its writes are the front of that
  plan (`OnPlan`); state.json names what the recorded plan wrote (`AsRecorded`).
  `AutoProfilesFitHolds` uses `AutoLimitsFit`: every profile that setup writes
  also passes `validate_profile`.
- `ContainedRunsHolds`: the property is inductive with `TypeInv`. It covers every
  rollback and failed apply but one that falls between the check of a slice and the
  start (`undone`): then the program starts in a slice without limits, and nothing notices.
- `AppliedClassesRunHolds`, `DiffIsEmptyAfterApplyHolds`,
  `StatusAgreesWithRunHolds`, `TopRowsAreLiveHolds` from `PlaceInv`: as long as no command was cut
  short, a plan's front is in place while it is carried out (`InForce`) and
  all of it after it was recorded. For status this says that each slice it lists has
  its units and is the one run finds. `ResolvedAsCollected` shows that the
  resolution of a class in run and that of the planner agree; status, top and
  diff are then compared with the planner's.
- `FallbackOnlyWhenMissingHolds`, `RescueFallsBackHolds` from `RescueInv`: what a rescue
  that is alone has read call by call is how things stand, and each of its errors
  leads to the fallback once.
- `SetupReadiesHolds` from `SetupInv`: what a setup that is alone wrote is what it
  loads and applies; or, when every unit is in place, that they were put there by
  an apply (`FirstApply`). It assumes `RecordsAreWhole`, that a record of
  state.json is none of the marks for a missing and a torn file.

`SetupReadies` has a condition (`ActiveIsSound`) for this reason: an apply that finds
all units in place returns before it writes state.json, and another profile
stays the active one. If that one was edited since it was applied, or
applied with `--no-classes`, run resolves classes with it, and setup's success
says nothing about them.

`SuggestProofs`, for any entries, scopes, rules, commands and processes, under
`PlainFiles`. Two ideas carry it. One is a set of
*good* files that all writing stays in: `Closed(Good)` says that it has the
files and entries there were at first, torn files, and with a file every wrapper of it;
`GoodNext` then shows, once for all such sets, that every file, backup and source is good, whatever
overlaps, fails or is restored. Each theorem picks its set. The other is
`SuggestSteps`: what a suggest does is to take an item, write it, end it or
exit.

- `TypeOKHolds`: with `TypedFiles`, the files whose ids, names and programs are texts.
- `SuggestWrapsWhatItFoundHolds`: from `FoundInv`. The ids in the queue are of
  entries that were there when the suggest began (`PlannedAreEntries`), which stay
  while it is alone (`Stays`); the id of an entry resolves to that entry, an entry of
  a better directory with the same id, or the snap application of that name
  (`ResolvesToIt`).
- `WrappersKeepResolutionHolds`: with `Fits`, the files whose id has the word
  resguard only if they are torn or wrappers. `WrapperIsNoHit` goes through the rules of
  `resolve_desktop_id` for a wrapper: its id is none that is asked for, its name
  ends in resguard's own words, its program is resguard, and its id is that of a
  snap only for an entry of that snap. `StrongStays`
  concludes that with all wrappers removed every rule finds the same. It assumes
  `PlainIds`: what is asked for, and the ids of the user's files, do not have
  the word resguard. The property itself excepts what asks for an entry
  `snap.<package>.<application>` otherwise than by its own id: the wrapper of
  `snap.a.b` counts as an application `b` as well (`snap_app_from_desktop_id`), so
  that a request for `b` becomes ambiguous once there is one.
- `SuggestConvergesHolds`: from `OnPlan`, which follows a suggest that is alone and has had no
  fault. (1) No scope has a suggestion that it did not have when the plan was
  made, for a wrapper brings no new key: it has the key of resguard, that of
  no scope, and the snap of its source (`WrapperKeys`, `WrapLaunchesSameSnap`),
  whose scopes already found the source; one more id for a scope can only make its
  suggestion ambiguous, and a secondary id stays secondary in the wrapper
  (`WrapperFindsNoMore`, `PlanShrinks`). (2) What would still be written of
  its plan is in its queue: a step adds a wrapper only, which changes neither the
  resolution of the other items (`ResolutionStays`) nor takes a file away, and an item
  it is through with would be refused now, since its wrapper is there (`EndsOnPlan`).
  (3) Nothing that is planned is a wrapper (`PlansNoWrapper`), or (2) would fail
  for it. When the queue is empty, nothing is left to write. Besides `PlainIds` it assumes
  `NoSnapIds`, that no id begins with `snap` (such a wrapper could be taken for
  a snap of its own, and make an item of the plan ambiguous), and
  `ForeignScopes`, that no observed scope is of resguard itself: a scope with
  the program resguard has the key that all wrappers have, so that the first
  wrapper would be its only entry and suggest could wrap it. It also assumes
  `SnapsHaveEntries`, that a snap that a file of the user launches has a system
  entry (`Rooted` keeps this for wrappers): otherwise the user may remove
  that file and keep its wrapper, which is then the snap's only entry.

**Only model-checked.** `SettlesWhenCalm` of `Daemon`: liveness under fairness
is outside what the proof system handles. Every other property of a passing
run is stated by a theorem. The violations that five runs show
are counterexamples and need no proof. What the theorems about the desktop
assume beyond `DesktopAssumption`, TLC evaluates on the instance
(`TheoremsApply`), but for `WrappersAreNotUnwrapped`, which quantifies over all
texts, and `NoSnapIds`: the instance has an id that begins with `snap`, and
`SuggestConverges` holds there all the same.

## What the models leave out

- Wording, logs, colours, JSON output, the poll interval.
- `--root` other than `/` and missing privileges: then nothing is reloaded, or
  nothing happens. Dry runs change nothing.
- Rendering of units: a drop-in's content is one value; `--no-oomd` and
  `--no-cpu` give other contents, `--no-classes` is modelled.
- The user managers' reload is best effort and decides nothing.
- Backup ids are milliseconds of the wall clock; the model hands out distinct
  ids. If two applies shared one, `OriginalsAreKept` would fail; the mutant
  `begin_coarse_transaction` shows how.
- `planned_write_changes` reads all files in one step, although other
  processes may write between the reads; its answer only decides whether the
  apply goes on. Paths of a rollback are restored in any order, the code takes
  them sorted.
- Saturation of 64-bit products in `scaled_value` (sizes above 2^64 / 100).
- `docs/cli.md:213` gives exit 5 for a failed rollback; `handle_rollback`
  returns its error and the program ends with exit 1, as modelled.
- Panic: `systemctl set-property` sets both limits or none; the factors 0.5
  and 0.6 are computed in integers.
- Desktop: directories that cannot be created, and the rendering of a wrapper but for
  name and program. A file that is unlinked while it is being copied is
  taken to make the copy fail. Matching ignores case in the code; texts of the
  model are in lower case.
- Discovery reads the entries and resolves in one step.
- Launch: the privileges of setup, apply and rollback, the reload of the
  managers (a unit counts as soon as it is written; `LoadedWhenDone` is about
  the reload), the transaction's own files, torn backups (`apply_torn_backup`)
  and the program after its start.
- `docs/cli.md` says of `desktop wrap` that an id is first resolved exactly;
  the code tries the canonical snap name first (`desktop.rs:158`), as modelled.
- `docs/desktop.md:107` has a wrap of what is already wrapped update it
  idempotently; the code refuses an existing wrapper without `--force`
  (`desktop.rs:47`), as modelled.
- Reports: each reads in one step what it takes the program several calls to
  read. `systemctl show` succeeds for a slice without a unit, so that the
  warning of top about a slice that is not visible appears only when a manager
  does not answer. Two classes with one slice are never in place for `diff`
  and `apply`, since each writes the unit for itself; `OwnSlices` excepts them.
- Not modelled: tree, metrics and monitor, which print what systemd and
  `/proc` say at the moment; the reading of `/proc` (`resguard-runtime`
  pressure, meminfo, cgroup), of which the daemon's model takes the result as an
  input; argument parsing and dispatch; the parsing of desktop files and the
  quoting of Exec lines, text to text without state; the subcommands of `profile`
  that are stubs; copies of the planner and of the systemd helpers that no
  program uses; packaging.

## Plan

What is left:

1. `SettlesWhenCalm` beyond its instance: the safety part of the argument, a
   bound on the ticks until a revert in terms of the windows, could be proved
   with a ghost that counts calm ticks; the liveness itself stays with TLC.
2. The refinement of `AtomicApply` for two processes is false, because there
   is no lock. If the program gets one, `Transaction` needs an action for
   it, and `CommandsAreAtomicHolds` should then hold for all processes.
3. `SuggestConvergesHolds` without `NoSnapIds`: state which items of a plan become
   ambiguous through a wrapper of `snap.<package>.<application>`.
4. The parsing of `/proc` and of desktop files, once there is a property
   that depends on it.
