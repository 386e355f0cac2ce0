---------------------------- MODULE Transaction ----------------------------
(***************************************************************************)
(* resguard apply and resguard rollback: the unit files below /etc/systemd,*)
(* the backups, manifests and state.json below the state directory, and    *)
(* the processes that change them one system call after the other          *)
(* (resguard-services/apply_service.rs, resguard-state, the planner and    *)
(* executor of resguard-runtime, handle_rollback of resguard-cli).         *)
(*                                                                         *)
(* pc[p] names the call process p makes next.  Any call may fail, and a    *)
(* process may be killed before or inside a call; a call that writes a     *)
(* file and is killed, or fails, may leave it torn.  No lock is taken      *)
(* anywhere, so processes interleave call by call.  The root is "/" and    *)
(* the user is root; contents are values compared for equality only.       *)
(***************************************************************************)
EXTENDS Integers, Sequences, FiniteSets

CONSTANTS
  Proc,          \* resguard processes
  Slice,         \* names of class slices
  Content,       \* contents of unit files
  Profile,       \* name |-> [system, user: Content, classes: sequence of
                 \*           [slice: Slice, system, user: Content]]
  Request,       \* the apply commands: [profile, no_classes]
  InitialFiles,  \* the unit files there may be before the first command
  Absent,        \* no file
  Torn,          \* a file cut short
  None,
  FailingCalls,  \* the calls that may fail
  TearingCalls,  \* the failing calls that may leave the file they write torn
  MaxCommands, MaxFaults, MaxCrashes

Path == ({"system"} \X ({"system.slice.d", "user.slice.d"} \union Slice))
        \union ({"user"} \X Slice)

\* The files the system manager reads; those in /etc/systemd/user are for the
\* user managers.
SystemPath == {path \in Path : path[1] = "system"}

File  == Content \union {Absent, Torn}
Files == [Path -> File]
Id    == 1 .. MaxCommands

Classes == [slice: Slice, system: Content, user: Content]

ASSUME ModelValuesDiffer ==
  /\ Absent # Torn
  /\ Absent \notin Content
  /\ Torn \notin Content
ASSUME BoundsAreNat == {MaxCommands, MaxFaults, MaxCrashes} \subseteq Nat
ASSUME InitialFilesType == InitialFiles \subseteq Files
ASSUME RequestType == Request \subseteq [profile: DOMAIN Profile, no_classes: BOOLEAN]
ASSUME ProfileType ==
  \A name \in DOMAIN Profile :
    /\ Profile[name].system \in Content
    /\ Profile[name].user \in Content
    /\ Profile[name].classes \in Seq(Classes)
ASSUME NoneIsOther == None \notin Request /\ None \notin Id

VARIABLES
  files,      \* the unit files
  loaded,     \* what the system manager read at the last daemon-reload
  backups,    \* the copies below backups/<id>/
  manifests,  \* backups/<id>/manifest.json
  state,      \* state.json
  clock,      \* the last id current_backup_id() returned
  pc, request, todo, tx, restore, remove, exit,   \* of each process
  basis,      \* history: the files when the process's command began
  original,   \* history: the files before the first command
  faults, crashes, commands

disk  == <<files, backups, manifests, state>>
local == <<request, todo, tx, restore, remove, exit, basis>>
others == <<original, faults, crashes, commands>>
vars == <<disk, loaded, clock, pc, local, others>>
-----------------------------------------------------------------------------
(***************************************************************************)
(* The plan of an apply.                                                   *)
(***************************************************************************)
EnsureDir == [kind |-> "dir"]
DaemonReload == [kind |-> "reload"]
WriteFile(path, content) ==
  [kind |-> "write", path |-> path, content |-> content]

ClassWrites(classes) ==
  [ i \in 1 .. 2 * Len(classes) |->
      LET class == classes[(i + 1) \div 2]
      IN  IF i % 2 = 1
          THEN WriteFile(<<"system", class.slice>>, class.system)
          ELSE WriteFile(<<"user", class.slice>>, class.user) ]

\* The directories of the classes are ensured before the first class only:
\* dedupe_ensure_dirs drops the later ones.
build_apply_plan(req) ==
  LET profile == Profile[req.profile]
      classes == IF req.no_classes THEN <<>> ELSE profile.classes
      dirs    == <<EnsureDir, EnsureDir>>
  IN  dirs
      \o << WriteFile(<<"system", "system.slice.d">>, profile.system),
            WriteFile(<<"system", "user.slice.d">>, profile.user) >>
      \o (IF classes = <<>> THEN <<>> ELSE dirs)
      \o ClassWrites(classes)
      \o <<DaemonReload>>

WritesOf(req) ==
  LET plan == build_apply_plan(req)
  IN  {plan[i] : i \in {j \in DOMAIN plan : plan[j].kind = "write"}}

\* planned_write_changes: a file that is absent, unreadable as text or
\* different needs the write.
planned_write_changes(req) ==
  {write \in WritesOf(req) : files[write.path] # write.content}
-----------------------------------------------------------------------------
(***************************************************************************)
(* State file, manifests, transactions.                                    *)
(***************************************************************************)
NoTx == [id |-> None, managed |-> {}, created |-> {}, backed |-> {}]
NewTx(id) == [NoTx EXCEPT !.id = id]
Managing(t, path, created, backed) ==
  [id |-> t.id, managed |-> t.managed \union {path}, created |-> created,
   backed |-> backed]

Manifest == [ profile: DOMAIN Profile, managed: SUBSET Path,
              created: SUBSET Path ]
StateFile == [ profile: DOMAIN Profile \union {None},
               backup_id: Id \union {None}, managed: SUBSET Path,
               created: SUBSET Path ]

ASSUME DocumentsDiffer ==
  Absent \notin Manifest \union StateFile /\ Torn \notin Manifest \union StateFile

manifest_from_transaction(t, profile) ==
  [profile |-> profile, managed |-> t.managed, created |-> t.created]

\* Mutant: the id of the latest transaction instead of the manifest's.
state_from_latest(id, m) ==
  [profile |-> m.profile, backup_id |-> clock, managed |-> m.managed,
   created |-> m.created]

state_from_manifest(id, m) ==
  [profile |-> m.profile, backup_id |-> id, managed |-> m.managed,
   created |-> m.created]

DefaultState ==
  [profile |-> None, backup_id |-> None, managed |-> {}, created |-> {}]

Whole(document) == document \notin {Absent, Torn}
-----------------------------------------------------------------------------
(***************************************************************************)
(* Control of one process.                                                 *)
(***************************************************************************)
Exit(p, code) ==
  /\ pc' = [pc EXCEPT ![p] = "idle"]
  /\ exit' = [exit EXCEPT ![p] = code]
  /\ request' = [request EXCEPT ![p] = None]
  /\ todo' = [todo EXCEPT ![p] = <<>>]
  /\ tx' = [tx EXCEPT ![p] = NoTx]
  /\ restore' = [restore EXCEPT ![p] = {}]
  /\ remove' = [remove EXCEPT ![p] = {}]
  /\ basis' = [basis EXCEPT ![p] = None]

Begins(p) ==
  /\ pc[p] = "idle"
  /\ commands < MaxCommands
  /\ commands' = commands + 1
  /\ UNCHANGED <<original, faults, crashes>>

\* The call an apply makes for the first of the actions it still has to do.
CallFor(actions) ==
  IF actions = <<>> THEN "manifest"
  ELSE IF Head(actions).kind = "write" THEN "snapshot"
  ELSE Head(actions).kind

StepDone(p) ==
  /\ todo' = [todo EXCEPT ![p] = Tail(@)]
  /\ pc' = [pc EXCEPT ![p] = CallFor(Tail(todo[p]))]

\* rollback_from_manifest: first every managed path, then every created one,
\* then the reload of its caller.
RollbackCall(managed, created) ==
  IF managed # {} THEN "restore" ELSE IF created # {} THEN "remove" ELSE "reread"

StartsRollback(p, managed, created) ==
  /\ restore' = [restore EXCEPT ![p] = managed]
  /\ remove' = [remove EXCEPT ![p] = created]
  /\ pc' = [pc EXCEPT ![p] = RollbackCall(managed, created)]
-----------------------------------------------------------------------------
(***************************************************************************)
(* apply.                                                                  *)
(***************************************************************************)
ApplyNoChanges(p) ==
  /\ Begins(p)
  /\ \E req \in Request : planned_write_changes(req) = {}
  /\ exit' = [exit EXCEPT ![p] = 0]
  /\ UNCHANGED <<disk, loaded, clock, pc, request, todo, tx, restore, remove,
                 basis>>

ApplyPlanned(p) ==
  /\ Begins(p)
  /\ \E req \in Request :
       /\ planned_write_changes(req) # {}
       /\ request' = [request EXCEPT ![p] = req]
       /\ todo' = [todo EXCEPT ![p] = build_apply_plan(req)]
  /\ pc' = [pc EXCEPT ![p] = "begin"]
  /\ basis' = [basis EXCEPT ![p] = files]
  /\ UNCHANGED <<disk, loaded, clock, tx, restore, remove, exit>>

\* Mutant: ids so coarse that transactions share one.
begin_coarse_transaction(p) ==
  /\ pc[p] = "begin"
  /\ clock' = 1
  /\ tx' = [tx EXCEPT ![p] = NewTx(1)]
  /\ pc' = [pc EXCEPT ![p] = CallFor(todo[p])]
  /\ UNCHANGED <<disk, loaded, request, todo, restore, remove, exit, basis,
                 others>>

begin_transaction(p) ==
  /\ pc[p] = "begin"
  /\ clock < MaxCommands
  /\ clock' = clock + 1
  /\ tx' = [tx EXCEPT ![p] = NewTx(clock + 1)]
  /\ pc' = [pc EXCEPT ![p] = CallFor(todo[p])]
  /\ UNCHANGED <<disk, loaded, request, todo, restore, remove, exit, basis,
                 others>>

ensure_dir(p) ==
  /\ pc[p] = "dir"
  /\ StepDone(p)
  /\ UNCHANGED <<disk, loaded, clock, request, tx, restore, remove, exit,
                 basis, others>>

\* Mutant: the early return for a path that is already copied is gone.
SnapshottedNever(t, path) == FALSE

Snapshotted(t, path) == path \in t.backed \union t.created

snapshot_before_write(p) ==
  /\ pc[p] = "snapshot"
  /\ LET path == Head(todo[p]).path
         t    == tx[p]
         Records(created, backed) ==
           tx' = [tx EXCEPT ![p] = Managing(t, path, created, backed)]
     IN  \/ /\ Snapshotted(t, path)
            /\ Records(t.created, t.backed)
            /\ UNCHANGED backups
         \/ /\ ~Snapshotted(t, path)
            /\ files[path] # Absent
            /\ backups' = [backups EXCEPT ![t.id][path] = files[path]]
            /\ Records(t.created, t.backed \union {path})
         \/ /\ ~Snapshotted(t, path)
            /\ files[path] = Absent
            /\ Records(t.created \union {path}, t.backed)
            /\ UNCHANGED backups
  /\ pc' = [pc EXCEPT ![p] = "write"]
  /\ UNCHANGED <<files, manifests, state, loaded, clock, request, todo,
                 restore, remove, exit, basis, others>>

write_file(p) ==
  /\ pc[p] = "write"
  /\ files' = [files EXCEPT ![Head(todo[p]).path] = Head(todo[p]).content]
  /\ StepDone(p)
  /\ UNCHANGED <<backups, manifests, state, loaded, clock, request, tx,
                 restore, remove, exit, basis, others>>

Loads == loaded' = [path \in SystemPath |-> files[path]]

daemon_reload(p) ==
  /\ pc[p] = "reload"
  /\ Loads
  /\ StepDone(p)
  /\ UNCHANGED <<disk, clock, request, tx, restore, remove, exit, basis,
                 others>>

write_backup_manifest(p) ==
  /\ pc[p] = "manifest"
  /\ manifests' = [manifests EXCEPT ![tx[p].id] =
                     manifest_from_transaction(tx[p], request[p].profile)]
  /\ pc' = [pc EXCEPT ![p] = "state"]
  /\ UNCHANGED <<files, backups, state, loaded, clock, local, others>>

write_state(p) ==
  /\ pc[p] = "state"
  /\ state' = state_from_manifest(tx[p].id,
                manifest_from_transaction(tx[p], request[p].profile))
  /\ Exit(p, 0)
  /\ UNCHANGED <<files, backups, manifests, loaded, clock, others>>
-----------------------------------------------------------------------------
(***************************************************************************)
(* rollback, and the undo of an apply.                                     *)
(***************************************************************************)
\* Mutant: a state file without a backup id is taken as it is.
RollbackAnyState(p) ==
  /\ Begins(p)
  /\ Whole(state)
  /\ tx' = [tx EXCEPT ![p] = NewTx(state.backup_id)]
  /\ pc' = [pc EXCEPT ![p] = "read"]
  /\ basis' = [basis EXCEPT ![p] = files]
  /\ UNCHANGED <<disk, loaded, clock, request, todo, restore, remove, exit>>

\* rollback --last: the id is the one state.json names.
RollbackLast(p) ==
  /\ Begins(p)
  /\ Whole(state)
  /\ state.backup_id # None
  /\ tx' = [tx EXCEPT ![p] = NewTx(state.backup_id)]
  /\ pc' = [pc EXCEPT ![p] = "read"]
  /\ basis' = [basis EXCEPT ![p] = files]
  /\ UNCHANGED <<disk, loaded, clock, request, todo, restore, remove, exit>>

\* No readable state.json, or one without a backup id.
RollbackWithoutState(p) ==
  /\ Begins(p)
  /\ ~Whole(state) \/ (Whole(state) /\ state.backup_id = None)
  /\ exit' = [exit EXCEPT ![p] = 1]
  /\ UNCHANGED <<disk, loaded, clock, pc, request, todo, tx, restore, remove,
                 basis>>

\* rollback --to: any id with a directory below backups/.
RollbackTo(p) ==
  /\ Begins(p)
  /\ \E id \in 1 .. clock : tx' = [tx EXCEPT ![p] = NewTx(id)]
  /\ pc' = [pc EXCEPT ![p] = "read"]
  /\ basis' = [basis EXCEPT ![p] = files]
  /\ UNCHANGED <<disk, loaded, clock, request, todo, restore, remove, exit>>

read_backup_manifest(p) ==
  /\ pc[p] = "read"
  /\ LET manifest == manifests[tx[p].id]
     IN  \/ /\ Whole(manifest)
            /\ StartsRollback(p, manifest.managed, manifest.created)
            /\ UNCHANGED <<request, todo, tx, exit, basis>>
         \/ /\ ~Whole(manifest)
            /\ Exit(p, 1)
  /\ UNCHANGED <<disk, loaded, clock, others>>

\* The paths are taken in any order; the code takes them sorted by name.
RestorePath(p) ==
  /\ pc[p] = "restore"
  /\ \E path \in restore[p] :
       /\ LET backup == backups[tx[p].id][path]
          IN  files' = IF backup = Absent THEN files
                       ELSE [files EXCEPT ![path] = backup]
       /\ StartsRollback(p, restore[p] \ {path}, remove[p])
  /\ UNCHANGED <<backups, manifests, state, loaded, clock, request, todo, tx,
                 exit, basis, others>>

RemovePath(p) ==
  /\ pc[p] = "remove"
  /\ \E path \in remove[p] :
       /\ files' = [files EXCEPT ![path] = Absent]
       /\ StartsRollback(p, {}, remove[p] \ {path})
  /\ UNCHANGED <<backups, manifests, state, loaded, clock, request, todo, tx,
                 exit, basis, others>>

\* Mutant: the undo of an apply does not reload.
ReloadOfRollbackOnly(p) ==
  /\ pc[p] = "reread"
  /\ \/ /\ request[p] # None
        /\ UNCHANGED loaded
        /\ Exit(p, 4)
     \/ /\ request[p] = None
        /\ Loads
        /\ pc' = [pc EXCEPT ![p] = "reset"]
        /\ UNCHANGED local
  /\ UNCHANGED <<disk, clock, others>>

\* daemon_reload_if_root, then exit 4 of an apply, or on to the state file.
ReloadRolledBack(p) ==
  /\ pc[p] = "reread"
  /\ Loads
  /\ \/ /\ request[p] # None
        /\ Exit(p, 4)
     \/ /\ request[p] = None
        /\ pc' = [pc EXCEPT ![p] = "reset"]
        /\ UNCHANGED local
  /\ UNCHANGED <<disk, clock, others>>

ResetState(p) ==
  /\ pc[p] = "reset"
  /\ state' = DefaultState
  /\ Exit(p, 0)
  /\ UNCHANGED <<files, backups, manifests, loaded, clock, others>>
-----------------------------------------------------------------------------
(***************************************************************************)
(* Failing calls and killed processes.                                     *)
(***************************************************************************)
\* The file the call of p was writing is cut short.
Tears(p) ==
  \/ /\ pc[p] = "snapshot"
     /\ ~Snapshotted(tx[p], Head(todo[p]).path)
     /\ files[Head(todo[p]).path] # Absent
     /\ backups' = [backups EXCEPT ![tx[p].id][Head(todo[p]).path] = Torn]
     /\ UNCHANGED <<files, manifests, state>>
  \/ /\ pc[p] = "write"
     /\ files' = [files EXCEPT ![Head(todo[p]).path] = Torn]
     /\ UNCHANGED <<backups, manifests, state>>
  \/ /\ pc[p] = "restore"
     /\ \E path \in restore[p] :
          /\ backups[tx[p].id][path] # Absent
          /\ files' = [files EXCEPT ![path] = Torn]
     /\ UNCHANGED <<backups, manifests, state>>
  \/ /\ pc[p] = "manifest"
     /\ manifests' = [manifests EXCEPT ![tx[p].id] = Torn]
     /\ UNCHANGED <<files, backups, state>>
  \/ /\ pc[p] \in {"state", "reset"}
     /\ state' = Torn
     /\ UNCHANGED <<files, backups, manifests>>

FailureLeaves(p) ==
  \/ UNCHANGED disk
  \/ pc[p] \in TearingCalls /\ Tears(p)

Fault(p) ==
  /\ pc[p] \in FailingCalls
  /\ faults < MaxFaults
  /\ faults' = faults + 1
  /\ UNCHANGED <<original, crashes, commands>>

PlanStep == {"dir", "snapshot", "write", "reload"}

\* What the transaction has recorded when the action fails: snapshot_before_write
\* inserts the path into managed_paths before it copies.
RecordedAtFailure(p) ==
  IF pc[p] = "snapshot"
  THEN Managing(tx[p], Head(todo[p]).path, tx[p].created, tx[p].backed)
  ELSE tx[p]

\* An action of the plan fails: the transaction so far is rolled back.
StepFails(p) ==
  /\ pc[p] \in PlanStep
  /\ Fault(p)
  /\ FailureLeaves(p)
  /\ LET t == RecordedAtFailure(p)
     IN  /\ tx' = [tx EXCEPT ![p] = t]
         /\ StartsRollback(p, t.managed, t.created)
  /\ todo' = [todo EXCEPT ![p] = <<>>]
  /\ UNCHANGED <<loaded, clock, request, exit, basis>>

\* A call fails whose error nobody handles: exit 5 when it undoes an apply,
\* exit 1 everywhere else.
CommandFails(p) ==
  /\ pc[p] \notin PlanStep
  /\ Fault(p)
  /\ FailureLeaves(p)
  /\ Exit(p, IF request[p] # None /\ pc[p] \in {"restore", "remove", "reread"}
             THEN 5 ELSE 1)
  /\ UNCHANGED <<loaded, clock>>

Killed == 137

Crash(p) ==
  /\ pc[p] # "idle"
  /\ crashes < MaxCrashes
  /\ crashes' = crashes + 1
  /\ UNCHANGED disk \/ Tears(p)
  /\ Exit(p, Killed)
  /\ UNCHANGED <<loaded, clock, original, faults, commands>>
-----------------------------------------------------------------------------
Init ==
  /\ files \in InitialFiles
  /\ original = files
  /\ loaded = [path \in SystemPath |-> files[path]]
  /\ backups = [id \in Id |-> [path \in Path |-> Absent]]
  /\ manifests = [id \in Id |-> Absent]
  /\ state = Absent
  /\ clock = 0
  /\ pc = [p \in Proc |-> "idle"]
  /\ request = [p \in Proc |-> None]
  /\ todo = [p \in Proc |-> <<>>]
  /\ tx = [p \in Proc |-> NoTx]
  /\ restore = [p \in Proc |-> {}]
  /\ remove = [p \in Proc |-> {}]
  /\ exit = [p \in Proc |-> 0]
  /\ basis = [p \in Proc |-> None]
  /\ faults = 0
  /\ crashes = 0
  /\ commands = 0

Apply(p) ==
  \/ ApplyNoChanges(p)
  \/ ApplyPlanned(p)
  \/ begin_transaction(p)
  \/ ensure_dir(p)
  \/ snapshot_before_write(p)
  \/ write_file(p)
  \/ daemon_reload(p)
  \/ write_backup_manifest(p)
  \/ write_state(p)

Rollback(p) ==
  \/ RollbackLast(p)
  \/ RollbackWithoutState(p)
  \/ RollbackTo(p)
  \/ read_backup_manifest(p)
  \/ RestorePath(p)
  \/ RemovePath(p)
  \/ ReloadRolledBack(p)
  \/ ResetState(p)

Next ==
  \E p \in Proc :
    Apply(p) \/ Rollback(p) \/ StepFails(p) \/ CommandFails(p) \/ Crash(p)

Spec == Init /\ [][Next]_vars
=============================================================================
