----------------------- MODULE TransactionProperties -----------------------
(***************************************************************************)
(* What apply and rollback are meant to guarantee.                         *)
(***************************************************************************)
EXTENDS Transaction

Tx == [ id: Id \union {None}, managed: SUBSET Path, created: SUBSET Path,
        backed: SUBSET Path ]
Call == { "idle", "begin", "dir", "snapshot", "write", "reload", "manifest",
          "state", "read", "restore", "remove", "reread", "reset" }
Action ==
  [kind: {"dir", "reload"}]
    \union [kind: {"write"}, path: Path, content: Content]

DiskType ==
  /\ files \in Files /\ original \in Files
  /\ loaded \in [SystemPath -> File]
  /\ backups \in [Id -> Files]
  /\ manifests \in [Id -> Manifest \union {Absent, Torn}]
  /\ state \in StateFile \union {Absent, Torn}
  /\ clock \in 0 .. MaxCommands

ProcessType ==
  /\ pc \in [Proc -> Call]
  /\ request \in [Proc -> Request \union {None}]
  /\ todo \in [Proc -> Seq(Action)]
  /\ tx \in [Proc -> Tx]
  /\ restore \in [Proc -> SUBSET Path] /\ remove \in [Proc -> SUBSET Path]
  /\ exit \in [Proc -> {0, 1, 4, 5, Killed}]
  /\ basis \in [Proc -> Files \union {None}]

BudgetType ==
  commands \in 0 .. MaxCommands /\ faults \in 0 .. MaxFaults
    /\ crashes \in 0 .. MaxCrashes

\* Every variable has the values the program gives it; the state file and a
\* process that works have an id that was handed out, and an apply that works
\* through its plan has actions left.
TypeOK ==
  /\ DiskType /\ ProcessType /\ BudgetType
  /\ Whole(state) => state.backup_id \in (1 .. clock) \union {None}
  /\ \A p \in Proc :
       /\ pc[p] \notin {"idle", "begin"} => tx[p].id \in 1 .. clock
       /\ pc[p] \in PlanStep => todo[p] # <<>>
-----------------------------------------------------------------------------
(***************************************************************************)
(* One process: the abstract specification.                                *)
(***************************************************************************)
Finished(p) == pc[p] # "idle" /\ pc'[p] = "idle"

\* What the requests write, for the abstract specification.
TargetOf ==
  [ req \in Request |->
      LET plan == build_apply_plan(req)
          WritesPath(i, path) == plan[i].kind = "write" /\ plan[i].path = path
          LastWrite(path) ==
            CHOOSE i \in DOMAIN plan :
              /\ WritesPath(i, path)
              /\ \A j \in DOMAIN plan : WritesPath(j, path) => j <= i
      IN  [ path \in {write.path : write \in WritesOf(req)} |->
              plan[LastWrite(path)].content ] ]

WrittenOf ==
  [ req \in Request |->
      [ path \in {write.path : write \in WritesOf(req)} |->
          {w.content : w \in {write \in WritesOf(req) : write.path = path}} ] ]

\* While a command runs the observer still sees what it found, and no
\* manifest of its own transaction.
Running == {p \in Proc : pc[p] # "idle"}
Config ==
  IF Running = {} THEN files ELSE basis[CHOOSE p \in Running : TRUE]

Undo(id) ==
  LET manifest == manifests[id]
  IN  IF \E p \in Running : tx[p].id = id /\ request[p] # None THEN Absent
      ELSE IF ~Whole(manifest) THEN manifest
      ELSE [ path \in manifest.managed |->
               IF path \in manifest.created THEN Absent
               ELSE backups[id][path] ]

\* What a rollback puts back is a function of paths, and none of these is one
\* of the values for no file and a torn file.
ASSUME ObservationsDiffer ==
  \A paths \in SUBSET Path : {Absent, Torn} \intersect [paths -> File] = {}

Last ==
  IF Whole(state)
  THEN [profile |-> state.profile, backup_id |-> state.backup_id]
  ELSE state

Outcome == exit[CHOOSE p \in Proc : TRUE]

Atomic ==
  INSTANCE AtomicApply
    WITH Target <- TargetOf, Written <- WrittenOf, config <- Config,
         last <- Last, undo <- [id \in Id |-> Undo(id)], outcome <- Outcome

\* Commands that run one after the other are atomic, whatever call fails or
\* is killed: an apply that ends with exit 0 wrote every file of its plan, and
\* a later rollback to its id puts back exactly what it found, files that were
\* absent included; an apply that ends with exit 4 left nothing behind, if no
\* backup copy failed half way (apply_service.rs, the loop over the plan, and
\* rollback_from_manifest; the failing copy is FailedApplyRestores).
CommandsAreAtomic == Atomic!Spec

\* A command that changed units and reports success, and an apply that
\* reports its rollback, leave the system manager with what is on disk: the
\* undo reloads too (daemon_reload_if_root after rollback_from_manifest).  An
\* apply that finds nothing to change, after one killed before its reload, does
\* not reload and is not meant (apply_service.rs:157).
LoadedWhenDone ==
  [][ \A p \in Proc :
        Finished(p) /\ exit'[p] \in {0, 4} =>
          loaded' = [path \in SystemPath |-> files'[path]] ]_vars
-----------------------------------------------------------------------------
(***************************************************************************)
(* Any number of processes.                                                *)
(***************************************************************************)
\* state.json never names a backup that rollback --last could not use: the
\* manifest is on disk, whole and about the same files, before the state
\* file names it (write_backup_manifest, then write_state), and no other
\* process touches it.
StateNamesManifest ==
  Whole(state) /\ state.backup_id # None =>
    LET manifest == manifests[state.backup_id]
    IN  /\ Whole(manifest)
        /\ manifest.profile = state.profile
        /\ manifest.managed = state.managed
        /\ manifest.created = state.created

\* Every managed path of a manifest can be put back: it is either one the
\* transaction created or one with a copy, never both, so that a rollback
\* neither skips a file nor deletes one it has just restored.
ManifestIsComplete ==
  \A id \in Id :
    Whole(manifests[id]) =>
      \A path \in manifests[id].managed :
        path \in manifests[id].created <=> backups[id][path] = Absent

\* The file an administrator had before Resguard came is not lost when applies
\* and rollbacks of several processes interleave, fail and are killed: it is
\* still in place, or some backup has it.  Two classes that share a slice file,
\* or two processes that write it, are what could overwrite it
\* (snapshot_before_write, backed_up_paths).  It holds under two conditions:
\* a backup copy that fails leaves nothing torn unless the process is killed
\* ("snapshot" is outside TearingCalls; FailedApplyRestores shows the loss), and
\* no two transactions have one id (begin_transaction takes it from the clock).
OriginalsAreKept ==
  \A path \in Path :
    \/ original[path] = Absent
    \/ files[path] = original[path]
    \/ \E id \in Id : backups[id][path] = original[path]
-----------------------------------------------------------------------------
(***************************************************************************)
(* What the documents say and the code does not do.                        *)
(***************************************************************************)
\* An apply whose step failed, and that reports the rollback as done, leaves
\* the files as it found them (docs/safety.md, Apply-Fehler; docs/cli.md).
FailedApplyRestores ==
  [][ \A p \in Proc :
        Finished(p) /\ exit'[p] = 4 => files' = basis[p] ]_vars
=============================================================================
