------------------------- MODULE TransactionProofs -------------------------
(***************************************************************************)
(* Theorems about apply and rollback for every number of processes, every  *)
(* set of profiles and commands, and every place of a failure or a kill.   *)
(*                                                                         *)
(* TypeInv: the types, and where each process is in its command.           *)
(* Inv: and what a transaction has recorded is what it has on disk, under  *)
(* an id of its own; with it StateNamesManifest and ManifestIsComplete.    *)
(* KeptInv: and every file a process may still write over has a copy, if   *)
(* it was there before the first command; with it OriginalsAreKept.        *)
(*                                                                         *)
(* DiskStep and TxStep say once what the steps write and what they make of *)
(* the transaction; the invariants are proved from them, not action by     *)
(* action.                                                                 *)
(***************************************************************************)
EXTENDS TransactionProperties, SequenceTheorems, TLAPS

-----------------------------------------------------------------------------
(* Plans and calls.                                                        *)

LEMMA ActionTypes ==
  /\ EnsureDir \in Action /\ DaemonReload \in Action
  /\ \A path \in Path, content \in Content : WriteFile(path, content) \in Action
  BY DEF EnsureDir, DaemonReload, WriteFile, Action

LEMMA ClassWritesType ==
  ASSUME NEW classes \in Seq(Classes)
  PROVE  ClassWrites(classes) \in Seq(Action)
<1> DEFINE n == 2 * Len(classes)
<1>1. n \in Nat
  BY LenProperties
<1>2. ASSUME NEW i \in 1 .. n PROVE ClassWrites(classes)[i] \in Action
  <2>1. (i + 1) \div 2 \in 1 .. Len(classes)
    BY LenProperties
  <2> DEFINE class == classes[(i + 1) \div 2]
  <2>2. class \in Classes
    BY <2>1, ElementOfSeq
  <2>3. /\ <<"system", class.slice>> \in Path /\ <<"user", class.slice>> \in Path
        /\ class.system \in Content /\ class.user \in Content
    BY <2>2 DEF Classes, Path
  <2>4. WriteFile(<<"system", class.slice>>, class.system) \in Action
    BY <2>3, ActionTypes
  <2>5. WriteFile(<<"user", class.slice>>, class.user) \in Action
    BY <2>3, ActionTypes
  <2> QED BY <2>4, <2>5 DEF ClassWrites
<1>3. ClassWrites(classes) \in [1 .. n -> Action]
  BY <1>2 DEF ClassWrites
<1> QED BY <1>1, <1>3, IsASeq

LEMMA PlanFront ==
  ASSUME NEW req \in Request
  PROVE  \E front \in Seq(Action) : build_apply_plan(req) = front \o <<DaemonReload>>
<1> DEFINE profile == Profile[req.profile]
           classes == IF req.no_classes THEN <<>> ELSE profile.classes
           dirs == <<EnsureDir, EnsureDir>>
           dropins == << WriteFile(<<"system", "system.slice.d">>, profile.system),
                         WriteFile(<<"system", "user.slice.d">>, profile.user) >>
           classDirs == IF classes = <<>> THEN <<>> ELSE dirs
<1>1. req.profile \in DOMAIN Profile
  BY RequestType
<1>2. /\ profile.system \in Content /\ profile.user \in Content
      /\ profile.classes \in Seq(Classes)
  BY <1>1, ProfileType
<1>3. classes \in Seq(Classes)
  BY <1>2
<1>4. dirs \in Seq(Action) /\ classDirs \in Seq(Action)
  BY ActionTypes
<1>5. dropins \in Seq(Action)
  <2>1. <<"system", "system.slice.d">> \in Path /\ <<"system", "user.slice.d">> \in Path
    BY DEF Path
  <2>2. /\ WriteFile(<<"system", "system.slice.d">>, profile.system) \in Action
        /\ WriteFile(<<"system", "user.slice.d">>, profile.user) \in Action
    BY <1>2, <2>1, ActionTypes
  <2> HIDE DEF profile
  <2> QED BY <2>2
<1>6. ClassWrites(classes) \in Seq(Action)
  BY <1>3, ClassWritesType
<1>7. build_apply_plan(req)
        = dirs \o dropins \o classDirs \o ClassWrites(classes) \o <<DaemonReload>>
  BY DEF build_apply_plan
<1> HIDE DEF dirs, dropins, classDirs, classes
<1>8. dirs \o dropins \o classDirs \o ClassWrites(classes) \in Seq(Action)
  BY <1>4, <1>5, <1>6, ConcatProperties
<1> QED BY <1>7, <1>8

LEMMA PlanType ==
  ASSUME NEW req \in Request
  PROVE  build_apply_plan(req) \in Seq(Action)
<1>1. PICK front \in Seq(Action) : build_apply_plan(req) = front \o <<DaemonReload>>
  BY PlanFront
<1>2. <<DaemonReload>> \in Seq(Action)
  BY ActionTypes
<1> QED BY <1>1, <1>2, ConcatProperties

PlanCall == {"dir", "snapshot", "reload", "manifest"}

LEMMA CallType ==
  ASSUME NEW actions \in Seq(Action)
  PROVE  /\ CallFor(actions) \in PlanCall
         /\ CallFor(actions) # "manifest" =>
              actions # <<>> /\ Tail(actions) \in Seq(Action)
         /\ CallFor(actions) = "snapshot" =>
              Head(actions).path \in Path /\ Head(actions).content \in Content
<1>1. CASE actions = <<>>
  BY <1>1 DEF CallFor, PlanCall
<1>2. CASE actions # <<>>
  <2>1. Head(actions) \in Action /\ Tail(actions) \in Seq(Action)
    BY <1>2, HeadTailProperties
  <2>2. CASE Head(actions) \in [kind: {"dir", "reload"}]
    BY <1>2, <2>1, <2>2 DEF CallFor, PlanCall
  <2>3. CASE Head(actions) \in [kind: {"write"}, path: Path, content: Content]
    BY <1>2, <2>1, <2>3 DEF CallFor, PlanCall
  <2> QED BY <2>1, <2>2, <2>3 DEF Action
<1> QED BY <1>1, <1>2
-----------------------------------------------------------------------------
(* What a step of p leaves alone.                                          *)

Step(p) ==
  Apply(p) \/ Rollback(p) \/ StepFails(p) \/ CommandFails(p) \/ Crash(p)

\* A step of p changes the local state of no other process.
Elsewhere(p) ==
  \A q \in Proc \ {p} :
    /\ pc'[q] = pc[q] /\ request'[q] = request[q] /\ todo'[q] = todo[q]
    /\ tx'[q] = tx[q] /\ restore'[q] = restore[q] /\ remove'[q] = remove[q]

Calls == Call \ {"idle"}

LEMMA ExitType ==
  ASSUME ProcessType, NEW p \in Proc, NEW code \in {0, 1, 4, 5, Killed},
         Exit(p, code)
  PROVE  ProcessType' /\ Elsewhere(p)
<1>1. NoTx \in Tx
  BY DEF NoTx, Tx
<1>2. <<>> \in Seq(Action)
  BY EmptySeq
<1> QED BY <1>1, <1>2 DEF Exit, ProcessType, Elsewhere, Call

LEMMA StepDoneType ==
  ASSUME ProcessType, NEW p \in Proc, todo[p] # <<>>, StepDone(p),
         UNCHANGED <<request, tx, restore, remove, exit, basis>>
  PROVE  ProcessType' /\ Elsewhere(p)
<1>1. Tail(todo[p]) \in Seq(Action)
  BY HeadTailProperties DEF ProcessType
<1>2. CallFor(Tail(todo[p])) \in Call
  BY <1>1, CallType DEF PlanCall, Call
<1> QED BY <1>1, <1>2 DEF StepDone, ProcessType, Elsewhere

LEMMA StartsRollbackType ==
  ASSUME ProcessType, NEW p \in Proc, NEW managed \in SUBSET Path,
         NEW created \in SUBSET Path, StartsRollback(p, managed, created),
         UNCHANGED <<request, exit, basis>>,
         todo' \in [Proc -> Seq(Action)], tx' \in [Proc -> Tx],
         \A q \in Proc \ {p} : todo'[q] = todo[q] /\ tx'[q] = tx[q]
  PROVE  ProcessType' /\ Elsewhere(p)
<1>1. RollbackCall(managed, created) \in Call
  BY DEF RollbackCall, Call
<1> QED BY <1>1 DEF StartsRollback, ProcessType, Elsewhere
-----------------------------------------------------------------------------
(* Where a process is in its command.                                      *)

Applying == {"dir", "snapshot", "write", "reload", "manifest", "state"}

InPlace(p) ==
  /\ pc[p] \in PlanCall => pc[p] = CallFor(todo[p])
  /\ pc[p] = "write" => CallFor(todo[p]) = "snapshot"
  /\ pc[p] = "idle" => request[p] = None
  /\ pc[p] \in Applying \union {"begin"} => request[p] # None
  /\ pc[p] \in {"read", "reset"} => request[p] = None
  /\ pc[p] \in {"idle", "begin"} => tx[p] = NoTx
  /\ pc[p] \notin {"idle", "begin"} => tx[p].id \in 1 .. clock
  /\ pc[p] # "restore" => restore[p] = {}
  /\ pc[p] \notin {"restore", "remove"} => remove[p] = {}

TypeInv == TypeOK /\ \A p \in Proc : InPlace(p)

LEMMA ManagingType ==
  ASSUME NEW t \in Tx, NEW path \in Path, NEW created \in SUBSET Path,
         NEW backed \in SUBSET Path
  PROVE  Managing(t, path, created, backed) \in Tx
  BY DEF Managing, Tx

LEMMA NewTxType ==
  ASSUME NEW id \in Id
  PROVE  NewTx(id) \in Tx /\ NewTx(id).id = id
  BY DEF NewTx, NoTx, Tx

LEMMA Writing ==
  ASSUME TypeInv, NEW p \in Proc, pc[p] \in {"snapshot", "write"}
  PROVE  Head(todo[p]).path \in Path /\ Head(todo[p]).content \in Content
<1>1. CallFor(todo[p]) = "snapshot" /\ todo[p] \in Seq(Action)
  BY DEF TypeInv, TypeOK, ProcessType, InPlace, PlanCall
<1> QED BY <1>1, CallType

LEMMA ApplyTypes ==
  ASSUME TypeInv, NEW p \in Proc, Apply(p)
  PROVE  ProcessType' /\ Elsewhere(p)
<1> USE DEF TypeInv, TypeOK
<1>1. CASE ApplyNoChanges(p)
  BY <1>1 DEF ApplyNoChanges, ProcessType, Elsewhere
<1>2. CASE ApplyPlanned(p)
  <2>1. PICK req \in Request : /\ request' = [request EXCEPT ![p] = req]
                               /\ todo' = [todo EXCEPT ![p] = build_apply_plan(req)]
    BY <1>2 DEF ApplyPlanned
  <2>2. build_apply_plan(req) \in Seq(Action)
    BY PlanType
  <2> QED
    BY <1>2, <2>1, <2>2
    DEF ApplyPlanned, ProcessType, DiskType, Elsewhere, Call
<1>3. CASE begin_transaction(p)
  <2>1. clock + 1 \in Id
    BY <1>3, BoundsAreNat DEF begin_transaction, DiskType, Id
  <2>2. NewTx(clock + 1) \in Tx
    BY <2>1, NewTxType
  <2>3. CallFor(todo[p]) \in Call
    BY CallType DEF ProcessType, PlanCall, Call
  <2> QED
    BY <1>3, <2>2, <2>3 DEF begin_transaction, ProcessType, Elsewhere
<1>4. CASE ensure_dir(p)
  BY <1>4, StepDoneType DEF ensure_dir, PlanStep
<1>5. CASE snapshot_before_write(p)
  <2>1. /\ Head(todo[p]).path \in Path
        /\ tx[p] \in Tx /\ tx[p].created \in SUBSET Path /\ tx[p].backed \in SUBSET Path
    BY <1>5, Writing DEF snapshot_before_write, ProcessType, Tx
  <2>2. \E created, backed \in SUBSET Path :
           tx' = [tx EXCEPT ![p] =
                    Managing(tx[p], Head(todo[p]).path, created, backed)]
    BY <1>5, <2>1 DEF snapshot_before_write
  <2>3. PICK t \in Tx : tx' = [tx EXCEPT ![p] = t]
    BY <2>1, <2>2, ManagingType
  <2> QED
    BY <1>5, <2>3 DEF snapshot_before_write, ProcessType, Elsewhere, Call
<1>6. CASE write_file(p)
  BY <1>6, StepDoneType DEF write_file, PlanStep
<1>7. CASE daemon_reload(p)
  BY <1>7, StepDoneType DEF daemon_reload, PlanStep
<1>8. CASE write_backup_manifest(p)
  BY <1>8 DEF write_backup_manifest, local, ProcessType, Elsewhere, Call
<1>9. CASE write_state(p)
  BY <1>9, ExitType DEF write_state
<1> QED
  BY <1>1, <1>2, <1>3, <1>4, <1>5, <1>6, <1>7, <1>8, <1>9 DEF Apply

LEMMA ManifestPaths ==
  ASSUME DiskType, NEW id \in Id, Whole(manifests[id])
  PROVE  /\ manifests[id] \in Manifest
         /\ manifests[id].managed \in SUBSET Path
         /\ manifests[id].created \in SUBSET Path
  BY DEF DiskType, Whole, Manifest

LEMMA TxId ==
  ASSUME TypeInv, NEW p \in Proc, pc[p] \notin {"idle", "begin"}
  PROVE  tx[p].id \in Id /\ tx[p].id \in 1 .. clock
  BY BoundsAreNat DEF TypeInv, TypeOK, DiskType, Id

LEMMA RollbackTypes ==
  ASSUME TypeInv, NEW p \in Proc, Rollback(p)
  PROVE  ProcessType' /\ Elsewhere(p)
<1> USE DEF TypeInv, TypeOK
<1>1. CASE RollbackLast(p)
  <2>1. state.backup_id \in Id
    BY <1>1 DEF RollbackLast, DiskType, Whole, StateFile
  <2> QED
    BY <1>1, <2>1, NewTxType
    DEF RollbackLast, ProcessType, DiskType, Elsewhere, Call
<1>2. CASE RollbackWithoutState(p)
  BY <1>2 DEF RollbackWithoutState, ProcessType, Elsewhere
<1>3. CASE RollbackTo(p)
  <2>1. PICK id \in 1 .. clock : tx' = [tx EXCEPT ![p] = NewTx(id)]
    BY <1>3 DEF RollbackTo
  <2>2. NewTx(id) \in Tx
    BY BoundsAreNat, NewTxType DEF DiskType, Id
  <2> QED
    BY <1>3, <2>1, <2>2 DEF RollbackTo, ProcessType, DiskType, Elsewhere, Call
<1>4. CASE read_backup_manifest(p)
  <2>1. CASE Whole(manifests[tx[p].id])
    <3> DEFINE m == manifests[tx[p].id]
    <3>1. m.managed \in SUBSET Path /\ m.created \in SUBSET Path
      BY <1>4, <2>1, TxId, ManifestPaths DEF read_backup_manifest
    <3>2. /\ StartsRollback(p, m.managed, m.created)
          /\ UNCHANGED <<request, todo, tx, exit, basis>>
      BY <1>4, <2>1 DEF read_backup_manifest
    <3> QED BY <3>1, <3>2, StartsRollbackType DEF ProcessType
  <2>2. CASE ~Whole(manifests[tx[p].id])
    BY <1>4, <2>2, ExitType DEF read_backup_manifest
  <2> QED BY <2>1, <2>2
<1>5. CASE RestorePath(p)
  <2>1. PICK path \in restore[p] :
          StartsRollback(p, restore[p] \ {path}, remove[p])
    BY <1>5 DEF RestorePath
  <2>2. restore[p] \ {path} \in SUBSET Path /\ remove[p] \in SUBSET Path
    BY DEF ProcessType
  <2> QED
    BY <1>5, <2>1, <2>2, StartsRollbackType DEF RestorePath, ProcessType
<1>6. CASE RemovePath(p)
  <2>1. PICK path \in remove[p] : StartsRollback(p, {}, remove[p] \ {path})
    BY <1>6 DEF RemovePath
  <2>2. remove[p] \ {path} \in SUBSET Path /\ {} \in SUBSET Path
    BY DEF ProcessType
  <2> QED
    BY <1>6, <2>1, <2>2, StartsRollbackType DEF RemovePath, ProcessType
<1>7. CASE ReloadRolledBack(p)
  <2>1. CASE request[p] # None
    BY <1>7, <2>1, ExitType DEF ReloadRolledBack
  <2>2. CASE request[p] = None
    BY <1>7, <2>2 DEF ReloadRolledBack, local, ProcessType, Elsewhere, Call
  <2> QED BY <2>1, <2>2
<1>8. CASE ResetState(p)
  BY <1>8, ExitType DEF ResetState
<1> QED
  BY <1>1, <1>2, <1>3, <1>4, <1>5, <1>6, <1>7, <1>8 DEF Rollback

LEMMA RecordedType ==
  ASSUME TypeInv, NEW p \in Proc
  PROVE  /\ RecordedAtFailure(p) \in Tx
         /\ RecordedAtFailure(p).id = tx[p].id
         /\ RecordedAtFailure(p).created = tx[p].created
         /\ RecordedAtFailure(p).backed = tx[p].backed
         /\ RecordedAtFailure(p).managed \in SUBSET Path
         /\ RecordedAtFailure(p).created \in SUBSET Path
<1>1. tx[p] \in Tx
  BY DEF TypeInv, TypeOK, ProcessType
<1>2. CASE pc[p] = "snapshot"
  BY <1>1, <1>2, Writing, ManagingType DEF RecordedAtFailure, Managing, Tx
<1>3. CASE pc[p] # "snapshot"
  BY <1>1, <1>3 DEF RecordedAtFailure, Tx
<1> QED BY <1>2, <1>3

LEMMA FailureTypes ==
  ASSUME TypeInv, NEW p \in Proc, StepFails(p) \/ CommandFails(p) \/ Crash(p)
  PROVE  ProcessType' /\ Elsewhere(p)
<1> USE DEF TypeInv, TypeOK
<1>1. CASE StepFails(p)
  <2> DEFINE t == RecordedAtFailure(p)
  <2>1. /\ tx' = [tx EXCEPT ![p] = t] /\ StartsRollback(p, t.managed, t.created)
        /\ todo' = [todo EXCEPT ![p] = <<>>]
        /\ UNCHANGED <<request, exit, basis>>
    BY <1>1 DEF StepFails
  <2>2. t \in Tx /\ t.managed \in SUBSET Path /\ t.created \in SUBSET Path
    BY RecordedType
  <2>3. <<>> \in Seq(Action)
    BY EmptySeq
  <2> HIDE DEF t
  <2>4. /\ todo' \in [Proc -> Seq(Action)] /\ tx' \in [Proc -> Tx]
        /\ \A q \in Proc \ {p} : todo'[q] = todo[q] /\ tx'[q] = tx[q]
    BY <2>1, <2>2, <2>3 DEF ProcessType
  <2> QED BY <2>1, <2>2, <2>4, StartsRollbackType
<1>2. CASE CommandFails(p)
  BY <1>2, ExitType DEF CommandFails
<1>3. CASE Crash(p)
  BY <1>3, ExitType DEF Crash
<1> QED BY <1>1, <1>2, <1>3
LEMMA StepTypes ==
  ASSUME TypeInv, NEW p \in Proc, Step(p)
  PROVE  ProcessType' /\ Elsewhere(p)
  BY ApplyTypes, RollbackTypes, FailureTypes DEF Step

LEMMA InitTypes ==
  ASSUME Init
  PROVE  TypeInv
<1>1. DiskType
  <2>1. [path \in SystemPath |-> files[path]] \in [SystemPath -> File]
    BY InitialFilesType DEF Init, SystemPath, Files
  <2>2. \A id \in Id : [path \in Path |-> Absent] \in Files
    BY DEF Files, File
  <2> QED
    BY <2>1, <2>2, InitialFilesType, BoundsAreNat DEF Init, DiskType
<1>2. ProcessType
  <2>1. NoTx \in Tx
    BY DEF NoTx, Tx
  <2>2. <<>> \in Seq(Action)
    BY EmptySeq
  <2> QED BY <2>1, <2>2 DEF Init, ProcessType, Call
<1>3. BudgetType
  BY BoundsAreNat DEF Init, BudgetType
<1>4. \A p \in Proc : InPlace(p) /\ pc[p] = "idle"
  BY DEF Init, InPlace, Applying, PlanCall
<1> QED
  BY <1>1, <1>2, <1>3, <1>4 DEF TypeInv, TypeOK, PlanStep, Init, Whole

-----------------------------------------------------------------------------
(* What a step writes.                                                     *)

\* The call of p writes one file, one copy, one manifest or the state file.
\* A copy is made only for a path that has none, a manifest and a copy only
\* by the process that owns the transaction.
Overwrites(p, path) ==
  \/ pc[p] = "write" /\ path = Head(todo[p]).path
  \/ pc[p] = "restore" /\ path \in restore[p] /\ backups[tx[p].id][path] # Absent
  \/ pc[p] = "remove" /\ path \in remove[p]

WritesFile(p) ==
  /\ \E path \in Path, content \in File :
       Overwrites(p, path) /\ files' = [files EXCEPT ![path] = content]
  /\ UNCHANGED <<backups, manifests, state>>

WritesBackup(p) ==
  /\ pc[p] = "snapshot"
  /\ ~Snapshotted(tx[p], Head(todo[p]).path)
  /\ files[Head(todo[p]).path] # Absent
  /\ \E content \in File \ {Absent} :
       backups' = [backups EXCEPT ![tx[p].id][Head(todo[p]).path] = content]
  /\ UNCHANGED <<files, manifests, state>>

WritesManifest(p) ==
  /\ pc[p] = "manifest"
  /\ \/ manifests' = [manifests EXCEPT ![tx[p].id] = Torn]
     \/ /\ manifests' = [manifests EXCEPT ![tx[p].id] =
                           manifest_from_transaction(tx[p], request[p].profile)]
        /\ pc'[p] = "state"
  /\ UNCHANGED <<files, backups, state>>

WritesState(p) ==
  /\ \/ state' \in {Torn, DefaultState}
     \/ /\ pc[p] = "state"
        /\ state' = state_from_manifest(tx[p].id,
                      manifest_from_transaction(tx[p], request[p].profile))
  /\ UNCHANGED <<files, backups, manifests>>

DiskStep(p) ==
  \/ UNCHANGED disk
  \/ WritesFile(p)
  \/ WritesBackup(p)
  \/ WritesManifest(p)
  \/ WritesState(p)

LEMMA FileOfPath ==
  ASSUME DiskType, NEW path \in Path
  PROVE  /\ files[path] \in File
         /\ \A id \in Id : backups[id][path] \in File
  BY DEF DiskType, Files

LEMMA TearsWrites ==
  ASSUME TypeInv, NEW p \in Proc, Tears(p)
  PROVE  DiskStep(p)
<1> USE DEF TypeInv, TypeOK
<1>1. Torn \in File \ {Absent}
  BY ModelValuesDiffer DEF File
<1>2. CASE pc[p] = "snapshot"
  BY <1>1, <1>2 DEF Tears, DiskStep, WritesBackup
<1>3. CASE pc[p] = "write"
  BY <1>1, <1>3, Writing DEF Tears, DiskStep, WritesFile, Overwrites
<1>4. CASE pc[p] = "restore"
  BY <1>1, <1>4 DEF Tears, DiskStep, WritesFile, Overwrites, ProcessType
<1>5. CASE pc[p] = "manifest"
  BY <1>5 DEF Tears, DiskStep, WritesManifest
<1>6. CASE pc[p] \in {"state", "reset"}
  BY <1>6 DEF Tears, DiskStep, WritesState
<1> QED
  BY <1>2, <1>3, <1>4, <1>5, <1>6 DEF Tears

LEMMA StepWrites ==
  ASSUME TypeInv, NEW p \in Proc, Step(p)
  PROVE  DiskStep(p)
<1> USE DEF TypeInv, TypeOK
<1>1. CASE \/ ApplyNoChanges(p) \/ ApplyPlanned(p) \/ begin_transaction(p)
           \/ ensure_dir(p) \/ daemon_reload(p)
  BY <1>1
  DEF ApplyNoChanges, ApplyPlanned, begin_transaction, ensure_dir,
      daemon_reload, DiskStep
<1>2. CASE snapshot_before_write(p)
  <2>1. files[Head(todo[p]).path] \in File
    BY <1>2, Writing, FileOfPath DEF snapshot_before_write
  <2> QED
    BY <1>2, <2>1 DEF snapshot_before_write, DiskStep, WritesBackup, disk
<1>3. CASE write_file(p)
  <2>1. Head(todo[p]).path \in Path /\ Head(todo[p]).content \in File
    BY <1>3, Writing DEF write_file, File
  <2> QED BY <1>3, <2>1 DEF write_file, DiskStep, WritesFile, Overwrites
<1>4. CASE write_backup_manifest(p)
  BY <1>4
  DEF write_backup_manifest, DiskStep, WritesManifest, ProcessType
<1>5. CASE write_state(p)
  BY <1>5 DEF write_state, DiskStep, WritesState
<1>6. CASE \/ RollbackLast(p) \/ RollbackWithoutState(p) \/ RollbackTo(p)
           \/ read_backup_manifest(p) \/ ReloadRolledBack(p)
  BY <1>6
  DEF RollbackLast, RollbackWithoutState, RollbackTo, read_backup_manifest,
      ReloadRolledBack, DiskStep
<1>7. CASE RestorePath(p)
  <2>1. PICK path \in restore[p] :
          files' = IF backups[tx[p].id][path] = Absent THEN files
                   ELSE [files EXCEPT ![path] = backups[tx[p].id][path]]
    BY <1>7 DEF RestorePath
  <2>2. path \in Path /\ backups[tx[p].id][path] \in File
    BY <1>7, TxId, FileOfPath DEF RestorePath, ProcessType
  <2> QED
    BY <1>7, <2>1, <2>2
    DEF RestorePath, DiskStep, WritesFile, Overwrites, disk
<1>8. CASE RemovePath(p)
  <2>1. Absent \in File
    BY DEF File
  <2> QED
    BY <1>8, <2>1
    DEF RemovePath, DiskStep, WritesFile, Overwrites, ProcessType
<1>9. CASE ResetState(p)
  BY <1>9 DEF ResetState, DiskStep, WritesState
<1>10. CASE StepFails(p) \/ CommandFails(p) \/ Crash(p)
  <2>1. UNCHANGED disk \/ Tears(p)
    BY <1>10 DEF StepFails, CommandFails, Crash, FailureLeaves
  <2> QED BY <2>1, TearsWrites DEF DiskStep
<1> QED
  BY <1>1, <1>2, <1>3, <1>4, <1>5, <1>6, <1>7, <1>8, <1>9, <1>10
  DEF Step, Apply, Rollback
\* The rest of the disk, and the budgets.
LEMMA StepClock ==
  ASSUME TypeInv, NEW p \in Proc, Step(p)
  PROVE  /\ clock' \in 0 .. MaxCommands /\ clock <= clock'
         /\ original' = original
         /\ loaded' = loaded \/ Loads
         /\ BudgetType'
<1> USE BoundsAreNat DEF TypeInv, TypeOK, BudgetType, DiskType, others
<1>1. CASE Apply(p)
  BY <1>1
  DEF Apply, ApplyNoChanges, ApplyPlanned, Begins, begin_transaction,
      ensure_dir, snapshot_before_write, write_file, daemon_reload,
      write_backup_manifest, write_state
<1>2. CASE Rollback(p)
  BY <1>2
  DEF Rollback, RollbackLast, RollbackWithoutState, RollbackTo, Begins,
      read_backup_manifest, RestorePath, RemovePath, ReloadRolledBack,
      ResetState
<1>3. CASE StepFails(p) \/ CommandFails(p) \/ Crash(p)
  BY <1>3 DEF StepFails, CommandFails, Crash, Fault
<1> QED BY <1>1, <1>2, <1>3 DEF Step

LEMMA FromManifest ==
  ASSUME TypeInv, NEW p \in Proc, pc[p] \in {"manifest", "state"}
  PROVE  LET m == manifest_from_transaction(tx[p], request[p].profile)
         IN  /\ m \in Manifest
             /\ m.managed = tx[p].managed /\ m.created = tx[p].created
             /\ state_from_manifest(tx[p].id, m) \in StateFile
             /\ state_from_manifest(tx[p].id, m).backup_id = tx[p].id
<1>1. request[p] \in Request /\ tx[p] \in Tx
  BY DEF TypeInv, TypeOK, ProcessType, InPlace, Applying
<1>2. request[p].profile \in DOMAIN Profile
  BY <1>1, RequestType
<1>3. tx[p].id \in Id
  BY TxId
<1> QED
  BY <1>1, <1>2, <1>3
  DEF manifest_from_transaction, state_from_manifest, Manifest, StateFile, Tx

LEMMA StepDiskType ==
  ASSUME TypeInv, NEW p \in Proc, Step(p)
  PROVE  DiskType'
<1> USE DEF TypeInv, TypeOK
<1>1. /\ clock' \in 0 .. MaxCommands /\ original' \in Files
      /\ loaded' = loaded \/ Loads
  BY StepClock DEF DiskType
<1>2. loaded' \in [SystemPath -> File]
  BY <1>1 DEF DiskType, Loads, SystemPath, Files
<1>3. CASE UNCHANGED disk
  BY <1>1, <1>2, <1>3 DEF DiskType, disk
<1>4. CASE WritesFile(p)
  BY <1>1, <1>2, <1>4 DEF DiskType, WritesFile, Files
<1>5. CASE WritesBackup(p)
  <2>1. PICK content \in File :
          backups' = [backups EXCEPT ![tx[p].id][Head(todo[p]).path] = content]
    BY <1>5 DEF WritesBackup
  <2>2. tx[p].id \in Id /\ Head(todo[p]).path \in Path
    BY <1>5, TxId, Writing DEF WritesBackup
  <2>3. backups' \in [Id -> Files]
    BY <2>1, <2>2 DEF DiskType, Files
  <2> QED BY <1>1, <1>2, <1>5, <2>3 DEF DiskType, WritesBackup
<1>6. CASE WritesManifest(p)
  <2>1. manifest_from_transaction(tx[p], request[p].profile) \in Manifest
    BY <1>6, FromManifest DEF WritesManifest
  <2>2. manifests' \in [Id -> Manifest \union {Absent, Torn}]
    BY <1>6, <2>1 DEF WritesManifest, DiskType
  <2> QED BY <1>1, <1>2, <1>6, <2>2 DEF DiskType, WritesManifest
<1>7. CASE WritesState(p)
  <2>1. DefaultState \in StateFile
    BY DEF DefaultState, StateFile
  <2>2. state' \in StateFile \union {Absent, Torn}
    BY <1>7, <2>1, FromManifest DEF WritesState
  <2> QED BY <1>1, <1>2, <1>7, <2>2 DEF DiskType, WritesState
<1> QED
  BY <1>3, <1>4, <1>5, <1>6, <1>7, StepWrites DEF DiskStep
-----------------------------------------------------------------------------
(* Every process stays in its plan.                                        *)

LEMMA ExitInPlace ==
  ASSUME ProcessType, NEW p \in Proc, NEW code, Exit(p, code)
  PROVE  /\ InPlace(p)' /\ pc'[p] = "idle" /\ request'[p] = None
         /\ tx'[p] = NoTx /\ restore'[p] = {} /\ remove'[p] = {}
  BY DEF Exit, ProcessType, InPlace, PlanCall, Applying

LEMMA StepDoneInPlace ==
  ASSUME TypeInv, NEW p \in Proc, pc[p] \in PlanStep, StepDone(p), clock' = clock,
         UNCHANGED <<request, tx, restore, remove>>
  PROVE  InPlace(p)'
<1>1. todo[p] # <<>>
  BY DEF TypeInv, TypeOK
<1>2. Tail(todo[p]) \in Seq(Action)
  BY <1>1, HeadTailProperties DEF TypeInv, TypeOK, ProcessType
<1>3. pc'[p] = CallFor(todo'[p]) /\ pc'[p] \in PlanCall
  BY <1>2, CallType DEF StepDone, TypeInv, TypeOK, ProcessType
<1>4. InPlace(p)
  BY DEF TypeInv
<1> QED BY <1>3, <1>4 DEF InPlace, PlanStep, PlanCall, Applying

LEMMA StartsRollbackInPlace ==
  ASSUME TypeInv, NEW p \in Proc, pc[p] \notin {"idle", "begin"},
         NEW managed, NEW created, StartsRollback(p, managed, created),
         tx'[p].id = tx[p].id, clock' = clock
  PROVE  InPlace(p)'
<1>1. tx'[p].id \in 1 .. clock
  BY TxId
<1>2. /\ pc'[p] = RollbackCall(managed, created)
      /\ restore'[p] = managed /\ remove'[p] = created
  BY DEF TypeInv, TypeOK, ProcessType, StartsRollback
<1> QED BY <1>1, <1>2 DEF InPlace, RollbackCall, PlanCall, Applying

LEMMA ApplyInPlace ==
  ASSUME TypeInv, NEW p \in Proc, Apply(p)
  PROVE  InPlace(p)'
<1> USE DEF TypeInv, TypeOK
<1>0. InPlace(p)
  OBVIOUS
<1>1. CASE ApplyNoChanges(p)
  BY <1>0, <1>1 DEF ApplyNoChanges, InPlace
<1>2. CASE ApplyPlanned(p)
  <2>1. PICK req \in Request : request' = [request EXCEPT ![p] = req]
    BY <1>2 DEF ApplyPlanned
  <2>2. request'[p] # None
    BY <2>1, NoneIsOther DEF ProcessType
  <2> QED
    BY <1>0, <1>2, <2>2
    DEF ApplyPlanned, Begins, InPlace, ProcessType, PlanCall, Applying
<1>3. CASE begin_transaction(p)
  <2>1. clock + 1 \in Id /\ clock' = clock + 1 /\ clock + 1 \in 1 .. clock'
    BY <1>3, BoundsAreNat DEF begin_transaction, DiskType, Id
  <2>2. tx'[p].id = clock + 1
    BY <1>3, <2>1, NewTxType DEF begin_transaction, ProcessType
  <2>3. pc'[p] = CallFor(todo'[p]) /\ pc'[p] \in PlanCall
    BY <1>3, CallType DEF begin_transaction, ProcessType
  <2> QED
    BY <1>0, <1>3, <2>1, <2>2, <2>3
    DEF begin_transaction, InPlace, PlanCall, Applying
<1>4. CASE ensure_dir(p)
  BY <1>4, StepDoneInPlace DEF ensure_dir, PlanStep
<1>5. CASE snapshot_before_write(p)
  <2>1. tx'[p].id = tx[p].id
    BY <1>5 DEF snapshot_before_write, Managing, ProcessType
  <2>2. pc'[p] = "write" /\ CallFor(todo[p]) = "snapshot"
    BY <1>0, <1>5 DEF snapshot_before_write, ProcessType, InPlace, PlanCall
  <2> QED
    BY <1>0, <1>5, <2>1, <2>2
    DEF snapshot_before_write, InPlace, PlanCall, Applying
<1>6. CASE write_file(p)
  BY <1>6, StepDoneInPlace DEF write_file, PlanStep
<1>7. CASE daemon_reload(p)
  BY <1>7, StepDoneInPlace DEF daemon_reload, PlanStep
<1>8. CASE write_backup_manifest(p)
  BY <1>0, <1>8
  DEF write_backup_manifest, local, ProcessType, InPlace, PlanCall, Applying
<1>9. CASE write_state(p)
  BY <1>9, ExitInPlace DEF write_state
<1> QED
  BY <1>1, <1>2, <1>3, <1>4, <1>5, <1>6, <1>7, <1>8, <1>9 DEF Apply

LEMMA RollbackInPlace ==
  ASSUME TypeInv, NEW p \in Proc, Rollback(p)
  PROVE  InPlace(p)'
<1> USE DEF TypeInv, TypeOK
<1>0. InPlace(p)
  OBVIOUS
<1>1. CASE RollbackLast(p)
  <2>1. state.backup_id \in 1 .. clock /\ state.backup_id \in Id
    BY <1>1, BoundsAreNat DEF RollbackLast, DiskType, Id
  <2>2. tx'[p].id \in 1 .. clock
    BY <1>1, <2>1, NewTxType DEF RollbackLast, ProcessType
  <2> QED
    BY <1>0, <1>1, <2>2
    DEF RollbackLast, Begins, ProcessType, InPlace, PlanCall, Applying
<1>2. CASE RollbackWithoutState(p)
  BY <1>0, <1>2 DEF RollbackWithoutState, InPlace
<1>3. CASE RollbackTo(p)
  <2>1. PICK id \in 1 .. clock : tx' = [tx EXCEPT ![p] = NewTx(id)]
    BY <1>3 DEF RollbackTo
  <2>2. tx'[p].id \in 1 .. clock
    BY <2>1, BoundsAreNat, NewTxType DEF DiskType, Id, ProcessType
  <2> QED
    BY <1>0, <1>3, <2>2
    DEF RollbackTo, Begins, ProcessType, InPlace, PlanCall, Applying
<1>4. CASE read_backup_manifest(p)
  BY <1>4, ExitInPlace, StartsRollbackInPlace DEF read_backup_manifest
<1>5. CASE RestorePath(p)
  BY <1>5, StartsRollbackInPlace DEF RestorePath
<1>6. CASE RemovePath(p)
  BY <1>6, StartsRollbackInPlace DEF RemovePath
<1>7. CASE ReloadRolledBack(p)
  <2>1. CASE request[p] # None
    BY <1>7, <2>1, ExitInPlace DEF ReloadRolledBack
  <2>2. CASE request[p] = None
    BY <1>0, <1>7, <2>2
    DEF ReloadRolledBack, local, ProcessType, InPlace, PlanCall, Applying
  <2> QED BY <2>1, <2>2
<1>8. CASE ResetState(p)
  BY <1>8, ExitInPlace DEF ResetState
<1> QED
  BY <1>1, <1>2, <1>3, <1>4, <1>5, <1>6, <1>7, <1>8 DEF Rollback

LEMMA FailureInPlace ==
  ASSUME TypeInv, NEW p \in Proc, StepFails(p) \/ CommandFails(p) \/ Crash(p)
  PROVE  InPlace(p)'
<1> USE DEF TypeInv, TypeOK
<1>1. CASE StepFails(p)
  <2>1. tx'[p].id = tx[p].id
    BY <1>1, RecordedType DEF StepFails, ProcessType
  <2> QED BY <1>1, <2>1, StartsRollbackInPlace DEF StepFails, PlanStep
<1>2. CASE CommandFails(p)
  BY <1>2, ExitInPlace DEF CommandFails
<1>3. CASE Crash(p)
  BY <1>3, ExitInPlace DEF Crash
<1> QED BY <1>1, <1>2, <1>3

LEMMA StepInPlace ==
  ASSUME TypeInv, NEW p \in Proc, Step(p)
  PROVE  \A q \in Proc : InPlace(q)'
<1>1. InPlace(p)'
  BY ApplyInPlace, RollbackInPlace, FailureInPlace DEF Step
<1>2. ASSUME NEW q \in Proc, q # p PROVE InPlace(q)'
  <2>1. /\ pc'[q] = pc[q] /\ request'[q] = request[q] /\ todo'[q] = todo[q]
        /\ tx'[q] = tx[q] /\ restore'[q] = restore[q] /\ remove'[q] = remove[q]
    BY <1>2, StepTypes DEF Elsewhere
  <2>2. tx[q].id \in 1 .. clock => tx'[q].id \in 1 .. clock'
    BY <2>1, StepClock DEF TypeInv, TypeOK, DiskType
  <2> QED BY <2>1, <2>2 DEF TypeInv, InPlace
<1> QED BY <1>1, <1>2

LEMMA TypeNext ==
  ASSUME TypeInv, [Next]_vars
  PROVE  TypeInv'
<1>1. CASE UNCHANGED vars
  BY <1>1
  DEF vars, disk, local, others, TypeInv, TypeOK, DiskType, ProcessType,
      BudgetType, InPlace
<1>2. ASSUME NEW p \in Proc, Step(p) PROVE TypeInv'
  <2>1. ProcessType' /\ DiskType' /\ BudgetType' /\ \A q \in Proc : InPlace(q)'
    BY <1>2, StepTypes, StepDiskType, StepClock, StepInPlace
  <2>2. \A q \in Proc : pc'[q] \in PlanStep => todo'[q] # <<>>
    BY <2>1 DEF InPlace, PlanStep, PlanCall, CallFor
  <2>3. Whole(state') => state'.backup_id \in (1 .. clock') \union {None}
    <3>1. clock \in Int /\ clock' \in Int /\ clock <= clock'
      BY <1>2, StepClock DEF TypeInv, TypeOK, DiskType
    <3>2. CASE state' = state
      BY <3>1, <3>2 DEF TypeInv, TypeOK
    <3>3. CASE WritesState(p)
      <4>1. CASE state' = Torn
        BY <4>1 DEF Whole
      <4>2. CASE state' = DefaultState
        BY <4>2 DEF DefaultState
      <4>3. CASE /\ pc[p] = "state"
                 /\ state' = state_from_manifest(tx[p].id,
                        manifest_from_transaction(tx[p], request[p].profile))
        <5>1. tx[p].id \in 1 .. clock
          BY <4>3, TxId
        <5>2. state'.backup_id = tx[p].id
          BY <4>3 DEF state_from_manifest
        <5> QED BY <3>1, <5>1, <5>2
      <4> QED BY <3>3, <4>1, <4>2, <4>3 DEF WritesState
    <3> QED
      BY <1>2, <3>2, <3>3, StepWrites
      DEF DiskStep, WritesFile, WritesBackup, WritesManifest, disk
  <2>4. \A q \in Proc : pc'[q] \notin {"idle", "begin"} => tx'[q].id \in 1 .. clock'
    BY <2>1 DEF InPlace
  <2> QED BY <2>1, <2>2, <2>3, <2>4 DEF TypeInv, TypeOK
<1> QED BY <1>1, <1>2 DEF Next, Step

\* TypeOK holds of every instance: in particular the commands never use an id
\* that was not handed out, and never run out of their plan.
THEOREM TypeCorrect == Spec => []TypeOK
<1>1. Init => TypeInv
  BY InitTypes
<1>2. TypeInv /\ [Next]_vars => TypeInv'
  BY TypeNext
<1>3. TypeInv => TypeOK
  BY DEF TypeInv
<1> QED BY <1>1, <1>2, <1>3, PTL DEF Spec
-----------------------------------------------------------------------------
(* What a step makes of the transaction of its process.                    *)

\* p owns a transaction: the id is its own, not one it rolls back to.
Owns(p) == request[p] # None /\ tx[p].id # None

\* The plan goes on, and nothing is recorded.
Works(p) ==
  /\ pc[p] \in PlanStep /\ pc'[p] \in PlanCall
  /\ request'[p] = request[p] /\ tx'[p] = tx[p]
  /\ restore'[p] = {} /\ remove'[p] = {}
  /\ UNCHANGED <<backups, manifests>>

\* The plan is behind p, or ahead of it.
Winds(p) ==
  /\ pc'[p] \notin Applying
  /\ tx'[p].created \subseteq tx[p].created /\ tx'[p].backed \subseteq tx[p].backed
  /\ restore'[p] \subseteq restore[p] /\ remove'[p] \subseteq remove[p]
  /\ Owns(p)' =>
       /\ Owns(p) /\ tx'[p].id = tx[p].id
       /\ pc[p] \in {"restore", "remove"} /\ UNCHANGED <<backups, manifests>>
  /\ restore'[p] # {} /\ Owns(p) => Owns(p)'

TxStep(p) ==
  \/ begin_transaction(p)
  \/ Works(p)
  \/ snapshot_before_write(p)
  \/ write_backup_manifest(p)
  \/ StepFails(p)
  \/ read_backup_manifest(p) /\ pc'[p] # "idle"
  \/ Winds(p)

LEMMA EmptyTx ==
  /\ NoTx.id = None /\ NoTx.created = {} /\ NoTx.backed = {}
  /\ \A id : NewTx(id).created = {} /\ NewTx(id).backed = {}
  BY DEF NoTx, NewTx

LEMMA ExitWinds ==
  ASSUME ProcessType, NEW p \in Proc, NEW code, Exit(p, code)
  PROVE  Winds(p)
<1>1. /\ pc'[p] = "idle" /\ request'[p] = None /\ tx'[p] = NoTx
      /\ restore'[p] = {} /\ remove'[p] = {}
  BY ExitInPlace
<1> QED BY <1>1, EmptyTx DEF Winds, Owns, Applying

LEMMA StepDoneWorks ==
  ASSUME TypeInv, NEW p \in Proc, pc[p] \in PlanStep, StepDone(p),
         UNCHANGED <<request, tx, restore, remove, backups, manifests>>
  PROVE  Works(p)
<1>1. pc'[p] \in PlanCall
  <2>1. todo[p] # <<>> /\ todo[p] \in Seq(Action)
    BY DEF TypeInv, TypeOK, ProcessType
  <2>2. Tail(todo[p]) \in Seq(Action)
    BY <2>1, HeadTailProperties
  <2> QED BY <2>2, CallType DEF StepDone, TypeInv, TypeOK, ProcessType
<1> QED BY <1>1 DEF Works, TypeInv, InPlace, PlanStep

LEMMA StepOfTx ==
  ASSUME TypeInv, NEW p \in Proc, Step(p)
  PROVE  TxStep(p)
<1> USE DEF TypeInv, TypeOK
<1>0. InPlace(p)
  OBVIOUS
<1>1. CASE \/ begin_transaction(p) \/ snapshot_before_write(p)
           \/ write_backup_manifest(p) \/ StepFails(p)
  BY <1>1 DEF TxStep
<1>2. CASE ensure_dir(p) \/ write_file(p) \/ daemon_reload(p)
  BY <1>2, StepDoneWorks
  DEF TxStep, ensure_dir, write_file, daemon_reload, PlanStep, disk
<1>3. CASE ApplyNoChanges(p) \/ RollbackWithoutState(p)
  <2>1. tx[p].id = None
    BY <1>0, <1>3, EmptyTx
    DEF ApplyNoChanges, RollbackWithoutState, Begins, InPlace
  <2> QED
    BY <1>3, <2>1
    DEF ApplyNoChanges, RollbackWithoutState, Begins, TxStep, Winds, Owns,
        Applying
<1>4. CASE ApplyPlanned(p)
  <2>1. tx[p].id = None
    BY <1>0, <1>4, EmptyTx DEF ApplyPlanned, Begins, InPlace
  <2> QED
    BY <1>4, <2>1
    DEF ApplyPlanned, TxStep, Winds, Owns, Applying, ProcessType
<1>5. CASE RollbackLast(p) \/ RollbackTo(p)
  <2>1. request'[p] = None /\ request[p] = None
    BY <1>0, <1>5 DEF RollbackLast, RollbackTo, Begins, InPlace
  <2>2. tx'[p].created = {} /\ tx'[p].backed = {}
    BY <1>5, EmptyTx DEF RollbackLast, RollbackTo, ProcessType
  <2> QED
    BY <1>5, <2>1, <2>2
    DEF RollbackLast, RollbackTo, TxStep, Winds, Owns, Applying, ProcessType
<1>6. CASE read_backup_manifest(p)
  BY <1>6, ExitWinds DEF read_backup_manifest, TxStep, ProcessType, Exit,
    StartsRollback, RollbackCall
<1>7. CASE RestorePath(p)
  BY <1>7
  DEF RestorePath, StartsRollback, RollbackCall, TxStep, Winds, Owns, Applying,
      ProcessType
<1>8. CASE RemovePath(p)
  BY <1>8
  DEF RemovePath, StartsRollback, RollbackCall, TxStep, Winds, Owns, Applying,
      ProcessType
<1>9. CASE ReloadRolledBack(p)
  <2>1. CASE request[p] # None
    BY <1>9, <2>1, ExitWinds DEF ReloadRolledBack, TxStep
  <2>2. CASE request[p] = None
    BY <1>0, <1>9, <2>2
    DEF ReloadRolledBack, local, TxStep, Winds, Owns, Applying, ProcessType,
        InPlace
  <2> QED BY <2>1, <2>2
<1>10. CASE write_state(p) \/ ResetState(p) \/ CommandFails(p) \/ Crash(p)
  BY <1>10, ExitWinds DEF write_state, ResetState, CommandFails, Crash, TxStep
<1> QED
  BY <1>1, <1>2, <1>3, <1>4, <1>5, <1>6, <1>7, <1>8, <1>9, <1>10
  DEF Step, Apply, Rollback
-----------------------------------------------------------------------------
(* The invariant.                                                          *)

OwnIds ==
  \A p, q \in Proc : p # q /\ Owns(p) /\ Owns(q) => tx[p].id # tx[q].id

FreshIds ==
  \A id \in Id : id > clock =>
    manifests[id] = Absent /\ backups[id] = [path \in Path |-> Absent]

\* What p has recorded is what is on disk, and no manifest of it is before
\* the last call.
Records(p) ==
  /\ pc[p] \in Applying =>
       /\ tx[p].managed = tx[p].created \union tx[p].backed
       /\ tx[p].created \intersect tx[p].backed = {}
       /\ \A path \in Path :
            path \in tx[p].backed <=> backups[tx[p].id][path] # Absent
  /\ Owns(p) /\ pc[p] # "state" => ~Whole(manifests[tx[p].id])
  /\ pc[p] = "state" =>
       manifests[tx[p].id] = manifest_from_transaction(tx[p], request[p].profile)

OwnInv ==
  TypeInv /\ OwnIds /\ FreshIds /\ \A p \in Proc : Records(p)

Inv == OwnInv /\ StateNamesManifest /\ ManifestIsComplete

LEMMA WorkingOwns ==
  ASSUME TypeInv, NEW p \in Proc
  PROVE  /\ pc[p] \in Applying => Owns(p) /\ tx[p].id \in 1 .. clock
         /\ Owns(p) => tx[p].id \in 1 .. clock /\ tx[p].id \in Id
<1>1. InPlace(p)
  BY DEF TypeInv
<1>2. pc[p] \in Applying => request[p] # None /\ tx[p].id \in 1 .. clock
  BY <1>1 DEF InPlace, Applying
<1>3. 1 .. clock \subseteq Id /\ None \notin Id
  BY BoundsAreNat, NoneIsOther DEF TypeInv, TypeOK, DiskType, Id
<1>4. Owns(p) => tx[p].id \in 1 .. clock
  BY <1>1, EmptyTx DEF InPlace, Owns
<1> QED BY <1>2, <1>3, <1>4 DEF Owns

\* Only the owner of a transaction writes its copies and its manifest, and
\* the manifest it writes over is not whole.
LEMMA OthersKeep ==
  ASSUME TypeInv, NEW p \in Proc, Step(p)
  PROVE  \/ UNCHANGED <<backups, manifests>>
         \/ /\ Owns(p) /\ tx[p].id \in 1 .. clock
            /\ pc[p] \in {"snapshot", "manifest"}
            /\ \A id \in Id \ {tx[p].id} :
                 backups'[id] = backups[id] /\ manifests'[id] = manifests[id]
<1> USE DEF TypeInv, TypeOK, DiskType
<1>1. CASE WritesBackup(p)
  <2>1. pc[p] \in Applying
    BY <1>1 DEF WritesBackup, Applying
  <2> QED BY <1>1, <2>1, WorkingOwns DEF WritesBackup
<1>2. CASE WritesManifest(p)
  <2>1. pc[p] \in Applying
    BY <1>2 DEF WritesManifest, Applying
  <2> QED BY <1>2, <2>1, WorkingOwns DEF WritesManifest
<1>3. CASE UNCHANGED disk \/ WritesFile(p) \/ WritesState(p)
  BY <1>3 DEF disk, WritesFile, WritesState
<1> QED BY <1>1, <1>2, <1>3, StepWrites DEF DiskStep

LEMMA OwnsNext ==
  ASSUME TypeInv, NEW p \in Proc, Step(p), Owns(p)'
  PROVE  \/ Owns(p) /\ tx'[p].id = tx[p].id
         \/ begin_transaction(p) /\ tx'[p].id = clock + 1
<1> USE DEF TypeInv, TypeOK
<1>1. CASE begin_transaction(p)
  <2>1. clock + 1 \in Id
    BY <1>1, BoundsAreNat DEF begin_transaction, DiskType, Id
  <2> QED
    BY <1>1, <2>1, NewTxType DEF begin_transaction, ProcessType
<1>2. CASE Works(p) \/ Winds(p)
  BY <1>2 DEF Works, Winds, Owns
<1>3. CASE snapshot_before_write(p)
  BY <1>3 DEF snapshot_before_write, Managing, ProcessType, Owns
<1>4. CASE write_backup_manifest(p)
  BY <1>4 DEF write_backup_manifest, local, Owns
<1>5. CASE StepFails(p)
  BY <1>5, RecordedType DEF StepFails, ProcessType, Owns
<1>6. CASE read_backup_manifest(p) /\ pc'[p] # "idle"
  <2>1. request'[p] = request[p]
    BY <1>6 DEF read_backup_manifest, Exit, ProcessType
  <2>2. request[p] = None
    BY <1>6 DEF read_backup_manifest, InPlace
  <2> QED BY <2>1, <2>2 DEF Owns
<1> QED
  BY <1>1, <1>2, <1>3, <1>4, <1>5, <1>6, StepOfTx DEF TxStep

LEMMA OwnIdsNext ==
  ASSUME OwnInv, NEW p \in Proc, Step(p)
  PROVE  OwnIds'
<1> USE DEF OwnInv
<1>1. \A q \in Proc \ {p} : Owns(q)' => Owns(q) /\ tx'[q].id = tx[q].id
  BY StepTypes DEF Elsewhere, Owns
<1>2. \A q \in Proc : Owns(q) => tx[q].id \in 1 .. clock
  BY WorkingOwns
<1>3. clock \in Int
  BY DEF TypeInv, TypeOK, DiskType
<1>4. Owns(p)' => \/ Owns(p) /\ tx'[p].id = tx[p].id
                  \/ tx'[p].id = clock + 1
  BY OwnsNext
<1> QED BY <1>1, <1>2, <1>3, <1>4 DEF OwnIds

LEMMA FreshIdsNext ==
  ASSUME OwnInv, NEW p \in Proc, Step(p)
  PROVE  FreshIds'
<1> USE DEF OwnInv
<1>1. clock \in Int /\ clock' \in Int /\ clock <= clock'
  BY StepClock DEF TypeInv, TypeOK, DiskType
<1>2. \A id \in Id : id > clock => backups'[id] = backups[id] /\ manifests'[id] = manifests[id]
  BY <1>1, OthersKeep DEF Id
<1> QED BY <1>1, <1>2 DEF FreshIds, Id

LEMMA OthersRecords ==
  ASSUME OwnInv, NEW p \in Proc, Step(p), NEW q \in Proc, q # p
  PROVE  Records(q)'
<1> USE DEF OwnInv
<1>1. pc'[q] = pc[q] /\ request'[q] = request[q] /\ tx'[q] = tx[q]
  BY StepTypes DEF Elsewhere
<1>2. ASSUME Owns(q) PROVE /\ backups'[tx[q].id] = backups[tx[q].id]
                           /\ manifests'[tx[q].id] = manifests[tx[q].id]
  BY <1>2, OthersKeep, WorkingOwns DEF OwnIds
<1>3. Records(q) /\ (pc[q] \in Applying => Owns(q)) /\ (Owns(q)' => Owns(q))
  BY <1>1, WorkingOwns DEF Owns
<1>4. pc[q] = "state" => pc[q] \in Applying
  BY DEF Applying
<1> QED BY <1>1, <1>2, <1>3, <1>4 DEF Records

LEMMA BeginRecords ==
  ASSUME OwnInv, NEW p \in Proc, begin_transaction(p)
  PROVE  Records(p)'
<1> USE DEF OwnInv, TypeInv, TypeOK
<1>1. clock + 1 \in Id /\ clock + 1 > clock
  BY BoundsAreNat DEF begin_transaction, DiskType, Id
<1>2. tx'[p] = NewTx(clock + 1) /\ backups' = backups /\ manifests' = manifests
  BY DEF begin_transaction, disk, ProcessType
<1>3. tx'[p].id = clock + 1
  BY <1>1, <1>2, NewTxType
<1>4. tx'[p].managed = {} /\ tx'[p].created = {} /\ tx'[p].backed = {}
  BY <1>2 DEF NewTx, NoTx
<1>5. /\ manifests[clock + 1] = Absent
      /\ backups[clock + 1] = [path \in Path |-> Absent]
  BY <1>1 DEF FreshIds
<1>6. pc'[p] # "state"
  BY CallType DEF begin_transaction, ProcessType, PlanCall
<1> QED
  BY <1>2, <1>3, <1>4, <1>5, <1>6 DEF Records, Whole

LEMMA SnapshotRecords ==
  ASSUME OwnInv, NEW p \in Proc, snapshot_before_write(p)
  PROVE  Records(p)'
<1> USE DEF OwnInv
<1> DEFINE path == Head(todo[p]).path
           id == tx[p].id
<1>1. path \in Path /\ id \in Id /\ tx[p] \in Tx
  BY Writing, TxId DEF snapshot_before_write, TypeInv, TypeOK, ProcessType
<1>2. /\ tx[p].managed = tx[p].created \union tx[p].backed
      /\ tx[p].created \intersect tx[p].backed = {}
      /\ \A other \in Path : other \in tx[p].backed <=> backups[id][other] # Absent
      /\ Owns(p) /\ ~Whole(manifests[id])
  BY WorkingOwns DEF Records, snapshot_before_write, Applying
<1>3. manifests' = manifests /\ pc'[p] = "write" /\ request' = request
  BY DEF snapshot_before_write, TypeInv, TypeOK, ProcessType
<1>4. tx'[p].id = id /\ tx'[p].managed = tx[p].managed \union {path}
  BY DEF snapshot_before_write, Managing, TypeInv, TypeOK, ProcessType
<1>5. CASE Snapshotted(tx[p], path)
  <2>1. /\ tx'[p].created = tx[p].created /\ tx'[p].backed = tx[p].backed
        /\ backups' = backups
    BY <1>5 DEF snapshot_before_write, Managing, TypeInv, TypeOK, ProcessType
  <2>2. path \in tx[p].created \union tx[p].backed
    BY <1>5 DEF Snapshotted
  <2> HIDE DEF path
  <2> QED
    BY <1>2, <1>3, <1>4, <2>1, <2>2 DEF Records
<1>6. CASE ~Snapshotted(tx[p], path) /\ files[path] # Absent
  <2>1. /\ tx'[p].created = tx[p].created
        /\ tx'[p].backed = tx[p].backed \union {path}
        /\ backups' = [backups EXCEPT ![id][path] = files[path]]
    BY <1>6 DEF snapshot_before_write, Managing, TypeInv, TypeOK, ProcessType
  <2>2. path \notin tx[p].created
    BY <1>6 DEF Snapshotted
  <2>3. \A other \in Path :
          backups'[id][other] = IF other = path THEN files[path] ELSE backups[id][other]
    BY <1>1, <2>1 DEF TypeInv, TypeOK, DiskType, Files
  <2> HIDE DEF path, id
  <2>4. \A other \in Path : other \in tx'[p].backed <=> backups'[id][other] # Absent
    BY <1>2, <1>6, <2>1, <2>3
  <2> QED
    BY <1>2, <1>3, <1>4, <2>1, <2>2, <2>4 DEF Records
<1>7. CASE ~Snapshotted(tx[p], path) /\ files[path] = Absent
  <2>1. /\ tx'[p].created = tx[p].created \union {path}
        /\ tx'[p].backed = tx[p].backed /\ backups' = backups
    BY <1>7 DEF snapshot_before_write, Managing, TypeInv, TypeOK, ProcessType
  <2>2. path \notin tx[p].backed
    BY <1>7 DEF Snapshotted
  <2> HIDE DEF path, id
  <2> QED
    BY <1>2, <1>3, <1>4, <2>1, <2>2 DEF Records
<1> QED BY <1>5, <1>6, <1>7

LEMMA RecordsNext ==
  ASSUME OwnInv, NEW p \in Proc, Step(p)
  PROVE  \A q \in Proc : Records(q)'
<1> USE DEF OwnInv
<1> SUFFICES Records(p)'
  BY OthersRecords
<1>0. Records(p) /\ TypeInv'
  BY TypeNext DEF Next, Step
<1>1. CASE begin_transaction(p)
  BY <1>1, BeginRecords
<1>2. CASE snapshot_before_write(p)
  BY <1>2, SnapshotRecords
<1>3. CASE Works(p)
  <2>1. pc[p] \in Applying /\ pc[p] # "state" /\ pc'[p] # "state"
    BY <1>3 DEF Works, PlanStep, PlanCall, Applying
  <2>2. Owns(p)
    BY <2>1, WorkingOwns
  <2> QED BY <1>0, <1>3, <2>1, <2>2 DEF Works, Records
<1>4. CASE write_backup_manifest(p)
  <2>1. /\ pc[p] \in Applying /\ pc'[p] = "state" /\ backups' = backups
        /\ tx' = tx /\ request' = request
        /\ manifests'[tx[p].id] = manifest_from_transaction(tx[p], request[p].profile)
    BY <1>4, TxId
    DEF write_backup_manifest, local, Applying, TypeInv, TypeOK, ProcessType,
        DiskType
  <2> QED BY <1>0, <2>1 DEF Records
<1>5. CASE StepFails(p)
  <2>1. pc'[p] \in {"restore", "remove", "reread"}
    BY <1>5
    DEF StepFails, StartsRollback, RollbackCall, TypeInv, TypeOK, ProcessType
  <2>2. manifests' = manifests
    BY <1>5, StepWrites
    DEF StepFails, PlanStep, FailureLeaves, Tears, disk
  <2>3. tx'[p].id = tx[p].id /\ request' = request /\ pc[p] # "state"
    BY <1>5, RecordedType
    DEF StepFails, PlanStep, TypeInv, TypeOK, ProcessType
  <2> QED
    BY <1>0, <2>1, <2>2, <2>3 DEF Records, Owns, Applying
<1>6. CASE read_backup_manifest(p) /\ pc'[p] # "idle"
  <2>1. request'[p] = None
    BY <1>6
    DEF read_backup_manifest, Exit, InPlace, TypeInv, TypeOK, ProcessType
  <2>2. pc'[p] \notin Applying
    BY <1>0, <2>1, WorkingOwns DEF InPlace, TypeInv
  <2> QED BY <2>1, <2>2 DEF Records, Owns, Applying
<1>7. CASE Winds(p)
  BY <1>0, <1>7 DEF Winds, Records, Owns, Applying
<1> QED
  BY <1>1, <1>2, <1>3, <1>4, <1>5, <1>6, <1>7, StepOfTx DEF TxStep

LEMMA OwnNext ==
  ASSUME OwnInv, NEW p \in Proc, Step(p)
  PROVE  OwnInv'
<1>1. TypeInv'
  BY TypeNext DEF OwnInv, Next, Step
<1> QED BY <1>1, OwnIdsNext, FreshIdsNext, RecordsNext DEF OwnInv

LEMMA StateNamesNext ==
  ASSUME OwnInv, StateNamesManifest, NEW p \in Proc, Step(p)
  PROVE  StateNamesManifest'
<1> USE DEF OwnInv, TypeInv, TypeOK
<1>1. CASE UNCHANGED <<state, manifests>>
  BY <1>1 DEF StateNamesManifest
<1>2. CASE WritesManifest(p)
  <2>1. /\ ~Whole(manifests[tx[p].id]) /\ tx[p].id \in Id
        /\ state' = state
    BY <1>2, WorkingOwns, TxId DEF WritesManifest, Records, Applying
  <2>2. SUFFICES ASSUME Whole(state), state.backup_id # None
                 PROVE  manifests'[state.backup_id] = manifests[state.backup_id]
    BY <2>1 DEF StateNamesManifest
  <2>3. state.backup_id # tx[p].id
    BY <2>1, <2>2 DEF StateNamesManifest
  <2>4. state.backup_id \in Id
    BY <2>2, BoundsAreNat DEF DiskType, Id
  <2> QED BY <1>2, <2>3, <2>4 DEF WritesManifest, DiskType
<1>3. CASE WritesState(p)
  <2>1. manifests' = manifests
    BY <1>3 DEF WritesState
  <2>2. CASE state' = Torn
    BY <2>2 DEF StateNamesManifest, Whole
  <2>3. CASE state' = DefaultState
    BY <2>3 DEF StateNamesManifest, DefaultState
  <2>4. CASE pc[p] = "state" /\ state' \notin {Torn, DefaultState}
    <3> DEFINE m == manifest_from_transaction(tx[p], request[p].profile)
    <3>1. state' = state_from_manifest(tx[p].id, m)
      BY <1>3, <2>4 DEF WritesState
    <3>2. m \in Manifest /\ manifests[tx[p].id] = m
      BY <2>4, FromManifest DEF Records
    <3>3. Whole(m)
      BY <3>2, DocumentsDiffer DEF Whole
    <3> HIDE DEF m
    <3> QED
      BY <2>1, <3>1, <3>2, <3>3 DEF StateNamesManifest, state_from_manifest
  <2> QED BY <1>3, <2>2, <2>3, <2>4 DEF WritesState
<1> QED
  BY <1>1, <1>2, <1>3, StepWrites DEF DiskStep, WritesFile, WritesBackup, disk

LEMMA ManifestIsCompleteNext ==
  ASSUME OwnInv, ManifestIsComplete, NEW p \in Proc, Step(p)
  PROVE  ManifestIsComplete'
<1> USE DEF OwnInv, TypeInv, TypeOK
<1>1. CASE UNCHANGED <<backups, manifests>>
  BY <1>1 DEF ManifestIsComplete
<1>2. CASE ~UNCHANGED <<backups, manifests>>
  <2> DEFINE id == tx[p].id
  <2>1. /\ Owns(p) /\ pc[p] \in {"snapshot", "manifest"} /\ id \in Id
        /\ \A other \in Id \ {id} :
             backups'[other] = backups[other] /\ manifests'[other] = manifests[other]
    BY <1>2, OthersKeep, WorkingOwns
  <2>2. ~Whole(manifests[id])
    BY <2>1 DEF Records
  <2>3. SUFFICES ASSUME Whole(manifests'[id]), NEW path \in manifests'[id].managed
                 PROVE  path \in manifests'[id].created <=> backups'[id][path] = Absent
    <3> HIDE DEF id
    <3> QED BY <2>1 DEF ManifestIsComplete
  <2>4. manifests'[id] # manifests[id]
    BY <2>2, <2>3
  <2>5. WritesManifest(p)
    BY <2>4, StepWrites DEF DiskStep, WritesFile, WritesBackup, WritesState, disk
  <2>6. /\ manifests'[id] = manifest_from_transaction(tx[p], request[p].profile)
        /\ backups' = backups /\ pc[p] = "manifest"
    BY <2>1, <2>3, <2>5 DEF WritesManifest, DiskType, Whole
  <2>7. path \in tx[p].managed /\ manifests'[id].created = tx[p].created /\ path \in Path
    BY <2>6, <2>3 DEF manifest_from_transaction, ProcessType, Tx
  <2>8. /\ tx[p].managed = tx[p].created \union tx[p].backed
        /\ tx[p].created \intersect tx[p].backed = {}
        /\ path \in tx[p].backed <=> backups[id][path] # Absent
    BY <2>6, <2>7 DEF Records, Applying
  <2> HIDE DEF id
  <2> QED BY <2>6, <2>7, <2>8
<1> QED BY <1>1, <1>2

LEMMA InvInit ==
  ASSUME Init
  PROVE  Inv
<1>1. TypeInv
  BY InitTypes
<1>2. \A p \in Proc : ~Owns(p) /\ pc[p] = "idle"
  BY DEF Init, Owns
<1>3. OwnIds /\ \A p \in Proc : Records(p)
  BY <1>2 DEF OwnIds, Records, Applying
<1>4. FreshIds
  BY DEF Init, FreshIds
<1>5. StateNamesManifest /\ ManifestIsComplete
  BY DEF Init, StateNamesManifest, ManifestIsComplete, Whole
<1> QED BY <1>1, <1>3, <1>4, <1>5 DEF Inv, OwnInv

LEMMA InvNext ==
  ASSUME Inv, [Next]_vars
  PROVE  Inv'
<1>1. CASE UNCHANGED vars
  <2>1. TypeInv'
    BY TypeNext DEF Inv, OwnInv
  <2> QED
    BY <1>1, <2>1
    DEF vars, disk, local, Inv, OwnInv, OwnIds, Owns, FreshIds, Records,
        StateNamesManifest, ManifestIsComplete
<1>2. ASSUME NEW p \in Proc, Step(p) PROVE Inv'
  BY <1>2, OwnNext, StateNamesNext, ManifestIsCompleteNext DEF Inv
<1> QED BY <1>1, <1>2 DEF Next, Step

\* state.json never names a backup that rollback --last could not use, with
\* any number of processes and any failures.
THEOREM StateNamesManifestHolds == Spec => []StateNamesManifest
<1>1. Inv => StateNamesManifest
  BY DEF Inv
<1>2. Init => Inv
  BY InvInit
<1>3. Inv /\ [Next]_vars => Inv'
  BY InvNext
<1> QED BY <1>1, <1>2, <1>3, PTL DEF Spec

\* Every managed path of a manifest on disk was either created by its
\* transaction or has a copy, and not both.
THEOREM ManifestIsCompleteHolds == Spec => []ManifestIsComplete
<1>1. Inv => ManifestIsComplete
  BY DEF Inv
<1>2. Init => Inv
  BY InvInit
<1>3. Inv /\ [Next]_vars => Inv'
  BY InvNext
<1> QED BY <1>1, <1>2, <1>3, PTL DEF Spec
-----------------------------------------------------------------------------
(* No original file is lost.                                               *)

Kept(path) ==
  \/ original[path] = Absent
  \/ \E id \in Id : backups[id][path] = original[path]

\* The files p may still write over have a copy.
KeptBy(p) ==
  /\ pc[p] = "write" => Snapshotted(tx[p], Head(todo[p]).path)
  /\ \A path \in tx[p].created \union tx[p].backed \union remove[p] : Kept(path)
  /\ \A path \in restore[p] :
       Kept(path) \/ (Owns(p) /\ backups[tx[p].id][path] = Absent)

KeptFiles ==
  \A path \in Path : files[path] = original[path] \/ Kept(path)

KeptManifests ==
  \A id \in Id : Whole(manifests[id]) =>
    \A path \in manifests[id].managed \union manifests[id].created : Kept(path)

KeptInv == Inv /\ KeptFiles /\ KeptManifests /\ \A p \in Proc : KeptBy(p)

\* A copy is never written over.
LEMMA CopiesStay ==
  ASSUME Inv, NEW p \in Proc, Step(p), NEW id \in Id, NEW path \in Path,
         backups[id][path] # Absent
  PROVE  backups'[id][path] = backups[id][path]
<1> USE DEF Inv, OwnInv
<1>1. CASE UNCHANGED backups
  BY <1>1
<1>2. CASE WritesBackup(p)
  <2>1. /\ backups[tx[p].id][Head(todo[p]).path] = Absent
        /\ Head(todo[p]).path \in Path
    BY <1>2, Writing DEF WritesBackup, Snapshotted, Records, Applying
  <2> QED
    BY <1>2, <2>1 DEF WritesBackup, TypeInv, TypeOK, DiskType, Files
<1> QED
  BY <1>1, <1>2, StepWrites
  DEF DiskStep, WritesFile, WritesManifest, WritesState, disk

LEMMA KeptStays ==
  ASSUME Inv, NEW p \in Proc, Step(p), NEW path \in Path, Kept(path)
  PROVE  Kept(path)'
<1>1. original' = original
  BY StepClock DEF Inv, OwnInv
<1>2. CASE original[path] = Absent
  BY <1>1, <1>2 DEF Kept
<1>3. CASE original[path] # Absent
  <2>1. PICK id \in Id : backups[id][path] = original[path]
    BY <1>3 DEF Kept
  <2>2. backups'[id][path] = backups[id][path]
    BY <1>3, <2>1, CopiesStay
  <2> QED BY <1>1, <2>1, <2>2 DEF Kept
<1> QED BY <1>2, <1>3

LEMMA KeptFilesNext ==
  ASSUME KeptInv, NEW p \in Proc, Step(p)
  PROVE  KeptFiles'
<1> USE DEF KeptInv
<1>1. original' = original
  BY StepClock DEF Inv, OwnInv
<1>2. CASE files' = files
  BY <1>1, <1>2, KeptStays DEF KeptFiles
<1>3. CASE WritesFile(p)
  <2>1. PICK path \in Path, content \in File :
          Overwrites(p, path) /\ files' = [files EXCEPT ![path] = content]
    BY <1>3 DEF WritesFile
  <2>2. Kept(path)
    <3>1. CASE pc[p] = "write" /\ path = Head(todo[p]).path
      BY <3>1 DEF KeptBy, Snapshotted
    <3>2. CASE path \in restore[p] /\ backups[tx[p].id][path] # Absent
      BY <3>2 DEF KeptBy
    <3>3. CASE path \in remove[p]
      BY <3>3 DEF KeptBy
    <3> QED BY <2>1, <3>1, <3>2, <3>3 DEF Overwrites
  <2>3. \A other \in Path \ {path} : files'[other] = files[other]
    BY <2>1 DEF Inv, OwnInv, TypeInv, TypeOK, DiskType, Files
  <2> QED BY <1>1, <2>2, <2>3, KeptStays DEF KeptFiles
<1> QED
  BY <1>2, <1>3, StepWrites
  DEF Inv, OwnInv, DiskStep, WritesBackup, WritesManifest, WritesState, disk

LEMMA KeptManifestsNext ==
  ASSUME KeptInv, NEW p \in Proc, Step(p)
  PROVE  KeptManifests'
<1> USE DEF KeptInv, Inv, OwnInv
<1>1. \A id \in Id : Whole(manifests[id]) =>
        manifests[id].managed \subseteq Path /\ manifests[id].created \subseteq Path
  BY ManifestPaths DEF TypeInv, TypeOK
<1>2. CASE UNCHANGED manifests
  BY <1>1, <1>2, KeptStays DEF KeptManifests
<1>3. CASE WritesManifest(p)
  <2> SUFFICES ASSUME NEW id \in Id, Whole(manifests'[id]),
                      NEW path \in manifests'[id].managed \union manifests'[id].created
               PROVE  Kept(path)'
    BY DEF KeptManifests
  <2>1. CASE manifests'[id] = manifests[id]
    BY <1>1, <2>1, KeptStays DEF KeptManifests
  <2>2. CASE manifests'[id] # manifests[id]
    <3>1. /\ manifests'[id] = manifest_from_transaction(tx[p], request[p].profile)
          /\ pc[p] = "manifest"
      BY <1>3, <2>2, TxId DEF WritesManifest, TypeInv, TypeOK, DiskType, Whole
    <3>2. path \in tx[p].managed \union tx[p].created
      BY <3>1 DEF manifest_from_transaction
    <3>3. path \in tx[p].created \union tx[p].backed
      BY <3>1, <3>2 DEF Records, Applying
    <3>4. path \in Path
      BY <3>3 DEF TypeInv, TypeOK, ProcessType, Tx
    <3> QED BY <3>3, <3>4, KeptStays DEF KeptBy
  <2> QED BY <2>1, <2>2
<1> QED
  BY <1>2, <1>3, StepWrites
  DEF DiskStep, WritesFile, WritesBackup, WritesState, disk

LEMMA OthersKeptBy ==
  ASSUME KeptInv, NEW p \in Proc, Step(p), NEW q \in Proc, q # p
  PROVE  KeptBy(q)'
<1> USE DEF KeptInv, Inv, OwnInv
<1>1. /\ pc'[q] = pc[q] /\ request'[q] = request[q] /\ todo'[q] = todo[q]
      /\ tx'[q] = tx[q] /\ restore'[q] = restore[q] /\ remove'[q] = remove[q]
  BY StepTypes DEF Elsewhere
<1>2. /\ tx[q].created \subseteq Path /\ tx[q].backed \subseteq Path
      /\ remove[q] \subseteq Path /\ restore[q] \subseteq Path
  BY DEF TypeInv, TypeOK, ProcessType, Tx
<1>3. Owns(q) => Owns(q)' /\ backups'[tx[q].id] = backups[tx[q].id]
  BY <1>1, OthersKeep, WorkingOwns DEF OwnIds, Owns
<1>4. pc'[q] = "write" => Snapshotted(tx'[q], Head(todo'[q]).path)
  BY <1>1 DEF KeptBy
<1>5. \A path \in tx'[q].created \union tx'[q].backed \union remove'[q] : Kept(path)'
  BY <1>1, <1>2, KeptStays DEF KeptBy
<1>6. ASSUME NEW path \in restore'[q]
      PROVE  Kept(path)' \/ (Owns(q)' /\ backups'[tx'[q].id][path] = Absent)
  BY <1>1, <1>2, <1>3, <1>6, KeptStays DEF KeptBy
<1> QED
  <2> HIDE DEF KeptInv, Inv, OwnInv
  <2> QED BY <1>4, <1>5, <1>6 DEF KeptBy, Snapshotted

LEMMA SnapshotKeptBy ==
  ASSUME KeptInv, NEW p \in Proc, snapshot_before_write(p)
  PROVE  KeptBy(p)'
<1> USE DEF KeptInv, Inv, OwnInv
<1>0. Step(p)
  BY DEF Step, Apply
<1> PICK path \in Path : path = Head(todo[p]).path
  BY Writing DEF snapshot_before_write
<1>1. /\ tx[p].id \in Id
      /\ tx[p].created \subseteq Path /\ tx[p].backed \subseteq Path
  BY TxId
  DEF snapshot_before_write, TypeInv, TypeOK, ProcessType, Tx
<1>2. restore'[p] = {} /\ remove'[p] = {} /\ todo' = todo /\ original' = original
  BY DEF snapshot_before_write, TypeInv, InPlace, others
<1>3. /\ tx'[p].created \union tx'[p].backed
           = tx[p].created \union tx[p].backed \union {path}
  BY DEF snapshot_before_write, Managing, Snapshotted, TypeInv, TypeOK, ProcessType
<1>4. Kept(path)'
  <2>1. CASE Snapshotted(tx[p], path)
    BY <1>0, <1>1, <2>1, KeptStays DEF KeptBy, Snapshotted
  <2>2. CASE Kept(path)
    BY <1>0, <1>1, <2>2, KeptStays
  <2>3. CASE ~Snapshotted(tx[p], path) /\ files[path] = original[path] /\ original[path] # Absent
    <3>1. backups' = [backups EXCEPT ![tx[p].id][path] = files[path]]
      BY <2>3 DEF snapshot_before_write
    <3>2. backups'[tx[p].id][path] = original[path]
      BY <1>1, <2>3, <3>1 DEF TypeInv, TypeOK, DiskType, Files
    <3> QED BY <1>1, <1>2, <3>2 DEF Kept
  <2> QED
    BY <1>1, <2>1, <2>2, <2>3 DEF KeptFiles, Kept
<1>5. \A other \in tx[p].created \union tx[p].backed : Kept(other)'
  BY <1>0, <1>1, KeptStays DEF KeptBy
<1> QED
  <2> HIDE DEF KeptInv, Inv, OwnInv
  <2>1. Snapshotted(tx'[p], path)
    BY <1>3 DEF Snapshotted
  <2>2. \A other \in tx'[p].created \union tx'[p].backed : Kept(other)'
    BY <1>3, <1>4, <1>5
  <2> QED BY <1>2, <2>1, <2>2 DEF KeptBy

\* A copy that fails without being killed does not leave a torn backup.
LEMMA StepFailsKeptBy ==
  ASSUME "snapshot" \notin TearingCalls, KeptInv, NEW p \in Proc, StepFails(p)
  PROVE  KeptBy(p)'
<1> USE DEF KeptInv, Inv, OwnInv
<1> DEFINE t == RecordedAtFailure(p)
<1>0. Step(p)
  BY DEF Step
<1>1. /\ tx'[p] = t /\ restore'[p] = t.managed /\ remove'[p] = t.created
      /\ pc'[p] # "write" /\ request' = request
  BY DEF StepFails, StartsRollback, RollbackCall, TypeInv, TypeOK, ProcessType
<1>2. t.id = tx[p].id /\ t.created = tx[p].created /\ t.backed = tx[p].backed
  BY RecordedType
<1>3. backups' = backups
  BY DEF StepFails, FailureLeaves, Tears, PlanStep, disk
<1>4. tx[p].created \subseteq Path /\ tx[p].backed \subseteq Path
  BY DEF TypeInv, TypeOK, ProcessType, Tx
<1>5. \A path \in tx[p].created \union tx[p].backed : Kept(path)'
  BY <1>0, <1>4, KeptStays DEF KeptBy
<1>6. pc[p] \in Applying
  BY DEF StepFails, PlanStep, Applying
<1>7. Owns(p) /\ tx[p].managed = tx[p].created \union tx[p].backed
  BY <1>6, WorkingOwns DEF Records
<1>8. ASSUME NEW path \in t.managed
      PROVE  Kept(path)' \/ backups[tx[p].id][path] = Absent
  <2>1. CASE path \in tx[p].managed
    BY <1>5, <1>7, <2>1
  <2>2. CASE path \notin tx[p].managed
    <3>1. path \in Path
      BY RecordedType
    <3> QED BY <1>6, <1>7, <2>2, <3>1 DEF Records
  <2> QED BY <2>1, <2>2
<1>9. Owns(p)'
  BY <1>1, <1>2, <1>7 DEF Owns
<1> QED
  <2> HIDE DEF KeptInv, Inv, OwnInv, t
  <2> QED BY <1>1, <1>2, <1>3, <1>5, <1>8, <1>9 DEF KeptBy

LEMMA KeptByNext ==
  ASSUME "snapshot" \notin TearingCalls, KeptInv, NEW p \in Proc, Step(p)
  PROVE  KeptBy(p)'
<1> USE DEF KeptInv, Inv, OwnInv
<1>0. /\ tx[p].created \subseteq Path /\ tx[p].backed \subseteq Path
      /\ remove[p] \subseteq Path /\ restore[p] \subseteq Path
  BY DEF TypeInv, TypeOK, ProcessType, Tx
<1>1. CASE begin_transaction(p)
  <2>1. tx'[p].created = {} /\ tx'[p].backed = {}
    BY <1>1, EmptyTx DEF begin_transaction, TypeInv, TypeOK, ProcessType
  <2>2. restore'[p] = {} /\ remove'[p] = {} /\ pc'[p] # "write"
    BY <1>1, CallType
    DEF begin_transaction, TypeInv, TypeOK, ProcessType, InPlace, PlanCall
  <2> QED BY <2>1, <2>2 DEF KeptBy
<1>2. CASE Works(p)
  <2>1. \A path \in tx'[p].created \union tx'[p].backed : Kept(path)'
    BY <1>0, <1>2, KeptStays DEF Works, KeptBy
  <2> QED BY <1>2, <2>1 DEF Works, PlanCall, KeptBy
<1>3. CASE snapshot_before_write(p)
  BY <1>3, SnapshotKeptBy
<1>4. CASE write_backup_manifest(p)
  <2>1. pc'[p] = "state" /\ tx' = tx /\ restore'[p] = {} /\ remove'[p] = {}
    BY <1>4
    DEF write_backup_manifest, local, TypeInv, TypeOK, ProcessType, InPlace
  <2>2. \A path \in tx'[p].created \union tx'[p].backed : Kept(path)'
    BY <1>0, <2>1, KeptStays DEF KeptBy
  <2> QED BY <2>1, <2>2 DEF KeptBy
<1>5. CASE StepFails(p)
  BY <1>5, StepFailsKeptBy
<1>6. CASE read_backup_manifest(p) /\ pc'[p] # "idle"
  <2> DEFINE m == manifests[tx[p].id]
  <2>1. /\ Whole(m) /\ tx[p].id \in Id /\ tx' = tx /\ pc'[p] # "write"
        /\ restore'[p] = m.managed /\ remove'[p] = m.created
    BY <1>6, TxId
    DEF read_backup_manifest, Exit, StartsRollback, RollbackCall, TypeInv,
        TypeOK, ProcessType
  <2>2. m.managed \subseteq Path /\ m.created \subseteq Path
    BY <2>1, ManifestPaths DEF TypeInv, TypeOK
  <2>3. \A path \in m.managed \union m.created : Kept(path)'
    BY <2>1, <2>2, KeptStays DEF KeptManifests
  <2>4. \A path \in tx'[p].created \union tx'[p].backed : Kept(path)'
    BY <1>0, <2>1, KeptStays DEF KeptBy
  <2> HIDE DEF m, KeptInv
  <2> QED BY <2>1, <2>3, <2>4 DEF KeptBy
<1>7. CASE Winds(p)
  <2>1. pc'[p] # "write"
    BY <1>7 DEF Winds, Applying
  <2>2. \A path \in tx'[p].created \union tx'[p].backed \union remove'[p] : Kept(path)'
    BY <1>0, <1>7, KeptStays DEF Winds, KeptBy
  <2>3. ASSUME NEW path \in restore'[p]
        PROVE  Kept(path)' \/ (Owns(p)' /\ backups'[tx'[p].id][path] = Absent)
    <3>1. path \in restore[p] /\ path \in Path
      BY <1>0, <1>7 DEF Winds
    <3>2. CASE Kept(path)
      BY <3>1, <3>2, KeptStays
    <3>3. CASE Owns(p) /\ backups[tx[p].id][path] = Absent
      BY <1>7, <2>3, <3>3 DEF Winds
    <3> QED BY <3>1, <3>2, <3>3 DEF KeptBy
  <2> HIDE DEF KeptInv
  <2> QED BY <2>1, <2>2, <2>3 DEF KeptBy
<1> QED
  BY <1>1, <1>2, <1>3, <1>4, <1>5, <1>6, <1>7, StepOfTx DEF TxStep

LEMMA KeptNext ==
  ASSUME "snapshot" \notin TearingCalls, KeptInv, [Next]_vars
  PROVE  KeptInv'
<1>1. CASE UNCHANGED vars
  <2>1. Inv'
    BY InvNext DEF KeptInv
  <2> QED
    BY <1>1, <2>1
    DEF vars, disk, local, others, KeptInv, KeptFiles, KeptManifests, KeptBy,
        Kept, Owns
<1>2. ASSUME NEW p \in Proc, Step(p) PROVE KeptInv'
  <2>1. Inv'
    BY <1>2, InvNext DEF KeptInv, Next, Step
  <2> QED
    BY <1>2, <2>1, KeptFilesNext, KeptManifestsNext, KeptByNext, OthersKeptBy
    DEF KeptInv
<1> QED BY <1>1, <1>2 DEF Next, Step

\* Whatever was in place before the first command is still there or in a
\* backup, for any number of processes, classes that share slices, failures and
\* kills, provided that a copy which fails does not leave a torn backup (the
\* run apply_torn_backup shows what happens when it does), and that each
\* transaction has an id of its own, as begin_transaction hands them out here.
THEOREM OriginalsAreKeptHolds ==
  ASSUME "snapshot" \notin TearingCalls
  PROVE  Spec => []OriginalsAreKept
<1>1. Init => KeptInv
  <2>1. SUFFICES ASSUME Init PROVE KeptInv
    OBVIOUS
  <2>2. \A p \in Proc : KeptBy(p)
    BY <2>1, EmptyTx DEF Init, KeptBy
  <2> QED
    BY <2>1, <2>2, InvInit DEF KeptInv, KeptFiles, KeptManifests, Init, Whole
<1>2. KeptInv /\ [Next]_vars => KeptInv'
  BY KeptNext
<1>3. KeptInv => OriginalsAreKept
  BY DEF KeptInv, KeptFiles, Kept, OriginalsAreKept
<1> QED BY <1>1, <1>2, <1>3, PTL DEF Spec
=============================================================================
