-------------------------- MODULE AtomicApplyProofs --------------------------
(***************************************************************************)
(* Commands that run one after the other are atomic, whatever they find,   *)
(* whatever fails and wherever they are killed: Transaction with one       *)
(* process implements AtomicApply, for every set of profiles and commands. *)
(* With it, that a command that succeeds or is rolled back leaves the      *)
(* system manager with what is on disk.                                    *)
(*                                                                         *)
(* AloneInv(p) says what p has made of the files it found: while it        *)
(* applies, what the plan up to its place leaves of them; while it rolls   *)
(* back, that only the paths still to be restored or removed are not what  *)
(* the rollback puts back.                                                 *)
(***************************************************************************)
EXTENDS TransactionProofs

-----------------------------------------------------------------------------
(* The invariant of a process that is alone.                               *)

Plan(p) == build_apply_plan(request[p])
Done(p) == Len(Plan(p)) - Len(todo[p])

WritesAt(plan, i, path) == plan[i].kind = "write" /\ plan[i].path = path

\* The first n actions of the plan leave content where was had been.
Leaves(plan, n, path, was, content) ==
  \/ content = was /\ \A i \in 1 .. n : ~WritesAt(plan, i, path)
  \/ \E j \in 1 .. n :
       /\ WritesAt(plan, j, path) /\ content = plan[j].content
       /\ \A i \in (j + 1) .. n : ~WritesAt(plan, i, path)

\* What is still to be done is the rest of the plan.
OnPlan(p) ==
  /\ Len(todo[p]) <= Len(Plan(p))
  /\ \A i \in 1 .. Len(todo[p]) : todo[p][i] = Plan(p)[Done(p) + i]

\* The transaction has what its files were.
Copied(p) ==
  \A path \in Path :
    LET backup == backups[tx[p].id][path] IN
    /\ path \in tx[p].backed => backup = basis[p][path] /\ backup # Absent
    /\ path \in tx[p].created => backup = Absent /\ basis[p][path] = Absent
    /\ path \notin tx[p].created \union tx[p].backed =>
         files[path] = basis[p][path] /\ backup = Absent

Recorded(p) == IF pc[p] = "write" THEN Done(p) + 1 ELSE Done(p)

Applies(p) ==
  /\ OnPlan(p) /\ Copied(p)
  /\ \A path \in Path :
       /\ Leaves(Plan(p), Done(p), path, basis[p][path], files[path])
       /\ path \in tx[p].managed <=> \E j \in 1 .. Recorded(p) : WritesAt(Plan(p), j, path)

\* What the rollback of p ends with.
Back(p) ==
  IF request[p] # None THEN basis[p]
  ELSE LET manifest == manifests[tx[p].id] IN
       [ path \in Path |->
           IF path \notin manifest.managed THEN basis[p][path]
           ELSE IF path \in manifest.created THEN Absent
           ELSE backups[tx[p].id][path] ]

PutsBack(p) ==
  \A path \in Path :
    LET backup == backups[tx[p].id][path] IN
    /\ path \notin restore[p] \union remove[p] => files[path] = Back(p)[path]
    /\ path \in remove[p] => Back(p)[path] = Absent
    /\ path \in restore[p] => backup \in {Absent, Back(p)[path]}
    /\ path \in restore[p] \ remove[p] /\ backup = Absent => files[path] = Back(p)[path]

\* An apply leaves no more than its plan writes, or a part of it.
Partly(p) ==
  \A path \in Path :
    files[path] # basis[p][path] =>
      \E j \in 1 .. Len(Plan(p)) :
        WritesAt(Plan(p), j, path) /\ files[path] \in {Plan(p)[j].content, Torn}

\* Whatever the undo of an apply touches is written by the plan.
Planned(p) ==
  \A path \in Path :
    path \in restore[p] /\ backups[tx[p].id][path] # Absent =>
      \E j \in 1 .. Len(Plan(p)) : WritesAt(Plan(p), j, path)

\* A rollback that p was asked for has only what it found and what it puts
\* back.
Between(p) == \A path \in Path : files[path] \in {basis[p][path], Back(p)[path]}

Returning == {"restore", "remove", "reread", "reset"}

AloneInv(p) ==
  /\ pc[p] # "idle" => basis[p] \in Files
  /\ pc[p] \in {"begin", "read"} => files = basis[p]
  /\ pc[p] = "begin" => todo[p] = Plan(p)
  /\ pc[p] \in Applying => Applies(p)
  /\ pc[p] \in Returning => PutsBack(p)
  /\ pc[p] \in Returning /\ request[p] # None => Partly(p) /\ Planned(p)
  /\ pc[p] \in Returning /\ request[p] = None =>
       Whole(manifests[tx[p].id]) /\ Between(p)

CreatedAreManaged ==
  \A id \in Id : Whole(manifests[id]) => manifests[id].created \subseteq manifests[id].managed

\* The last action of a plan reloads; before its last calls p has had the
\* files loaded.
EndsWithReload(p) == Len(todo[p]) > 0 /\ todo[p][Len(todo[p])] = DaemonReload
Loaded == loaded = [path \in SystemPath |-> files[path]]
LoadInv(p) ==
  /\ pc[p] \in PlanStep \union {"begin"} => EndsWithReload(p)
  /\ pc[p] \in {"manifest", "state", "reset"} => Loaded

-----------------------------------------------------------------------------
(* Along the plan.                                                         *)

LEMMA LastReloads ==
  ASSUME NEW req \in Request
  PROVE  LET plan == build_apply_plan(req) IN Len(plan) \in Nat /\ Len(plan) > 0 /\ plan[Len(plan)] = DaemonReload
<1> DEFINE plan == build_apply_plan(req)
<1>1. plan \in Seq(Action)
  BY PlanType
<1>2. \E front \in Seq(Action) : plan = front \o <<DaemonReload>>
  <2>1. PICK front : plan = front \o <<DaemonReload>> /\ front \in Seq(Action)
    BY PlanFront
  <2> QED BY <2>1
<1>3. PICK front \in Seq(Action) : plan = front \o <<DaemonReload>>
  BY <1>2
<1>4. <<DaemonReload>> \in Seq(Action) /\ Len(<<DaemonReload>>) = 1 /\ <<DaemonReload>>[1] = DaemonReload
  BY ActionTypes
<1> HIDE DEF plan
<1>5. Len(plan) = Len(front) + 1 /\ Len(front) \in Nat
  BY <1>3, <1>4, ConcatProperties, LenProperties
<1>6. plan[Len(plan)] = <<DaemonReload>>[1]
  BY <1>3, <1>4, <1>5, ConcatProperties
<1> QED BY <1>4, <1>5, <1>6 DEF plan

\* What p does next is the action of the plan at its place, and doing it
\* leaves the rest of the plan.
LEMMA Ahead ==
  ASSUME TypeInv, NEW p \in Proc, pc[p] \in PlanStep, OnPlan(p)
  PROVE  /\ request[p] \in Request /\ Plan(p) \in Seq(Action)
         /\ Done(p) \in Nat /\ Done(p) + 1 \in 1 .. Len(Plan(p))
         /\ Head(todo[p]) = Plan(p)[Done(p) + 1]
         /\ Tail(todo[p]) \in Seq(Action) /\ Len(Tail(todo[p])) = Len(todo[p]) - 1
         /\ \A i \in 1 .. Len(Tail(todo[p])) : Tail(todo[p])[i] = todo[p][i + 1]
<1>1. request[p] \in Request /\ todo[p] # <<>> /\ todo[p] \in Seq(Action)
  BY DEF TypeInv, TypeOK, ProcessType, InPlace, PlanStep, Applying
<1>2. Plan(p) \in Seq(Action) /\ Len(Plan(p)) \in Nat
  BY <1>1, PlanType, LenProperties DEF Plan
<1>3. /\ Len(todo[p]) \in Nat \ {0} /\ Head(todo[p]) = todo[p][1]
      /\ Tail(todo[p]) \in Seq(Action) /\ Len(Tail(todo[p])) = Len(todo[p]) - 1
      /\ \A i \in 1 .. Len(Tail(todo[p])) : Tail(todo[p])[i] = todo[p][i + 1]
  BY <1>1, HeadTailProperties, LenProperties, EmptySeq
<1>4. /\ Len(todo[p]) <= Len(Plan(p))
      /\ \A i \in 1 .. Len(todo[p]) : todo[p][i] = Plan(p)[Done(p) + i]
  BY DEF OnPlan
<1>5. Done(p) = Len(Plan(p)) - Len(todo[p])
  BY DEF Done
<1>6. Done(p) \in Nat /\ Done(p) + 1 \in 1 .. Len(Plan(p))
  BY <1>2, <1>3, <1>4, <1>5
<1>7. Head(todo[p]) = Plan(p)[Done(p) + 1]
  <2>1. 1 \in 1 .. Len(todo[p])
    BY <1>3
  <2> QED BY <1>3, <1>4, <2>1
<1> QED BY <1>1, <1>2, <1>3, <1>6, <1>7

LEMMA ManifestIsLast ==
  ASSUME NEW actions \in Seq(Action), CallFor(actions) = "manifest"
  PROVE  actions = <<>>
<1> SUFFICES ASSUME actions # <<>> PROVE FALSE
  OBVIOUS
<1>1. Head(actions) \in Action
  BY HeadTailProperties
<1>2. Head(actions).kind \in {"dir", "reload", "write"}
  BY <1>1 DEF Action
<1> QED BY <1>2 DEF CallFor

LEMMA StepDoneMoves ==
  ASSUME TypeInv, NEW p \in Proc, pc[p] \in PlanStep, OnPlan(p), StepDone(p), request' = request
  PROVE  /\ OnPlan(p)' /\ Plan(p)' = Plan(p) /\ Done(p)' = Done(p) + 1
         /\ pc'[p] = CallFor(todo'[p]) /\ pc'[p] \in PlanCall
         /\ pc'[p] = "manifest" => Done(p) + 1 = Len(Plan(p))
<1>1. todo'[p] = Tail(todo[p]) /\ pc'[p] = CallFor(todo'[p])
  BY DEF StepDone, TypeInv, TypeOK, ProcessType
<1>2. Plan(p)' = Plan(p)
  BY DEF Plan
<1>3. Len(todo[p]) \in Nat /\ Len(Plan(p)) \in Nat
  BY Ahead, LenProperties DEF TypeInv, TypeOK, ProcessType
<1>4. Done(p)' = Done(p) + 1
  <2>1. Len(todo'[p]) = Len(todo[p]) - 1
    BY <1>1, Ahead
  <2>2. Done(p)' = Len(Plan(p)') - Len(todo'[p]) /\ Done(p) = Len(Plan(p)) - Len(todo[p])
    BY DEF Done
  <2> QED BY <1>2, <1>3, <2>1, <2>2
<1>5. OnPlan(p)'
  <2>1. Len(todo'[p]) = Len(todo[p]) - 1
        /\ \A i \in 1 .. Len(todo'[p]) : todo'[p][i] = todo[p][i + 1]
    BY <1>1, Ahead
  <2>2. Len(todo[p]) <= Len(Plan(p)) /\ Done(p) \in Nat
        /\ \A i \in 1 .. Len(todo[p]) : todo[p][i] = Plan(p)[Done(p) + i]
    BY Ahead DEF OnPlan
  <2>3. \A i \in 1 .. Len(todo'[p]) : todo'[p][i] = Plan(p)[Done(p) + 1 + i]
    BY <1>3, <2>1, <2>2
  <2> QED BY <1>2, <1>3, <1>4, <2>1, <2>2, <2>3 DEF OnPlan
<1>6. pc'[p] \in PlanCall
  BY <1>1, Ahead, CallType
<1>7. ASSUME pc'[p] = "manifest" PROVE Done(p) + 1 = Len(Plan(p))
  <2>1. todo'[p] = <<>>
    BY <1>1, <1>7, Ahead, ManifestIsLast
  <2>2. Len(todo'[p]) = 0 /\ Len(todo'[p]) = Len(todo[p]) - 1
    BY <1>1, <2>1, Ahead, EmptySeq
  <2>3. Done(p) = Len(Plan(p)) - Len(todo[p])
    BY DEF Done
  <2> QED BY <1>3, <2>2, <2>3
<1> QED BY <1>1, <1>2, <1>4, <1>5, <1>6, <1>7

LEMMA LeavesMore ==
  ASSUME NEW plan, NEW n \in Nat, NEW path, NEW was, NEW content, Leaves(plan, n, path, was, content)
  PROVE  /\ WritesAt(plan, n + 1, path) => Leaves(plan, n + 1, path, was, plan[n + 1].content)
         /\ ~WritesAt(plan, n + 1, path) => Leaves(plan, n + 1, path, was, content)
<1>1. WritesAt(plan, n + 1, path) => Leaves(plan, n + 1, path, was, plan[n + 1].content)
  BY DEF Leaves
<1>2. CASE ~WritesAt(plan, n + 1, path) /\ content = was /\ \A i \in 1 .. n : ~WritesAt(plan, i, path)
  BY <1>2 DEF Leaves
<1>3. CASE ~WritesAt(plan, n + 1, path)
           /\ \E j \in 1 .. n :
                /\ WritesAt(plan, j, path) /\ content = plan[j].content
                /\ \A i \in (j + 1) .. n : ~WritesAt(plan, i, path)
  <2>1. PICK j \in 1 .. n : /\ WritesAt(plan, j, path) /\ content = plan[j].content
                            /\ \A i \in (j + 1) .. n : ~WritesAt(plan, i, path)
    BY <1>3
  <2>2. j \in 1 .. (n + 1) /\ \A i \in (j + 1) .. (n + 1) : ~WritesAt(plan, i, path)
    BY <1>3, <2>1
  <2> QED BY <2>1, <2>2 DEF Leaves
<1> QED BY <1>1, <1>2, <1>3 DEF Leaves

-----------------------------------------------------------------------------
(* The steps of the plan.                                                  *)

\* The action at the place of p is of the kind of its call.
LEMMA KindOfCall ==
  ASSUME TypeInv, NEW p \in Proc, pc[p] \in PlanStep
  PROVE  Head(todo[p]).kind = IF pc[p] \in {"snapshot", "write"} THEN "write" ELSE pc[p]
<1>1. /\ pc[p] \in PlanCall => pc[p] = CallFor(todo[p])
      /\ pc[p] = "write" => CallFor(todo[p]) = "snapshot"
      /\ todo[p] # <<>> /\ todo[p] \in Seq(Action)
  BY DEF TypeInv, TypeOK, ProcessType, InPlace
<1>2. Head(todo[p]) \in Action
  BY <1>1, HeadTailProperties
<1>3. Head(todo[p]).kind \in {"dir", "reload", "write"}
  BY <1>2 DEF Action
<1>4. CallFor(todo[p]) = IF Head(todo[p]).kind = "write" THEN "snapshot" ELSE Head(todo[p]).kind
  BY <1>1 DEF CallFor
<1> QED BY <1>1, <1>3, <1>4 DEF PlanStep, PlanCall

LEMMA SnapshottedIsRecorded ==
  ASSUME Inv, NEW p \in Proc, pc[p] \in Applying
  PROVE  \A path : path \in tx[p].managed <=> path \in tx[p].created \union tx[p].backed
  BY DEF Inv, OwnInv, Records

LEMMA WorksApplies ==
  ASSUME Inv, NEW p \in Proc, AloneInv(p), pc[p] \in {"dir", "write", "reload"},
         StepDone(p), UNCHANGED <<request, tx, basis, backups>>,
         \A path \in Path :
           files'[path] = IF WritesAt(Plan(p), Done(p) + 1, path)
                          THEN Plan(p)[Done(p) + 1].content ELSE files[path]
  PROVE  Applies(p)'
<1> DEFINE plan == Plan(p)
           n == Done(p)
<1>1. TypeInv /\ pc[p] \in PlanStep /\ pc[p] \in Applying
  BY DEF Inv, OwnInv, PlanStep, Applying
<1>2. Applies(p)
  BY <1>1 DEF AloneInv
<1>3. /\ OnPlan(p) /\ Copied(p)
      /\ \A path \in Path :
           /\ Leaves(plan, n, path, basis[p][path], files[path])
           /\ path \in tx[p].managed <=> \E j \in 1 .. Recorded(p) : WritesAt(plan, j, path)
  BY <1>2 DEF Applies
<1>4. /\ OnPlan(p)' /\ Plan(p)' = plan /\ Done(p)' = n + 1 /\ pc'[p] # "write"
  BY <1>1, <1>3, StepDoneMoves DEF PlanCall
<1>5. n \in Nat /\ Head(todo[p]) = plan[n + 1]
  BY <1>1, <1>3, Ahead
<1> HIDE DEF plan, n
<1>6. Recorded(p)' = n + 1
  BY <1>4 DEF Recorded
<1>7. pc[p] # "write" => Recorded(p) = n /\ \A path : ~WritesAt(plan, n + 1, path)
  <2>1. pc[p] # "write" => Recorded(p) = n
    BY DEF Recorded, n
  <2>2. pc[p] # "write" => plan[n + 1].kind # "write"
    BY <1>1, <1>5, KindOfCall
  <2> QED BY <2>1, <2>2 DEF WritesAt
<1>8. pc[p] = "write" => Recorded(p) = n + 1
  BY DEF Recorded, n
<1>9. ASSUME NEW path \in Path
      PROVE  /\ Leaves(plan, n + 1, path, basis[p][path], files'[path])
             /\ path \in tx[p].managed <=> \E j \in 1 .. (n + 1) : WritesAt(plan, j, path)
  <2>1. Leaves(plan, n, path, basis[p][path], files[path])
    BY <1>3
  <2>2. files'[path] = IF WritesAt(plan, n + 1, path) THEN plan[n + 1].content ELSE files[path]
    BY DEF plan, n
  <2>3. Leaves(plan, n + 1, path, basis[p][path], files'[path])
    BY <1>5, <2>1, <2>2, LeavesMore
  <2>4. path \in tx[p].managed <=> \E j \in 1 .. Recorded(p) : WritesAt(plan, j, path)
    BY <1>3
  <2>5. CASE pc[p] = "write"
    BY <1>8, <2>3, <2>4, <2>5
  <2>6. CASE pc[p] # "write"
    <3>1. 1 .. (n + 1) = 1 .. n \union {n + 1}
      BY <1>5
    <3> QED BY <1>7, <2>3, <2>4, <2>6, <3>1
  <2> QED BY <2>5, <2>6
<1>10. Copied(p)'
  <2>1. ASSUME NEW path \in Path, path \notin tx[p].created \union tx[p].backed
        PROVE  files'[path] = files[path]
    <3>1. ~ \E j \in 1 .. Recorded(p) : WritesAt(plan, j, path)
      BY <1>1, <1>3, <2>1, SnapshottedIsRecorded
    <3>2. ~WritesAt(plan, n + 1, path)
      <4>1. n + 1 \in 1 .. (n + 1)
        BY <1>5
      <4> QED BY <1>7, <1>8, <3>1, <4>1
    <3> QED BY <3>2 DEF plan, n
  <2> QED BY <1>3, <2>1 DEF Copied
<1> QED BY <1>4, <1>6, <1>9, <1>10 DEF Applies

LEMMA BeginApplies ==
  ASSUME Inv, NEW p \in Proc, AloneInv(p), begin_transaction(p)
  PROVE  Applies(p)'
<1> USE DEF Inv, OwnInv, TypeInv, TypeOK
<1>1. /\ pc[p] = "begin" /\ clock + 1 \in Id /\ clock + 1 > clock
      /\ tx'[p] = NewTx(clock + 1) /\ UNCHANGED <<files, backups, todo, basis, request>>
  BY BoundsAreNat DEF begin_transaction, DiskType, Id, disk, ProcessType
<1>2. /\ tx'[p].managed = {} /\ tx'[p].created = {} /\ tx'[p].backed = {} /\ tx'[p].id = clock + 1
  BY <1>1, NewTxType DEF NewTx, NoTx
<1>3. backups[clock + 1] = [path \in Path |-> Absent]
  BY <1>1 DEF FreshIds
<1>4. request[p] \in Request /\ todo[p] = Plan(p) /\ files = basis[p]
  BY <1>1 DEF AloneInv, ProcessType, InPlace
<1>5. Len(Plan(p)) \in Nat
  BY <1>4, PlanType, LenProperties DEF Plan
<1>6. pc'[p] # "write"
  BY CallType DEF begin_transaction, ProcessType, PlanCall
<1>7. Plan(p)' = Plan(p) /\ Done(p)' = 0 /\ Recorded(p)' = 0
  <2>1. Plan(p)' = Plan(p)
    BY <1>1 DEF Plan
  <2>2. Done(p)' = Len(Plan(p)') - Len(todo'[p])
    BY DEF Done
  <2>3. Done(p)' = 0
    BY <1>1, <1>4, <1>5, <2>1, <2>2
  <2> QED BY <1>6, <2>1, <2>3 DEF Recorded
<1>8. OnPlan(p)'
  BY <1>1, <1>4, <1>5, <1>7 DEF OnPlan
<1>9. Copied(p)'
  BY <1>1, <1>2, <1>3, <1>4 DEF Copied
<1>10. \A path \in Path : Leaves(Plan(p), 0, path, basis[p][path], files[path])
  BY <1>4 DEF Leaves
<1> QED BY <1>1, <1>2, <1>7, <1>8, <1>9, <1>10 DEF Applies


\* What the copies of p are after one more of them.
LEMMA SnapshotCopies ==
  ASSUME Inv, NEW p \in Proc, AloneInv(p), snapshot_before_write(p)
  PROVE  /\ Copied(p)'
         /\ tx'[p].managed = tx[p].managed \union {Head(todo[p]).path}
<1> USE DEF Inv, OwnInv
<1> DEFINE place == Head(todo[p]).path
           id == tx[p].id
<1>1. /\ pc[p] \in Applying /\ place \in Path /\ id \in Id /\ UNCHANGED <<files, basis>>
  BY Writing, TxId DEF snapshot_before_write, TypeInv, TypeOK, ProcessType, Applying
<1>2. Copied(p)
  BY <1>1 DEF AloneInv, Applies
<1>3. tx'[p].id = id /\ tx'[p].managed = tx[p].managed \union {place}
  BY DEF snapshot_before_write, Managing, TypeInv, TypeOK, ProcessType
<1>4. CASE Snapshotted(tx[p], place)
  <2>1. /\ tx'[p].created = tx[p].created /\ tx'[p].backed = tx[p].backed
        /\ backups' = backups
    BY <1>4 DEF snapshot_before_write, Managing, TypeInv, TypeOK, ProcessType
  <2> HIDE DEF place, id
  <2>2. Copied(p)'
    BY <1>1, <1>2, <1>3, <2>1 DEF Copied, id
  <2> QED BY <1>3, <2>2 DEF place
<1>5. CASE ~Snapshotted(tx[p], place) /\ files[place] # Absent
  <2>1. /\ tx'[p].created = tx[p].created
        /\ tx'[p].backed = tx[p].backed \union {place}
        /\ backups' = [backups EXCEPT ![id][place] = files[place]]
    BY <1>5 DEF snapshot_before_write, Managing, TypeInv, TypeOK, ProcessType
  <2>2. place \notin tx[p].created \union tx[p].backed
    BY <1>5 DEF Snapshotted
  <2>3. \A other \in Path :
          backups'[id][other] = IF other = place THEN files[place] ELSE backups[id][other]
    BY <1>1, <2>1 DEF TypeInv, TypeOK, DiskType, Files
  <2> HIDE DEF place, id
  <2>4. \A path \in Path :
          LET backup == backups[id][path] IN
          /\ path \in tx[p].backed => backup = basis[p][path] /\ backup # Absent
          /\ path \in tx[p].created => backup = Absent /\ basis[p][path] = Absent
          /\ path \notin tx[p].created \union tx[p].backed =>
               files[path] = basis[p][path] /\ backup = Absent
    BY <1>2 DEF Copied, id
  <2>5. \A path \in Path :
          LET backup == backups'[id][path] IN
          /\ path \in tx'[p].backed => backup = basis[p][path] /\ backup # Absent
          /\ path \in tx'[p].created => backup = Absent /\ basis[p][path] = Absent
          /\ path \notin tx'[p].created \union tx'[p].backed =>
               files[path] = basis[p][path] /\ backup = Absent
    BY <1>5, <2>1, <2>2, <2>3, <2>4
  <2>6. Copied(p)'
    BY <1>1, <1>3, <2>5 DEF Copied
  <2> QED BY <1>3, <2>6 DEF place
<1>6. CASE ~Snapshotted(tx[p], place) /\ files[place] = Absent
  <2>1. /\ tx'[p].created = tx[p].created \union {place}
        /\ tx'[p].backed = tx[p].backed /\ backups' = backups
    BY <1>6 DEF snapshot_before_write, Managing, TypeInv, TypeOK, ProcessType
  <2>2. place \notin tx[p].created \union tx[p].backed
    BY <1>6 DEF Snapshotted
  <2> HIDE DEF place, id
  <2>3. Copied(p)'
    BY <1>1, <1>2, <1>3, <1>6, <2>1, <2>2 DEF Copied, id
  <2> QED BY <1>3, <2>3 DEF place
<1> QED BY <1>4, <1>5, <1>6

LEMMA SnapshotApplies ==
  ASSUME Inv, NEW p \in Proc, AloneInv(p), snapshot_before_write(p)
  PROVE  Applies(p)'
<1> DEFINE plan == Plan(p)
           n == Done(p)
<1>1. /\ pc[p] = "snapshot" /\ pc'[p] = "write" /\ TypeInv
      /\ UNCHANGED <<files, basis, request, todo>>
  BY DEF snapshot_before_write, Inv, OwnInv, TypeInv, TypeOK, ProcessType
<1>2. Applies(p)
  BY <1>1 DEF AloneInv, Applying
<1>3. /\ OnPlan(p)
      /\ \A path \in Path :
           /\ Leaves(plan, n, path, basis[p][path], files[path])
           /\ path \in tx[p].managed <=> \E j \in 1 .. n : WritesAt(plan, j, path)
  BY <1>1, <1>2 DEF Applies, Recorded
<1>4. Plan(p)' = plan /\ Done(p)' = n /\ Recorded(p)' = n + 1 /\ OnPlan(p)'
  <2>1. Plan(p)' = Plan(p)
    BY <1>1 DEF Plan
  <2>2. Done(p)' = Done(p)
    BY <1>1, <2>1 DEF Done
  <2> QED BY <1>1, <1>3, <2>1, <2>2 DEF Recorded, OnPlan
<1>5. n \in Nat /\ Head(todo[p]) = plan[n + 1] /\ Head(todo[p]).kind = "write"
  BY <1>1, <1>3, Ahead, KindOfCall DEF PlanStep
<1>6. Copied(p)' /\ tx'[p].managed = tx[p].managed \union {Head(todo[p]).path}
  BY SnapshotCopies
<1> HIDE DEF plan, n
<1>7. \A path \in Path : path \in tx'[p].managed <=> \E j \in 1 .. (n + 1) : WritesAt(plan, j, path)
  <2>1. \A path : path \in tx'[p].managed <=> path \in tx[p].managed \/ WritesAt(plan, n + 1, path)
    BY <1>5, <1>6 DEF WritesAt
  <2>2. 1 .. (n + 1) = 1 .. n \union {n + 1}
    BY <1>5
  <2> QED BY <1>3, <2>1, <2>2
<1> QED BY <1>1, <1>3, <1>4, <1>6, <1>7 DEF Applies

\* Of all paths the files are what the plan up to the place of p leaves, and
\* nothing else of theirs is changed than what it writes.
LEMMA AppliesPartly ==
  ASSUME Inv, NEW p \in Proc, pc[p] \in Applying, Applies(p)
  PROVE  /\ Partly(p)
         /\ \A path \in tx[p].created \union tx[p].backed :
              \E j \in 1 .. Len(Plan(p)) : WritesAt(Plan(p), j, path)
<1> DEFINE plan == Plan(p)
           n == Done(p)
<1>1. /\ request[p] \in Request /\ todo[p] \in Seq(Action) /\ TypeInv /\ tx[p] \in Tx
  BY DEF Inv, OwnInv, TypeInv, TypeOK, ProcessType, InPlace
<1>2. Len(plan) \in Nat /\ Len(todo[p]) \in Nat
  BY <1>1, PlanType, LenProperties DEF Plan
<1>3. n = Len(plan) - Len(todo[p]) /\ Len(todo[p]) <= Len(plan)
  BY DEF Done, Applies, OnPlan
<1>4. Recorded(p) \in 0 .. Len(plan) /\ n \in 0 .. Len(plan)
  <2>1. n \in 0 .. Len(plan)
    BY <1>2, <1>3
  <2>2. CASE pc[p] = "write"
    <3>1. n + 1 \in 1 .. Len(plan)
      BY <1>1, <2>2, Ahead DEF Applies, PlanStep
    <3> QED BY <2>1, <2>2, <3>1 DEF Recorded
  <2> QED BY <2>1, <2>2 DEF Recorded
<1> HIDE DEF plan, n
<1>5. \A path \in Path : Leaves(plan, n, path, basis[p][path], files[path])
  BY DEF Applies, plan, n
<1>6. ASSUME NEW path \in Path, files[path] # basis[p][path]
      PROVE  \E j \in 1 .. Len(plan) : WritesAt(plan, j, path) /\ files[path] \in {plan[j].content, Torn}
  <2>1. PICK j \in 1 .. n : WritesAt(plan, j, path) /\ files[path] = plan[j].content
    BY <1>5, <1>6 DEF Leaves
  <2>2. j \in 1 .. Len(plan)
    BY <1>2, <1>4
  <2> QED BY <2>1, <2>2
<1>7. ASSUME NEW path \in tx[p].created \union tx[p].backed
      PROVE  \E j \in 1 .. Len(plan) : WritesAt(plan, j, path)
  <2>1. path \in Path /\ path \in tx[p].managed
    BY <1>1, SnapshottedIsRecorded DEF Tx
  <2>2. PICK j \in 1 .. Recorded(p) : WritesAt(plan, j, path)
    BY <2>1 DEF Applies, plan
  <2>3. j \in 1 .. Len(plan)
    BY <1>2, <1>4
  <2> QED BY <2>2, <2>3
<1> QED BY <1>6, <1>7 DEF Partly, plan

-----------------------------------------------------------------------------
(* The way back.                                                           *)

\* An action that fails leaves at most its own file torn.
LEMMA FailureTears ==
  ASSUME "snapshot" \notin TearingCalls, Inv, NEW p \in Proc, StepFails(p)
  PROVE  /\ UNCHANGED <<backups, manifests, state>>
         /\ \A path \in Path : files'[path] = files[path]
              \/ (pc[p] = "write" /\ path = Head(todo[p]).path /\ files'[path] = Torn)
<1>1. pc[p] \in PlanStep /\ FailureLeaves(p)
  BY DEF StepFails
<1>2. CASE UNCHANGED disk
  BY <1>2 DEF disk
<1>3. CASE pc[p] \in TearingCalls /\ Tears(p)
  <2>1. /\ pc[p] = "write" /\ files' = [files EXCEPT ![Head(todo[p]).path] = Torn]
        /\ UNCHANGED <<backups, manifests, state>>
    BY <1>1, <1>3 DEF Tears, PlanStep
  <2> QED BY <2>1 DEF Inv, OwnInv, TypeInv, TypeOK, DiskType, Files
<1> QED BY <1>1, <1>2, <1>3 DEF FailureLeaves

LEMMA StepFailsReturns ==
  ASSUME "snapshot" \notin TearingCalls, Inv, NEW p \in Proc, AloneInv(p), StepFails(p)
  PROVE  PutsBack(p)' /\ Partly(p)' /\ Planned(p)'
<1> DEFINE t == RecordedAtFailure(p)
           place == Head(todo[p]).path
<1>1. /\ pc[p] \in PlanStep /\ pc[p] \in Applying /\ TypeInv /\ UNCHANGED <<request, basis>>
      /\ tx'[p] = t /\ restore'[p] = t.managed /\ remove'[p] = t.created
  BY DEF StepFails, PlanStep, Applying, StartsRollback, Inv, OwnInv, TypeInv, TypeOK, ProcessType
<1>2. Applies(p) /\ Copied(p) /\ request[p] # None /\ tx[p] \in Tx
  BY <1>1 DEF AloneInv, Applies, TypeInv, TypeOK, ProcessType, InPlace
<1>3. t.id = tx[p].id /\ t.created = tx[p].created /\ t.backed = tx[p].backed
  BY <1>1, RecordedType
<1>4. \A path : path \in tx[p].created \union tx[p].backed => path \in t.managed
  <2>1. tx[p].managed \subseteq t.managed
    BY DEF RecordedAtFailure, Managing
  <2> QED BY <1>1, <2>1, SnapshottedIsRecorded
<1>5. /\ backups' = backups
      /\ \A path \in Path : files'[path] = files[path]
           \/ (pc[p] = "write" /\ path = place /\ files'[path] = Torn)
  BY FailureTears
<1>6. pc[p] = "write" =>
        /\ place \in tx[p].created \union tx[p].backed
        /\ \E j \in 1 .. Len(Plan(p)) : WritesAt(Plan(p), j, place)
  <2> SUFFICES ASSUME pc[p] = "write"
               PROVE  /\ place \in tx[p].created \union tx[p].backed
                      /\ \E j \in 1 .. Len(Plan(p)) : WritesAt(Plan(p), j, place)
    OBVIOUS
  <2>1. place \in Path /\ Head(todo[p]).kind = "write"
    BY <1>1, Writing, KindOfCall
  <2>2. /\ Done(p) \in Nat /\ Done(p) + 1 \in 1 .. Len(Plan(p))
        /\ Head(todo[p]) = Plan(p)[Done(p) + 1]
    BY <1>1, <1>2, Ahead DEF Applies
  <2>3. WritesAt(Plan(p), Done(p) + 1, place)
    BY <2>1, <2>2 DEF WritesAt
  <2>4. place \in tx[p].managed
    BY <1>2, <2>1, <2>2, <2>3 DEF Applies, Recorded
  <2> QED BY <1>1, <2>2, <2>3, <2>4, SnapshottedIsRecorded
<1>7. Back(p)' = basis[p] /\ Plan(p)' = Plan(p)
  BY <1>1, <1>2 DEF Back, Plan
<1>8. \A path \in Path :
        LET backup == backups[tx[p].id][path] IN
        /\ path \in tx[p].backed => backup = basis[p][path] /\ backup # Absent
        /\ path \in tx[p].created => backup = Absent /\ basis[p][path] = Absent
        /\ path \notin tx[p].created \union tx[p].backed =>
             files'[path] = basis[p][path] /\ backup = Absent
  BY <1>2, <1>5, <1>6 DEF Copied
<1> HIDE DEF t, place
<1>9. PutsBack(p)'
  BY <1>1, <1>3, <1>4, <1>5, <1>7, <1>8 DEF PutsBack
<1>10. Partly(p)'
  <2>1. Partly(p)
    BY <1>1, <1>2, AppliesPartly
  <2> QED BY <1>1, <1>5, <1>6, <1>7, <2>1 DEF Partly
<1>11. Planned(p)'
  <2>1. \A path \in tx[p].created \union tx[p].backed :
          \E j \in 1 .. Len(Plan(p)) : WritesAt(Plan(p), j, path)
    BY <1>1, <1>2, AppliesPartly
  <2>2. \A path \in Path : backups[tx[p].id][path] # Absent => path \in tx[p].backed
    BY <1>8
  <2> QED BY <1>1, <1>3, <1>5, <1>7, <2>1, <2>2 DEF Planned
<1> QED BY <1>9, <1>10, <1>11

LEMMA ReadReturns ==
  ASSUME Inv, CreatedAreManaged, NEW p \in Proc, AloneInv(p), read_backup_manifest(p),
         pc'[p] # "idle"
  PROVE  PutsBack(p)' /\ Between(p)' /\ Whole(manifests[tx[p].id])' /\ request'[p] = None
<1> DEFINE m == manifests[tx[p].id]
           id == tx[p].id
<1>1. /\ pc[p] = "read" /\ TypeInv /\ DiskType
      /\ UNCHANGED <<files, backups, manifests>>
  BY DEF read_backup_manifest, disk, Inv, OwnInv, TypeInv, TypeOK
<1>2. ~ Exit(p, 1)
  BY ExitInPlace DEF Inv, OwnInv, TypeInv, TypeOK
<1>3. Whole(m) /\ StartsRollback(p, m.managed, m.created) /\ UNCHANGED <<request, tx, basis>>
  BY <1>2 DEF read_backup_manifest
<1>4. request[p] = None /\ id \in Id /\ files = basis[p]
  BY <1>1, TxId DEF AloneInv, InPlace, TypeInv
<1>5. restore'[p] = m.managed /\ remove'[p] = m.created
  BY <1>3 DEF StartsRollback, Inv, OwnInv, TypeInv, TypeOK, ProcessType
<1>6. /\ m.created \subseteq m.managed /\ m.managed \subseteq Path
      /\ \A path \in m.managed : path \in m.created <=> backups[id][path] = Absent
  BY <1>1, <1>3, <1>4, ManifestPaths DEF CreatedAreManaged, Inv, ManifestIsComplete
<1>7. \A path \in Path :
        Back(p)'[path] = IF path \notin m.managed THEN basis[p][path]
                         ELSE IF path \in m.created THEN Absent ELSE backups[id][path]
  BY <1>1, <1>3, <1>4 DEF Back
<1>8. UNCHANGED <<m, id>>
  BY <1>1, <1>3
<1> HIDE DEF m, id
<1>9. PutsBack(p)'
  BY <1>1, <1>3, <1>4, <1>5, <1>6, <1>7, <1>8 DEF PutsBack, id
<1>10. Between(p)'
  BY <1>1, <1>3, <1>4 DEF Between
<1> QED BY <1>3, <1>4, <1>8, <1>9, <1>10 DEF m

\* While p puts files back, the rest of it is about the same backup.
LEMMA BackStays ==
  ASSUME NEW p \in Proc, UNCHANGED <<request, tx, basis, backups, manifests>>
  PROVE  Back(p)' = Back(p) /\ Plan(p)' = Plan(p)
  BY DEF Back, Plan

LEMMA RestoreReturns ==
  ASSUME Inv, NEW p \in Proc, AloneInv(p), RestorePath(p)
  PROVE  /\ PutsBack(p)'
         /\ request[p] # None => Partly(p)' /\ Planned(p)'
         /\ request[p] = None => Between(p)'
<1> DEFINE id == tx[p].id
<1>1. PICK place \in restore[p] :
        /\ files' = IF backups[id][place] = Absent THEN files
                    ELSE [files EXCEPT ![place] = backups[id][place]]
        /\ StartsRollback(p, restore[p] \ {place}, remove[p])
  BY DEF RestorePath
<1>2. /\ pc[p] = "restore" /\ pc[p] \in Returning /\ TypeInv
      /\ UNCHANGED <<request, tx, basis, backups, manifests>>
      /\ restore'[p] = restore[p] \ {place} /\ remove'[p] = remove[p]
  BY <1>1 DEF RestorePath, StartsRollback, Inv, OwnInv, TypeInv, TypeOK, ProcessType, Returning
<1>3. PutsBack(p) /\ Back(p)' = Back(p) /\ Plan(p)' = Plan(p)
  BY <1>2, BackStays DEF AloneInv
<1>4. backups[id][place] # Absent => backups[id][place] = Back(p)[place]
  BY <1>2, <1>3 DEF PutsBack, TypeInv, TypeOK, ProcessType
<1>5. \A path \in Path :
        files'[path] = IF path = place /\ backups[id][place] # Absent
                       THEN Back(p)[place] ELSE files[path]
  BY <1>1, <1>2, <1>4 DEF TypeInv, TypeOK, DiskType, Files
<1>6. id' = id
  BY <1>2
<1> HIDE DEF id
<1>7. PutsBack(p)'
  BY <1>2, <1>3, <1>5, <1>6 DEF PutsBack, id
<1>8. ASSUME request[p] # None PROVE Partly(p)' /\ Planned(p)'
  <2>1. Partly(p) /\ Planned(p) /\ Back(p) = basis[p]
    BY <1>2, <1>8 DEF AloneInv, Back
  <2> QED BY <1>2, <1>3, <1>5, <2>1 DEF Partly, Planned
<1>9. ASSUME request[p] = None PROVE Between(p)'
  <2>1. Between(p)
    BY <1>2, <1>9 DEF AloneInv, Between
  <2> QED BY <1>2, <1>3, <1>5, <2>1 DEF Between
<1> QED BY <1>7, <1>8, <1>9

LEMMA RemoveReturns ==
  ASSUME Inv, NEW p \in Proc, AloneInv(p), RemovePath(p)
  PROVE  /\ PutsBack(p)'
         /\ request[p] # None => Partly(p)' /\ Planned(p)'
         /\ request[p] = None => Between(p)'
<1>1. PICK place \in remove[p] :
        /\ files' = [files EXCEPT ![place] = Absent]
        /\ StartsRollback(p, {}, remove[p] \ {place})
  BY DEF RemovePath
<1>2. /\ pc[p] = "remove" /\ pc[p] \in Returning /\ TypeInv
      /\ UNCHANGED <<request, tx, basis, backups, manifests>>
      /\ restore[p] = {} /\ restore'[p] = {} /\ remove'[p] = remove[p] \ {place}
  BY <1>1 DEF RemovePath, StartsRollback, Inv, OwnInv, TypeInv, TypeOK, ProcessType, Returning, InPlace
<1>3. PutsBack(p) /\ Back(p)' = Back(p) /\ Plan(p)' = Plan(p)
  BY <1>2, BackStays DEF AloneInv
<1>4. Back(p)[place] = Absent
  BY <1>2, <1>3 DEF PutsBack, TypeInv, TypeOK, ProcessType
<1>5. \A path \in Path : files'[path] = IF path = place THEN Back(p)[place] ELSE files[path]
  BY <1>1, <1>2, <1>4 DEF TypeInv, TypeOK, DiskType, Files
<1>6. PutsBack(p)'
  BY <1>2, <1>3, <1>5 DEF PutsBack
<1>7. ASSUME request[p] # None PROVE Partly(p)' /\ Planned(p)'
  <2>1. Partly(p) /\ Planned(p) /\ Back(p) = basis[p]
    BY <1>2, <1>7 DEF AloneInv, Back
  <2> QED BY <1>2, <1>3, <1>5, <2>1 DEF Partly, Planned
<1>8. ASSUME request[p] = None PROVE Between(p)'
  <2>1. Between(p)
    BY <1>2, <1>8 DEF AloneInv, Between
  <2> QED BY <1>2, <1>3, <1>5, <2>1 DEF Between
<1> QED BY <1>6, <1>7, <1>8


LEMMA ResetReturns ==
  ASSUME Inv, NEW p \in Proc, AloneInv(p), ReloadRolledBack(p), request[p] = None
  PROVE  /\ pc'[p] = "reset" /\ UNCHANGED <<files, request>>
         /\ PutsBack(p)' /\ Between(p)' /\ Whole(manifests[tx[p].id])'
<1>1. /\ pc[p] = "reread" /\ pc[p] \in Returning /\ pc'[p] = "reset"
      /\ UNCHANGED <<files, backups, manifests, request, tx, basis, restore, remove>>
  BY NoneIsOther DEF ReloadRolledBack, Returning, disk, local, Inv, OwnInv, TypeInv, TypeOK, ProcessType
<1>2. Back(p)' = Back(p)
  BY <1>1, BackStays
<1>3. PutsBack(p) /\ Between(p) /\ Whole(manifests[tx[p].id])
  BY <1>1 DEF AloneInv
<1>4. PutsBack(p)'
  BY <1>1, <1>2, <1>3 DEF PutsBack
<1> QED BY <1>1, <1>2, <1>3, <1>4 DEF Between

-----------------------------------------------------------------------------
(* Every step keeps the invariant.                                         *)

LEMMA IdleIsAlone ==
  ASSUME NEW p, pc'[p] = "idle"
  PROVE  AloneInv(p)'
  BY DEF AloneInv, Applying, Returning

LEMMA AppliesOn ==
  ASSUME NEW p, pc'[p] \in Applying, basis'[p] \in Files, Applies(p)'
  PROVE  AloneInv(p)'
  BY DEF AloneInv, Applying, Returning

LEMMA ReturnsOn ==
  ASSUME NEW p, pc'[p] \in Returning, basis'[p] \in Files, PutsBack(p)',
         request'[p] # None => Partly(p)' /\ Planned(p)',
         request'[p] = None => Between(p)' /\ Whole(manifests[tx[p].id])'
  PROVE  AloneInv(p)'
  BY DEF AloneInv, Applying, Returning

LEMMA ApplyAlone ==
  ASSUME Inv, NEW p \in Proc, AloneInv(p), Apply(p)
  PROVE  AloneInv(p)'
<1> USE DEF Inv, OwnInv, TypeInv, TypeOK
<1>0. pc[p] # "idle" => basis[p] \in Files
  BY DEF AloneInv
<1>1. CASE ApplyNoChanges(p)
  BY <1>1, IdleIsAlone DEF ApplyNoChanges, Begins
<1>2. CASE ApplyPlanned(p)
  <2>1. /\ pc'[p] = "begin" /\ files' = files /\ basis'[p] = files /\ files \in Files
        /\ todo'[p] = build_apply_plan(request'[p])
    BY <1>2 DEF ApplyPlanned, disk, ProcessType, DiskType
  <2> QED BY <2>1 DEF AloneInv, Plan, Applying, Returning
<1>3. CASE begin_transaction(p)
  <2>1. pc'[p] \in PlanCall /\ basis' = basis /\ pc[p] # "idle"
    BY <1>3, CallType DEF begin_transaction, ProcessType
  <2> QED BY <1>0, <1>3, <2>1, BeginApplies, AppliesOn DEF PlanCall, Applying
<1>4. CASE ensure_dir(p) \/ daemon_reload(p) \/ write_file(p)
  <2>1. /\ pc[p] \in {"dir", "reload", "write"} /\ pc[p] \in PlanStep /\ pc[p] \in Applying
        /\ StepDone(p) /\ UNCHANGED <<request, tx, basis, backups>>
    BY <1>4 DEF ensure_dir, daemon_reload, write_file, disk, PlanStep, Applying
  <2>2. OnPlan(p)
    BY <2>1 DEF AloneInv, Applies
  <2>3. Head(todo[p]) = Plan(p)[Done(p) + 1]
    BY <2>1, <2>2, Ahead
  <2>4. ASSUME NEW path \in Path
        PROVE  files'[path] = IF WritesAt(Plan(p), Done(p) + 1, path)
                              THEN Plan(p)[Done(p) + 1].content ELSE files[path]
    <3>1. CASE write_file(p)
      <4>1. Head(todo[p]).kind = "write"
        BY <2>1, <3>1, KindOfCall DEF write_file
      <4>2. WritesAt(Plan(p), Done(p) + 1, path) <=> path = Head(todo[p]).path
        BY <2>3, <4>1 DEF WritesAt
      <4> QED BY <2>3, <3>1, <4>2 DEF write_file, DiskType, Files
    <3>2. CASE ensure_dir(p) \/ daemon_reload(p)
      <4>1. files' = files /\ pc[p] \in {"dir", "reload"}
        BY <3>2 DEF ensure_dir, daemon_reload, disk
      <4>2. Head(todo[p]).kind # "write"
        BY <2>1, <4>1, KindOfCall
      <4> QED BY <2>3, <4>1, <4>2 DEF WritesAt
    <3> QED BY <1>4, <3>1, <3>2
  <2>5. Applies(p)'
    BY <2>1, <2>4, WorksApplies
  <2>6. pc'[p] \in Applying
    BY <2>1, <2>2, StepDoneMoves DEF PlanCall, Applying
  <2> QED BY <1>0, <2>1, <2>5, <2>6, AppliesOn DEF PlanStep
<1>5. CASE snapshot_before_write(p)
  <2>1. pc[p] # "idle" /\ pc'[p] \in Applying /\ basis' = basis
    BY <1>5 DEF snapshot_before_write, ProcessType, Applying
  <2> QED BY <1>0, <1>5, <2>1, SnapshotApplies, AppliesOn
<1>6. CASE write_backup_manifest(p)
  <2>1. /\ pc[p] = "manifest" /\ pc'[p] = "state"
        /\ UNCHANGED <<files, backups, request, todo, tx, basis>>
    BY <1>6 DEF write_backup_manifest, local, ProcessType
  <2>2. Applies(p)
    BY <2>1 DEF AloneInv, Applying
  <2>3. Plan(p)' = Plan(p) /\ Done(p)' = Done(p) /\ Recorded(p)' = Recorded(p)
    BY <2>1 DEF Plan, Done, Recorded
  <2>4. Applies(p)'
    BY <2>1, <2>2, <2>3 DEF Applies, OnPlan, Copied
  <2> QED BY <1>0, <2>1, <2>4, AppliesOn DEF Applying
<1>7. CASE write_state(p)
  BY <1>7, ExitInPlace, IdleIsAlone DEF write_state
<1> QED BY <1>1, <1>2, <1>3, <1>4, <1>5, <1>6, <1>7 DEF Apply

LEMMA ReturningCalls ==
  ASSUME TypeInv, NEW p \in Proc, NEW managed, NEW created, StartsRollback(p, managed, created)
  PROVE  pc'[p] \in {"restore", "remove", "reread"} /\ pc'[p] \in Returning /\ pc'[p] # "idle"
  BY DEF StartsRollback, RollbackCall, Returning, TypeInv, TypeOK, ProcessType

LEMMA RollbackAlone ==
  ASSUME Inv, CreatedAreManaged, NEW p \in Proc, AloneInv(p), Rollback(p)
  PROVE  AloneInv(p)'
<1> USE DEF Inv, OwnInv, TypeInv, TypeOK
<1>0. pc[p] # "idle" => basis[p] \in Files
  BY DEF AloneInv
<1>1. CASE RollbackLast(p) \/ RollbackTo(p)
  <2>1. pc'[p] = "read" /\ files' = files /\ basis'[p] = files /\ files \in Files
    BY <1>1 DEF RollbackLast, RollbackTo, disk, ProcessType, DiskType
  <2> QED BY <2>1 DEF AloneInv, Applying, Returning
<1>2. CASE RollbackWithoutState(p)
  BY <1>2, IdleIsAlone DEF RollbackWithoutState, Begins
<1>3. CASE read_backup_manifest(p) /\ pc'[p] # "idle"
  <2>1. ~ Exit(p, 1)
    BY <1>3, ExitInPlace
  <2>2. \E managed, created : StartsRollback(p, managed, created) /\ basis' = basis
    BY <1>3, <2>1 DEF read_backup_manifest
  <2>3. pc'[p] \in Returning /\ basis' = basis /\ pc[p] # "idle"
    BY <1>3, <2>2, ReturningCalls DEF read_backup_manifest
  <2> QED BY <1>0, <1>3, <2>3, ReadReturns, ReturnsOn
<1>4. CASE RestorePath(p) \/ RemovePath(p)
  <2>1. \E managed, created : StartsRollback(p, managed, created)
    BY <1>4 DEF RestorePath, RemovePath
  <2>2. /\ pc'[p] \in Returning /\ pc[p] \in Returning /\ pc[p] # "idle"
        /\ UNCHANGED <<basis, request, manifests, tx>>
    BY <1>4, <2>1, ReturningCalls DEF RestorePath, RemovePath, Returning
  <2>3. /\ PutsBack(p)'
        /\ request[p] # None => Partly(p)' /\ Planned(p)'
        /\ request[p] = None => Between(p)'
    BY <1>4, RestoreReturns, RemoveReturns
  <2>4. request[p] = None => Whole(manifests[tx[p].id])
    BY <2>2 DEF AloneInv
  <2> QED BY <1>0, <2>2, <2>3, <2>4, ReturnsOn
<1>5. CASE ReloadRolledBack(p) /\ request[p] # None
  BY <1>5, ExitInPlace, IdleIsAlone DEF ReloadRolledBack
<1>6. CASE ReloadRolledBack(p) /\ request[p] = None
  <2>1. /\ pc'[p] = "reset" /\ pc'[p] \in Returning /\ UNCHANGED request
        /\ PutsBack(p)' /\ Between(p)' /\ Whole(manifests[tx[p].id])'
    BY <1>6, ResetReturns DEF Returning
  <2>2. basis' = basis /\ pc[p] # "idle"
    BY <1>6 DEF ReloadRolledBack, local
  <2> QED BY <1>0, <1>6, <2>1, <2>2, ReturnsOn
<1>7. CASE ResetState(p)
  BY <1>7, ExitInPlace, IdleIsAlone DEF ResetState
<1> QED BY <1>1, <1>2, <1>3, <1>4, <1>5, <1>6, <1>7, IdleIsAlone DEF Rollback

LEMMA AloneNext ==
  ASSUME "snapshot" \notin TearingCalls, Inv, CreatedAreManaged, NEW p \in Proc, AloneInv(p), Step(p)
  PROVE  AloneInv(p)'
<1>1. CASE Apply(p) \/ Rollback(p)
  BY <1>1, ApplyAlone, RollbackAlone
<1>2. CASE StepFails(p)
  <2>1. \E managed, created : StartsRollback(p, managed, created)
    BY <1>2 DEF StepFails
  <2>2. pc'[p] \in Returning /\ UNCHANGED <<basis, request>> /\ pc[p] \in PlanStep
    BY <1>2, <2>1, ReturningCalls DEF StepFails, Inv, OwnInv
  <2>3. basis[p] \in Files /\ request[p] # None
    BY <2>2 DEF AloneInv, Inv, OwnInv, TypeInv, InPlace, PlanStep, Applying
  <2> QED BY <1>2, <2>2, <2>3, StepFailsReturns, ReturnsOn
<1>3. CASE CommandFails(p) \/ Crash(p)
  BY <1>3, ExitInPlace, IdleIsAlone DEF CommandFails, Crash, Inv, OwnInv, TypeInv, TypeOK
<1> QED BY <1>1, <1>2, <1>3 DEF Step

LEMMA CreatedAreManagedNext ==
  ASSUME Inv, CreatedAreManaged, NEW p \in Proc, Step(p)
  PROVE  CreatedAreManaged'
<1>1. CASE UNCHANGED manifests
  BY <1>1 DEF CreatedAreManaged
<1>2. CASE WritesManifest(p)
  <2>1. pc[p] = "manifest" /\ pc[p] \in Applying
    BY <1>2 DEF WritesManifest, Applying
  <2>2. tx[p].created \subseteq tx[p].managed
    BY <2>1, SnapshottedIsRecorded
  <2>3. \A id \in Id : \/ manifests'[id] = manifests[id] \/ manifests'[id] = Torn
                       \/ manifests'[id] = manifest_from_transaction(tx[p], request[p].profile)
    BY <1>2 DEF WritesManifest, Inv, OwnInv, TypeInv, TypeOK, DiskType
  <2> QED BY <2>2, <2>3 DEF CreatedAreManaged, manifest_from_transaction, Whole
<1> QED BY <1>1, <1>2, StepWrites
        DEF DiskStep, WritesFile, WritesBackup, WritesState, disk, Inv, OwnInv


-----------------------------------------------------------------------------
(* What the system manager has loaded.                                     *)

LEMMA EndIsReload ==
  ASSUME TypeInv, NEW p \in Proc, pc[p] \in PlanStep, EndsWithReload(p), StepDone(p)
  PROVE  /\ pc'[p] \in PlanStep => EndsWithReload(p)'
         /\ pc'[p] \in PlanCall /\ (pc'[p] = "manifest" => pc[p] = "reload")
<1>1. todo[p] \in Seq(Action) /\ todo[p] # <<>>
  BY DEF TypeInv, TypeOK, ProcessType
<1>2. /\ Len(todo[p]) \in Nat \ {0} /\ Head(todo[p]) = todo[p][1]
      /\ Tail(todo[p]) \in Seq(Action) /\ Len(Tail(todo[p])) = Len(todo[p]) - 1
      /\ \A i \in 1 .. Len(Tail(todo[p])) : Tail(todo[p])[i] = todo[p][i + 1]
  BY <1>1, HeadTailProperties, LenProperties, EmptySeq
<1>3. todo'[p] = Tail(todo[p]) /\ pc'[p] = CallFor(Tail(todo[p]))
  BY DEF StepDone, TypeInv, TypeOK, ProcessType
<1>4. pc'[p] \in PlanCall
  BY <1>2, <1>3, CallType
<1>5. CASE Tail(todo[p]) = <<>>
  <2>0. Len(<<>>) = 0
    BY EmptySeq
  <2>1. Len(todo[p]) = 1
    <3>1. Len(Tail(todo[p])) = 0
      BY <1>5, <2>0
    <3> QED BY <1>2, <3>1
  <2>2. Head(todo[p]) = DaemonReload
    BY <1>2, <2>1 DEF EndsWithReload
  <2>3. pc[p] = "reload"
    BY <2>2, KindOfCall DEF DaemonReload, PlanStep
  <2>4. pc'[p] = "manifest"
    BY <1>3, <1>5 DEF CallFor
  <2> QED BY <1>4, <2>3, <2>4 DEF PlanStep
<1>6. CASE Tail(todo[p]) # <<>>
  <2>1. Len(Tail(todo[p])) > 0
    BY <1>2, <1>6, LenProperties, EmptySeq
  <2>2. Tail(todo[p])[Len(Tail(todo[p]))] = todo[p][Len(todo[p])]
    BY <1>2, <2>1
  <2>3. pc'[p] # "manifest"
    BY <1>2, <1>3, <1>6, ManifestIsLast
  <2> QED BY <1>3, <1>4, <2>1, <2>2, <2>3 DEF EndsWithReload
<1> QED BY <1>5, <1>6

LEMMA LoadNext ==
  ASSUME TypeInv, NEW p \in Proc, LoadInv(p), Step(p)
  PROVE  LoadInv(p)'
<1> USE DEF TypeInv, TypeOK
<1>1. CASE pc'[p] \notin PlanStep \union {"begin", "manifest", "state", "reset"}
  BY <1>1 DEF LoadInv
<1>2. ASSUME NEW code, Exit(p, code) PROVE LoadInv(p)'
  BY <1>1, <1>2, ExitInPlace DEF PlanStep
<1>3. ASSUME NEW managed, NEW created, StartsRollback(p, managed, created) PROVE LoadInv(p)'
  BY <1>1, <1>3, ReturningCalls DEF PlanStep
<1>4. CASE ApplyNoChanges(p) \/ RollbackWithoutState(p)
  BY <1>1, <1>4 DEF ApplyNoChanges, RollbackWithoutState, Begins, PlanStep
<1>5. CASE ApplyPlanned(p)
  <2>1. PICK req \in Request : todo' = [todo EXCEPT ![p] = build_apply_plan(req)]
    BY <1>5 DEF ApplyPlanned
  <2>2. pc'[p] = "begin" /\ todo'[p] = build_apply_plan(req)
    BY <1>5, <2>1 DEF ApplyPlanned, ProcessType
  <2> QED BY <2>2, LastReloads DEF LoadInv, EndsWithReload
<1>6. CASE begin_transaction(p)
  <2>1. todo'[p] = todo[p] /\ pc'[p] = CallFor(todo[p]) /\ EndsWithReload(p) /\ todo[p] \in Seq(Action)
    BY <1>6 DEF begin_transaction, ProcessType, LoadInv
  <2>2. pc'[p] \in PlanCall /\ pc'[p] # "manifest"
    BY <2>1, CallType, ManifestIsLast, EmptySeq DEF EndsWithReload
  <2> QED BY <2>1, <2>2 DEF LoadInv, EndsWithReload, PlanCall
<1>7. CASE ensure_dir(p) \/ write_file(p) \/ daemon_reload(p)
  <2>1. pc[p] \in PlanStep /\ StepDone(p)
    BY <1>7 DEF ensure_dir, write_file, daemon_reload, PlanStep
  <2>2. EndsWithReload(p)
    BY <2>1 DEF LoadInv
  <2>3. /\ pc'[p] \in PlanStep => EndsWithReload(p)'
        /\ pc'[p] \in PlanCall /\ (pc'[p] = "manifest" => pc[p] = "reload")
    BY <2>1, <2>2, EndIsReload
  <2>4. pc[p] = "reload" => Loaded'
    BY <1>7 DEF ensure_dir, write_file, daemon_reload, Loads, Loaded, disk
  <2> QED BY <2>3, <2>4 DEF LoadInv, PlanCall
<1>8. CASE snapshot_before_write(p)
  <2>1. pc[p] = "snapshot" /\ pc'[p] = "write" /\ todo' = todo
    BY <1>8 DEF snapshot_before_write, ProcessType
  <2> QED BY <2>1 DEF LoadInv, EndsWithReload, PlanStep
<1>9. CASE write_backup_manifest(p)
  <2>1. pc[p] = "manifest" /\ pc'[p] = "state" /\ UNCHANGED <<files, loaded>>
    BY <1>9 DEF write_backup_manifest, ProcessType
  <2> QED BY <2>1 DEF LoadInv, Loaded, PlanStep
<1>10. CASE RollbackLast(p) \/ RollbackTo(p)
  <2>1. pc'[p] = "read"
    BY <1>10 DEF RollbackLast, RollbackTo, ProcessType
  <2> QED BY <1>1, <2>1 DEF PlanStep
<1>11. CASE ReloadRolledBack(p) /\ pc'[p] = "reset"
  <2>1. Loaded'
    BY <1>11 DEF ReloadRolledBack, Loads, Loaded, disk
  <2> QED BY <1>11, <2>1 DEF LoadInv, PlanStep
<1>12. CASE ReloadRolledBack(p) /\ pc'[p] # "reset"
  <2>1. Exit(p, 4)
    BY <1>12 DEF ReloadRolledBack, ProcessType
  <2> QED BY <1>2, <2>1
<1>13. CASE RestorePath(p) \/ RemovePath(p) \/ StepFails(p) \/ read_backup_manifest(p)
  <2>1. (\E managed, created : StartsRollback(p, managed, created)) \/ Exit(p, 1)
    BY <1>13 DEF RestorePath, RemovePath, StepFails, read_backup_manifest
  <2> QED BY <1>2, <1>3, <2>1
<1>14. CASE write_state(p) \/ ResetState(p) \/ CommandFails(p) \/ Crash(p)
  <2>1. \E code : Exit(p, code)
    BY <1>14 DEF write_state, ResetState, CommandFails, Crash
  <2> QED BY <1>2, <2>1
<1> QED BY <1>4, <1>5, <1>6, <1>7, <1>8, <1>9, <1>10, <1>11, <1>12, <1>13, <1>14
        DEF Step, Apply, Rollback

\* A process that succeeds, or that reports its rollback, had the files loaded
\* last.
LEMMA LoadedAtExit ==
  ASSUME TypeInv, NEW p \in Proc, LoadInv(p), Step(p), Finished(p), exit'[p] \in {0, 4}
  PROVE  Loaded'
<1> USE DEF TypeInv, TypeOK
<1>1. CASE write_state(p) \/ ResetState(p)
  BY <1>1 DEF write_state, ResetState, LoadInv, Loaded
<1>2. CASE ReloadRolledBack(p)
  BY <1>2 DEF ReloadRolledBack, Loads, Loaded, disk
<1>3. CASE read_backup_manifest(p) \/ CommandFails(p) \/ Crash(p)
  <2>1. \E code \in {1, 5, Killed} : Exit(p, code)
    BY <1>3, ReturningCalls DEF read_backup_manifest, CommandFails, Crash, Finished
  <2>2. exit'[p] \in {1, 5, Killed}
    BY <2>1 DEF Exit, ProcessType
  <2> QED BY <2>2 DEF Killed
<1>4. CASE begin_transaction(p) \/ ensure_dir(p) \/ write_file(p) \/ daemon_reload(p)
           \/ snapshot_before_write(p) \/ write_backup_manifest(p)
  <2>1. pc'[p] \in PlanCall \union {"write", "state"}
    <3>1. CASE ensure_dir(p) \/ write_file(p) \/ daemon_reload(p)
      <4>1. pc[p] \in PlanStep /\ StepDone(p)
        BY <3>1 DEF ensure_dir, write_file, daemon_reload, PlanStep
      <4> QED BY <4>1, EndIsReload DEF LoadInv
    <3> QED BY <1>4, <3>1, CallType
            DEF begin_transaction, snapshot_before_write, write_backup_manifest, ProcessType
  <2> QED BY <2>1 DEF Finished, PlanCall
<1>5. CASE RestorePath(p) \/ RemovePath(p) \/ StepFails(p)
  <2>1. \E managed, created : StartsRollback(p, managed, created)
    BY <1>5 DEF RestorePath, RemovePath, StepFails
  <2> QED BY <2>1, ReturningCalls DEF Finished
<1>6. CASE ApplyNoChanges(p) \/ ApplyPlanned(p) \/ RollbackLast(p) \/ RollbackWithoutState(p)
           \/ RollbackTo(p)
  BY <1>6 DEF ApplyNoChanges, ApplyPlanned, RollbackLast, RollbackWithoutState, RollbackTo,
     Begins, Finished
<1> QED BY <1>1, <1>2, <1>3, <1>4, <1>5, <1>6 DEF Step, Apply, Rollback

\* With one process at a time, a command that changed units and reports
\* success, and an apply that reports its rollback, leave the system manager
\* with what is on disk, wherever calls fail.
THEOREM LoadedWhenDoneHolds ==
  ASSUME NEW solo, Proc = {solo}
  PROVE  Spec => LoadedWhenDone
<1> DEFINE I == TypeInv /\ LoadInv(solo)
<1>1. Init => I
  <2>1. Init => LoadInv(solo)
    BY DEF Init, LoadInv, PlanStep
  <2> QED BY <2>1, InitTypes
<1>2. I /\ [Next]_vars => I'
  <2>1. CASE UNCHANGED vars
    BY <2>1, TypeNext DEF LoadInv, Loaded, EndsWithReload, vars, disk, local
  <2>2. CASE Next
    BY <2>2, TypeNext, LoadNext DEF Next, Step
  <2> QED BY <2>1, <2>2
<1>3. I /\ [Next]_vars =>
        [ \A p \in Proc :
            Finished(p) /\ exit'[p] \in {0, 4} =>
              loaded' = [path \in SystemPath |-> files'[path]] ]_vars
  BY LoadedAtExit DEF Next, Step, Loaded
<1> QED BY <1>1, <1>2, <1>3, PTL DEF Spec, LoadedWhenDone


-----------------------------------------------------------------------------
(* The manifest of a transaction.                                          *)

\* Before its last call an apply has no manifest, and then no action left.
RecordInv(p) ==
  /\ Owns(p) /\ pc[p] # "state" => manifests[tx[p].id] = Absent
  /\ pc[p] = "state" => todo[p] = <<>>

LEMMA RecordNext ==
  ASSUME Inv, NEW p \in Proc, RecordInv(p), Step(p)
  PROVE  RecordInv(p)'
<1> USE DEF Inv, OwnInv
<1>0. TypeInv' /\ Inv'
  BY InvNext, TypeNext DEF Next, Step
<1>1. CASE begin_transaction(p)
  <2>1. /\ clock + 1 \in Id /\ clock + 1 > clock /\ manifests' = manifests
        /\ tx'[p].id = clock + 1
    BY <1>1, BoundsAreNat, NewTxType
    DEF begin_transaction, DiskType, Id, disk, TypeInv, TypeOK, ProcessType
  <2>2. manifests[clock + 1] = Absent
    BY <2>1 DEF FreshIds
  <2>3. pc'[p] # "state"
    BY <1>1, CallType DEF begin_transaction, TypeInv, TypeOK, ProcessType, PlanCall
  <2> QED BY <2>1, <2>2, <2>3 DEF RecordInv
<1>2. CASE Works(p)
  <2>1. Owns(p) /\ pc[p] # "state" /\ pc'[p] # "state"
    BY <1>2, WorkingOwns DEF Works, PlanStep, PlanCall, Applying
  <2> QED BY <1>2, <2>1 DEF Works, RecordInv
<1>3. CASE snapshot_before_write(p)
  <2>1. /\ pc[p] = "snapshot" /\ pc'[p] = "write" /\ manifests' = manifests
        /\ tx'[p].id = tx[p].id /\ Owns(p)
    BY <1>3, WorkingOwns
    DEF snapshot_before_write, Managing, TypeInv, TypeOK, ProcessType, Applying
  <2> QED BY <2>1 DEF RecordInv
<1>4. CASE write_backup_manifest(p)
  <2>1. pc[p] = "manifest" /\ pc'[p] = "state" /\ todo' = todo
    BY <1>4 DEF write_backup_manifest, local, TypeInv, TypeOK, ProcessType
  <2>2. todo[p] = <<>>
    BY <2>1, ManifestIsLast DEF TypeInv, TypeOK, ProcessType, InPlace, PlanCall
  <2> QED BY <2>1, <2>2 DEF RecordInv
<1>5. CASE StepFails(p)
  <2>1. pc'[p] \in {"restore", "remove", "reread"}
    BY <1>5, ReturningCalls DEF StepFails
  <2>2. manifests' = manifests /\ tx'[p].id = tx[p].id /\ request' = request
    BY <1>5, StepWrites, RecordedType
    DEF StepFails, PlanStep, FailureLeaves, Tears, disk, TypeInv, TypeOK, ProcessType
  <2>3. pc[p] # "state" /\ Owns(p)
    BY <1>5, WorkingOwns DEF StepFails, PlanStep, Applying
  <2> QED BY <2>1, <2>2, <2>3 DEF RecordInv
<1>6. CASE read_backup_manifest(p) /\ pc'[p] # "idle"
  <2>1. request'[p] = None
    BY <1>6
    DEF read_backup_manifest, Exit, InPlace, TypeInv, TypeOK, ProcessType
  <2>2. pc'[p] \notin Applying
    BY <1>0, <2>1, WorkingOwns DEF InPlace, TypeInv
  <2> QED BY <2>1, <2>2 DEF RecordInv, Owns, Applying
<1>7. CASE Winds(p)
  BY <1>7 DEF Winds, RecordInv, Owns, Applying
<1> QED
  BY <1>1, <1>2, <1>3, <1>4, <1>5, <1>6, <1>7, StepOfTx DEF TxStep

-----------------------------------------------------------------------------
(* The plan as the abstract specification has it.                          *)

LEMMA TargetDomain ==
  ASSUME NEW req \in Request
  PROVE  LET plan == build_apply_plan(req) IN
         /\ DOMAIN TargetOf[req] \subseteq Path
         /\ \A path : path \in DOMAIN TargetOf[req]
                        <=> \E j \in 1 .. Len(plan) : WritesAt(plan, j, path)
         /\ \A path \in DOMAIN TargetOf[req] : \A j \in 1 .. Len(plan) :
              WritesAt(plan, j, path) => plan[j].content \in WrittenOf[req][path]
<1> DEFINE plan == build_apply_plan(req)
<1>1. plan \in Seq(Action) /\ DOMAIN plan = 1 .. Len(plan)
  BY PlanType, LenProperties
<1>2. WritesOf(req) = {plan[i] : i \in {j \in 1 .. Len(plan) : plan[j].kind = "write"}}
  BY <1>1 DEF WritesOf
<1>3. /\ DOMAIN TargetOf[req] = {write.path : write \in WritesOf(req)}
      /\ WrittenOf[req] = [ path \in {write.path : write \in WritesOf(req)} |->
          {w.content : w \in {write \in WritesOf(req) : write.path = path}} ]
  BY Zenon DEF TargetOf, WrittenOf
<1>4. \A i \in 1 .. Len(plan) : plan[i].kind = "write" => plan[i].path \in Path
  <2> SUFFICES ASSUME NEW i \in 1 .. Len(plan), plan[i].kind = "write" PROVE plan[i].path \in Path
    OBVIOUS
  <2>1. plan[i] \in Action
    BY <1>1, ElementOfSeq
  <2> HIDE DEF plan
  <2> QED BY <2>1 DEF Action
<1> HIDE DEF plan
<1>5. \A path : path \in DOMAIN TargetOf[req] <=> \E j \in 1 .. Len(plan) : WritesAt(plan, j, path)
  BY <1>2, <1>3 DEF WritesAt
<1>6. ASSUME NEW path \in DOMAIN TargetOf[req], NEW j \in 1 .. Len(plan), WritesAt(plan, j, path)
      PROVE  plan[j].content \in WrittenOf[req][path]
  <2>1. plan[j] \in WritesOf(req) /\ plan[j].path = path
    BY <1>2, <1>6 DEF WritesAt
  <2> QED BY <1>3, <2>1
<1>7. DOMAIN TargetOf[req] \subseteq Path
  BY <1>2, <1>3, <1>4
<1> QED BY <1>5, <1>6, <1>7 DEF plan

LEMMA TargetContent ==
  ASSUME NEW req \in Request, NEW path \in Path, NEW was, NEW content,
         Leaves(build_apply_plan(req), Len(build_apply_plan(req)), path, was, content)
  PROVE  content = IF path \in DOMAIN TargetOf[req] THEN TargetOf[req][path] ELSE was
<1> DEFINE plan == build_apply_plan(req)
           WritesPath(i, place) == plan[i].kind = "write" /\ plan[i].path = place
           LastWrite(place) ==
             CHOOSE i \in DOMAIN plan :
               /\ WritesPath(i, place)
               /\ \A j \in DOMAIN plan : WritesPath(j, place) => j <= i
<1>1. plan \in Seq(Action) /\ DOMAIN plan = 1 .. Len(plan) /\ Len(plan) \in Nat
  BY PlanType, LenProperties
<1>2. path \in DOMAIN TargetOf[req] => TargetOf[req][path] = plan[LastWrite(path)].content
  <2>1. TargetOf[req] = [ place \in {write.path : write \in WritesOf(req)} |-> plan[LastWrite(place)].content ]
    BY Zenon DEF TargetOf
  <2> HIDE DEF LastWrite, plan
  <2> QED BY <2>1
<1> HIDE DEF plan
<1>3. CASE content = was /\ \A i \in 1 .. Len(plan) : ~WritesAt(plan, i, path)
  <2>1. path \notin DOMAIN TargetOf[req]
    BY <1>3, TargetDomain DEF plan
  <2> QED BY <1>3, <2>1
<1>4. ASSUME NEW j \in 1 .. Len(plan), WritesAt(plan, j, path), content = plan[j].content,
             \A i \in (j + 1) .. Len(plan) : ~WritesAt(plan, i, path)
      PROVE  path \in DOMAIN TargetOf[req] /\ content = TargetOf[req][path]
  <2>1. path \in DOMAIN TargetOf[req]
    BY <1>4, TargetDomain DEF plan
  <2>2. /\ j \in DOMAIN plan /\ WritesPath(j, path)
        /\ \A i \in DOMAIN plan : WritesPath(i, path) => i <= j
    BY <1>1, <1>4 DEF WritesAt
  <2>3. LastWrite(path) \in DOMAIN plan /\ WritesPath(LastWrite(path), path)
        /\ \A i \in DOMAIN plan : WritesPath(i, path) => i <= LastWrite(path)
    <3> HIDE DEF WritesPath
    <3> QED BY <2>2
  <2>4. LastWrite(path) = j
    <3> HIDE DEF LastWrite, WritesPath
    <3> QED BY <1>1, <2>2, <2>3
  <2> HIDE DEF LastWrite
  <2> QED BY <1>2, <1>4, <2>1, <2>4
<1>5. Leaves(plan, Len(plan), path, was, content)
  BY DEF plan
<1> QED BY <1>3, <1>4, <1>5 DEF Leaves


\* What is there when the plan is done.
LEMMA PlanIsDone ==
  ASSUME Inv, NEW p \in Proc, RecordInv(p), AloneInv(p), pc[p] \in {"manifest", "state"}
  PROVE  /\ request[p] \in Request
         /\ \A path \in Path :
              files[path] = IF path \in DOMAIN TargetOf[request[p]]
                            THEN TargetOf[request[p]][path] ELSE basis[p][path]
         /\ tx[p].managed = DOMAIN TargetOf[request[p]]
         /\ \A path \in tx[p].managed :
              basis[p][path] = IF path \in tx[p].created THEN Absent ELSE backups[tx[p].id][path]
<1>1. pc[p] \in Applying /\ TypeInv /\ request[p] \in Request /\ tx[p] \in Tx
  BY DEF Applying, Inv, OwnInv, TypeInv, TypeOK, ProcessType, InPlace
<1>2. Applies(p)
  BY <1>1 DEF AloneInv
<1>3. todo[p] = <<>>
  BY <1>1, ManifestIsLast DEF RecordInv, TypeInv, TypeOK, ProcessType, InPlace, PlanCall
<1>4. Done(p) = Len(Plan(p)) /\ Recorded(p) = Len(Plan(p))
  <2>1. Len(todo[p]) = 0 /\ Len(Plan(p)) \in Nat
    BY <1>1, <1>3, EmptySeq, PlanType, LenProperties DEF Plan
  <2> QED BY <2>1 DEF Done, Recorded
<1>5. \A path \in Path :
        /\ Leaves(Plan(p), Len(Plan(p)), path, basis[p][path], files[path])
        /\ path \in tx[p].managed <=> \E j \in 1 .. Len(Plan(p)) : WritesAt(Plan(p), j, path)
  BY <1>2, <1>4 DEF Applies
<1>6. \A path \in Path :
        files[path] = IF path \in DOMAIN TargetOf[request[p]]
                      THEN TargetOf[request[p]][path] ELSE basis[p][path]
  BY <1>1, <1>5, TargetContent DEF Plan
<1>7. tx[p].managed = DOMAIN TargetOf[request[p]]
  <2>1. tx[p].managed \subseteq Path
    BY <1>1 DEF Tx
  <2> QED BY <1>1, <1>5, <2>1, TargetDomain DEF Plan
<1>8. \A path \in tx[p].managed :
        basis[p][path] = IF path \in tx[p].created THEN Absent ELSE backups[tx[p].id][path]
  <2>1. tx[p].managed \subseteq Path /\ Copied(p)
    BY <1>1, <1>2 DEF Tx, Applies
  <2> QED BY <1>1, <2>1, SnapshottedIsRecorded DEF Copied
<1> QED BY <1>1, <1>6, <1>7, <1>8

-----------------------------------------------------------------------------
(* What the observer sees.                                                 *)

Hidden(p, id) == pc[p] # "idle" /\ tx[p].id = id /\ request[p] # None

Shown(id) ==
  IF ~Whole(manifests[id]) THEN manifests[id]
  ELSE [ path \in manifests[id].managed |->
           IF path \in manifests[id].created THEN Absent ELSE backups[id][path] ]

LEMMA ConfigIs ==
  ASSUME NEW solo, Proc = {solo}
  PROVE  /\ Config = IF pc[solo] = "idle" THEN files ELSE basis[solo]
         /\ Config' = IF pc'[solo] = "idle" THEN files' ELSE basis'[solo]
<1>1. /\ Running = IF pc[solo] = "idle" THEN {} ELSE {solo}
      /\ Running' = IF pc'[solo] = "idle" THEN {} ELSE {solo}
  BY DEF Running
<1>2. (CHOOSE p \in {solo} : TRUE) = solo
  OBVIOUS
<1>3. CASE pc[solo] = "idle" /\ pc'[solo] = "idle"
  BY <1>1, <1>3 DEF Config
<1>4. CASE pc[solo] = "idle" /\ pc'[solo] # "idle"
  BY <1>1, <1>2, <1>4 DEF Config
<1>5. CASE pc[solo] # "idle" /\ pc'[solo] = "idle"
  BY <1>1, <1>2, <1>5 DEF Config
<1>6. CASE pc[solo] # "idle" /\ pc'[solo] # "idle"
  BY <1>1, <1>2, <1>6 DEF Config
<1> QED BY <1>3, <1>4, <1>5, <1>6

LEMMA UndoIs ==
  ASSUME NEW solo, Proc = {solo}, NEW id
  PROVE  /\ Undo(id) = IF Hidden(solo, id) THEN Absent ELSE Shown(id)
         /\ Undo(id)' = IF Hidden(solo, id)' THEN Absent ELSE Shown(id)'
<1>1. /\ (\E p \in Running : tx[p].id = id /\ request[p] # None) <=> Hidden(solo, id)
      /\ (\E p \in Running' : tx'[p].id = id /\ request'[p] # None) <=> Hidden(solo, id)'
  BY DEF Running, Hidden
<1>2. Undo(id) = IF Hidden(solo, id) THEN Absent ELSE Shown(id)
  BY <1>1, Zenon DEF Undo, Shown
<1>3. Undo(id)' = IF Hidden(solo, id)' THEN Absent ELSE Shown(id)'
  BY <1>1, Zenon DEF Undo, Shown
<1> QED BY <1>2, <1>3

LEMMA OutcomeIs ==
  ASSUME NEW solo, Proc = {solo}
  PROVE  Outcome = exit[solo] /\ Outcome' = exit'[solo]
<1>1. (CHOOSE p \in Proc : TRUE) = solo
  OBVIOUS
<1> QED BY <1>1 DEF Outcome

LEMMA LastStays ==
  ASSUME state' = state
  PROVE  Last' = Last
  BY DEF Last, Whole

LEMMA NothingSeen ==
  ASSUME Config' = Config, \A id \in Id : Undo(id)' = Undo(id), Last' = Last, Outcome' = Outcome
  PROVE  UNCHANGED Atomic!vars
  BY DEF Atomic!vars


\* Only an idle process can be about to begin a transaction after a step.
LEMMA Moves ==
  ASSUME TypeInv, NEW p \in Proc, Step(p), pc[p] # "idle"
  PROVE  pc'[p] # "begin"
<1> USE DEF TypeInv, TypeOK
<1>1. ASSUME NEW code, Exit(p, code) PROVE pc'[p] # "begin"
  BY <1>1, ExitInPlace
<1>2. ASSUME NEW managed, NEW created, StartsRollback(p, managed, created) PROVE pc'[p] # "begin"
  BY <1>2, ReturningCalls
<1>3. CASE begin_transaction(p) \/ ensure_dir(p) \/ snapshot_before_write(p) \/ write_file(p)
           \/ daemon_reload(p) \/ write_backup_manifest(p)
  <2>1. CASE begin_transaction(p)
    BY <2>1, CallType DEF begin_transaction, ProcessType, PlanCall
  <2>2. CASE ensure_dir(p) \/ write_file(p) \/ daemon_reload(p)
    <3>1. StepDone(p) /\ pc[p] \in PlanStep
      BY <2>2 DEF ensure_dir, write_file, daemon_reload, PlanStep
    <3>2. Tail(todo[p]) \in Seq(Action)
      BY <3>1, HeadTailProperties DEF ProcessType
    <3> QED BY <3>1, <3>2, CallType DEF StepDone, ProcessType, PlanCall
  <2> QED BY <1>3, <2>1, <2>2 DEF snapshot_before_write, write_backup_manifest, ProcessType
<1>4. CASE write_state(p) \/ ResetState(p) \/ CommandFails(p) \/ Crash(p)
  BY <1>1, <1>4 DEF write_state, ResetState, CommandFails, Crash
<1>5. CASE RestorePath(p) \/ RemovePath(p) \/ StepFails(p) \/ read_backup_manifest(p)
  BY <1>1, <1>2, <1>5 DEF RestorePath, RemovePath, StepFails, read_backup_manifest
<1>6. CASE ReloadRolledBack(p)
  BY <1>1, <1>6 DEF ReloadRolledBack, ProcessType
<1>7. ~ (ApplyNoChanges(p) \/ ApplyPlanned(p) \/ RollbackLast(p) \/ RollbackWithoutState(p)
         \/ RollbackTo(p))
  BY DEF ApplyNoChanges, ApplyPlanned, RollbackLast, RollbackWithoutState, RollbackTo, Begins
<1> QED BY <1>3, <1>4, <1>5, <1>6, <1>7 DEF Step, Apply, Rollback

SoloInv(p) == Inv /\ CreatedAreManaged /\ AloneInv(p) /\ RecordInv(p)

\* The observer does not see a command begin.
LEMMA BeginIsQuiet ==
  ASSUME NEW solo, Proc = {solo}, SoloInv(solo),
         ApplyPlanned(solo) \/ RollbackLast(solo) \/ RollbackTo(solo)
  PROVE  UNCHANGED Atomic!vars
<1> USE DEF SoloInv, Inv, OwnInv, TypeInv, TypeOK
<1>1. /\ pc[solo] = "idle" /\ pc'[solo] \in {"begin", "read"} /\ basis'[solo] = files
      /\ UNCHANGED <<files, backups, manifests, state, exit>>
  BY DEF ApplyPlanned, RollbackLast, RollbackTo, Begins, disk, ProcessType
<1>2. request[solo] = None /\ tx[solo].id = None
  BY <1>1, EmptyTx DEF InPlace
<1>3. request'[solo] = None \/ tx'[solo].id = None
  BY <1>2 DEF ApplyPlanned, RollbackLast, RollbackTo
<1>4. Config' = Config /\ Outcome' = Outcome /\ Last' = Last
  BY <1>1, ConfigIs, OutcomeIs, LastStays
<1>5. ASSUME NEW id \in Id PROVE Undo(id)' = Undo(id)
  <2>1. ~Hidden(solo, id) /\ ~Hidden(solo, id)'
    BY <1>1, <1>3, NoneIsOther DEF Hidden
  <2>2. Shown(id)' = Shown(id)
    BY <1>1 DEF Shown
  <2> QED BY <2>1, <2>2, UndoIs
<1> QED BY <1>4, <1>5, NothingSeen

LEMMA GoesOn ==
  ASSUME "snapshot" \notin TearingCalls, Inv, NEW p \in Proc, Step(p), pc[p] # "idle", pc'[p] # "idle"
  PROVE  UNCHANGED <<basis, exit, state, request>>
<1> USE DEF Inv, OwnInv, TypeInv, TypeOK
<1>1. ASSUME NEW code PROVE ~Exit(p, code)
  BY ExitInPlace
<1>2. CASE StepFails(p)
  BY <1>2, FailureTears DEF StepFails
<1>3. CASE Apply(p)
  BY <1>1, <1>3 DEF Apply, ApplyNoChanges, ApplyPlanned, Begins, begin_transaction, ensure_dir,
     snapshot_before_write, write_file, daemon_reload, write_backup_manifest, write_state, disk, local
<1>4. CASE Rollback(p)
  BY <1>1, <1>4 DEF Rollback, RollbackLast, RollbackWithoutState, RollbackTo, Begins,
     read_backup_manifest, RestorePath, RemovePath, ReloadRolledBack, ResetState, disk, local
<1> QED BY <1>1, <1>2, <1>3, <1>4 DEF Step, CommandFails, Crash

\* Nor anything of it before it ends.
LEMMA GoingOnIsQuiet ==
  ASSUME "snapshot" \notin TearingCalls, NEW solo, Proc = {solo}, SoloInv(solo), Step(solo),
         pc[solo] # "idle", pc'[solo] # "idle"
  PROVE  UNCHANGED Atomic!vars
<1> USE DEF SoloInv
<1>1. UNCHANGED <<basis, exit, state, request>> /\ Inv
  BY GoesOn
<1>2. Config' = Config /\ Outcome' = Outcome /\ Last' = Last
  BY <1>1, ConfigIs, OutcomeIs, LastStays
<1>3. TypeInv /\ solo \in Proc
  BY DEF Inv, OwnInv
<1>4. ASSUME NEW id \in Id PROVE Undo(id)' = Undo(id)
  <2>1. Hidden(solo, id) => Owns(solo) /\ tx[solo].id = id
    BY NoneIsOther DEF Hidden, Owns
  <2>2. Hidden(solo, id)' => Owns(solo)' /\ tx'[solo].id = id
    BY NoneIsOther DEF Hidden, Owns
  <2>3. CASE Hidden(solo, id) /\ Hidden(solo, id)'
    BY <2>3, UndoIs
  <2>4. CASE ~Hidden(solo, id)
    <3>1. backups'[id] = backups[id] /\ manifests'[id] = manifests[id]
      <4>1. Owns(solo) => tx[solo].id # id
        BY <2>4 DEF Hidden, Owns
      <4> QED BY <1>3, <4>1, OthersKeep
    <3>2. Shown(id)' = Shown(id)
      BY <3>1 DEF Shown
    <3>3. CASE ~Hidden(solo, id)'
      BY <2>4, <3>2, <3>3, UndoIs
    <3>4. CASE Hidden(solo, id)'
      <4>1. tx'[solo].id = clock + 1
        BY <1>1, <1>3, <2>2, <2>4, <3>4, OwnsNext DEF Hidden, Owns
      <4>2. clock \in Int
        BY <1>3 DEF TypeInv, TypeOK, DiskType
      <4>3. manifests[id] = Absent
        BY <1>1, <2>2, <3>4, <4>1, <4>2 DEF Inv, OwnInv, FreshIds
      <4>4. Shown(id) = Absent
        BY <4>3 DEF Shown, Whole
      <4> QED BY <2>4, <3>4, <4>4, UndoIs
    <3> QED BY <3>3, <3>4
  <2>5. CASE Hidden(solo, id) /\ ~Hidden(solo, id)'
    <3>1. Owns(solo) /\ tx[solo].id = id /\ pc[solo] \notin {"idle", "begin"}
      BY <1>3, <2>1, <2>5, EmptyTx DEF TypeInv, InPlace, Owns
    <3>2. tx'[solo].id = id
      <4>1. TypeInv'
        BY <1>3, TypeNext DEF Next, Step
      <4>2. pc'[solo] # "begin"
        BY <1>3, <3>1, Moves
      <4>3. tx'[solo].id \in Id
        BY <4>1, <4>2, BoundsAreNat DEF TypeInv, TypeOK, DiskType, Id
      <4>4. Owns(solo)'
        BY <1>1, <3>1, <4>3, NoneIsOther DEF Owns
      <4> QED BY <1>3, <3>1, <4>4, OwnsNext DEF begin_transaction
    <3> QED BY <1>1, <2>5, <3>2 DEF Hidden
  <2> QED BY <2>3, <2>4, <2>5
<1> QED BY <1>2, <1>4, NothingSeen


-----------------------------------------------------------------------------
(* The end of a command.                                                   *)

\* Until the manifest is written the transaction shows nothing.
LEMMA UndoIsShown ==
  ASSUME NEW solo, Proc = {solo}, SoloInv(solo), pc[solo] # "state"
  PROVE  \A id \in Id : Undo(id) = Shown(id)
<1> SUFFICES ASSUME NEW id \in Id PROVE Undo(id) = Shown(id)
  OBVIOUS
<1>1. CASE ~Hidden(solo, id)
  BY <1>1, UndoIs
<1>2. CASE Hidden(solo, id)
  <2>1. manifests[id] = Absent
    BY <1>2, NoneIsOther DEF SoloInv, RecordInv, Hidden, Owns
  <2>2. Shown(id) = Absent
    BY <2>1 DEF Shown, Whole
  <2> QED BY <1>2, <2>2, UndoIs
<1> QED BY <1>1, <1>2

LEMMA EndsSeen ==
  ASSUME NEW solo, Proc = {solo}, SoloInv(solo), pc[solo] # "idle", NEW code, Exit(solo, code)
  PROVE  /\ Config = basis[solo] /\ Config' = files' /\ Outcome' = code
         /\ \A id \in Id : Undo(id)' = Shown(id)'
<1>1. TypeInv /\ ProcessType /\ solo \in Proc
  BY DEF SoloInv, Inv, OwnInv, TypeInv, TypeOK
<1>2. pc'[solo] = "idle" /\ exit'[solo] = code
  BY <1>1 DEF Exit, ProcessType
<1>3. \A id \in Id : ~Hidden(solo, id)'
  BY <1>2 DEF Hidden
<1> QED BY <1>2, <1>3, ConfigIs, OutcomeIs, UndoIs

LEMMA ShownStays ==
  ASSUME NEW id, manifests'[id] = manifests[id], backups'[id] = backups[id]
  PROVE  Shown(id)' = Shown(id)
  BY DEF Shown

LEMMA Refused ==
  ASSUME Config' = Config, \A id \in Id : Undo(id)' = Undo(id), Last' = Last, Outcome' \in {1, 137}
  PROVE  Atomic!Next
  BY DEF Atomic!Next, Atomic!RollbackRefused

\* A command that has written nothing yet, or no more than it has put back,
\* ends as if it had not been.
LEMMA EndsAsItBegan ==
  ASSUME NEW solo, Proc = {solo}, SoloInv(solo), pc[solo] \notin {"idle", "state"}, NEW code,
         Exit(solo, code), files' = basis[solo], UNCHANGED <<backups, manifests, state>>
  PROVE  /\ Config' = Config /\ Last' = Last /\ Outcome' = code
         /\ \A id \in Id : Undo(id)' = Undo(id)
<1>1. /\ Config = basis[solo] /\ Config' = files' /\ Outcome' = code
      /\ \A id \in Id : Undo(id)' = Shown(id)'
  BY EndsSeen
<1>2. \A id \in Id : Undo(id) = Shown(id) /\ Shown(id)' = Shown(id)
  BY UndoIsShown, ShownStays
<1> QED BY <1>1, <1>2, LastStays


LEMMA IdleEnds ==
  ASSUME NEW solo, Proc = {solo}, SoloInv(solo), Step(solo), pc[solo] = "idle", pc'[solo] = "idle"
  PROVE  Atomic!Next
<1> USE DEF SoloInv, Inv, OwnInv, TypeInv, TypeOK
<1>1. /\ UNCHANGED <<files, backups, manifests, state>> => Config' = Config /\ Last' = Last
      /\ UNCHANGED <<backups, manifests>> => \A id \in Id : Undo(id)' = Undo(id)
  <2>1. \A id \in Id : ~Hidden(solo, id) /\ ~Hidden(solo, id)'
    BY DEF Hidden
  <2> QED BY <2>1, ConfigIs, UndoIs, LastStays, ShownStays
<1>2. CASE ApplyNoChanges(solo)
  <2>1. UNCHANGED <<files, backups, manifests, state>> /\ exit'[solo] = 0
    BY <1>2 DEF ApplyNoChanges, disk, ProcessType
  <2> QED BY <1>1, <2>1, OutcomeIs DEF Atomic!Next, Atomic!NothingToApply
<1>3. CASE RollbackWithoutState(solo)
  <2>1. UNCHANGED <<files, backups, manifests, state>> /\ exit'[solo] = 1
    BY <1>3 DEF RollbackWithoutState, disk, ProcessType
  <2> QED BY <1>1, <2>1, OutcomeIs, Refused
<1>4. CASE CommandFails(solo)
  <2>1. UNCHANGED <<files, backups, manifests, state>>
    BY <1>4 DEF CommandFails, FailureLeaves, Tears, disk
  <2>2. request[solo] = None
    BY DEF InPlace
  <2>3. exit'[solo] = 1
    BY <1>4, <2>2 DEF CommandFails, Exit, ProcessType
  <2> QED BY <1>1, <2>1, <2>3, OutcomeIs, Refused
<1>5. CASE ApplyPlanned(solo) \/ RollbackLast(solo) \/ RollbackTo(solo)
  BY <1>5 DEF ApplyPlanned, RollbackLast, RollbackTo, ProcessType
<1> QED
  BY <1>2, <1>3, <1>4, <1>5
  DEF Step, Apply, Rollback, begin_transaction, ensure_dir, snapshot_before_write, write_file,
      daemon_reload, write_backup_manifest, write_state, read_backup_manifest, RestorePath,
      RemovePath, ReloadRolledBack, ResetState, StepFails, PlanStep, Crash

\* What a rollback that is done has made of the files.
LEMMA AllIsBack ==
  ASSUME NEW p \in Proc, SoloInv(p), pc[p] \in {"reread", "reset"}
  PROVE  \A path \in Path : files[path] = Back(p)[path]
<1>1. PutsBack(p) /\ restore[p] = {} /\ remove[p] = {}
  BY DEF SoloInv, AloneInv, Returning, Inv, OwnInv, TypeInv, InPlace
<1> QED BY <1>1 DEF PutsBack

LEMMA UndoneEnds ==
  ASSUME NEW solo, Proc = {solo}, SoloInv(solo), ReloadRolledBack(solo), request[solo] # None
  PROVE  Atomic!Next
<1>1. /\ pc[solo] = "reread" /\ Exit(solo, 4) /\ UNCHANGED <<files, backups, manifests, state>>
  BY DEF ReloadRolledBack, disk
<1>2. files = basis[solo]
  <2>1. \A path \in Path : files[path] = basis[solo][path]
    BY <1>1, AllIsBack DEF Back
  <2>2. files \in Files /\ basis[solo] \in Files
    BY <1>1 DEF SoloInv, AloneInv, Inv, OwnInv, TypeInv, TypeOK, DiskType
  <2> QED BY <2>1, <2>2 DEF Files
<1>3. /\ Config' = Config /\ Last' = Last /\ Outcome' = 4
      /\ \A id \in Id : Undo(id)' = Undo(id)
  BY <1>1, <1>2, EndsAsItBegan
<1> QED BY <1>3 DEF Atomic!Next, Atomic!ApplyUndone


\* An apply whose plan is done has written all of it ...
LEMMA PlanSeen ==
  ASSUME NEW solo, Proc = {solo}, SoloInv(solo), pc[solo] \in {"manifest", "state"},
         Config = basis[solo], Config' = files
  PROVE  request[solo] \in Request /\ Config' = Atomic!After(request[solo])
<1>1. /\ request[solo] \in Request
      /\ \A path \in Path :
           files[path] = IF path \in DOMAIN TargetOf[request[solo]]
                         THEN TargetOf[request[solo]][path] ELSE basis[solo][path]
  BY PlanIsDone DEF SoloInv
<1>2. files = [path \in Path |-> files[path]]
  BY DEF SoloInv, Inv, OwnInv, TypeInv, TypeOK, DiskType, Files
<1> QED BY <1>1, <1>2 DEF Atomic!After

\* ... and its manifest is about what it found.
LEMMA RecordSeen ==
  ASSUME NEW solo, Proc = {solo}, SoloInv(solo), pc[solo] = "state", Config = basis[solo]
  PROVE  /\ tx[solo].id \in Id /\ Whole(manifests[tx[solo].id])
         /\ Undo(tx[solo].id) = Absent
         /\ \A id \in Id : id # tx[solo].id => Undo(id) = Shown(id)
         /\ Shown(tx[solo].id) = Atomic!Before(request[solo])
<1> DEFINE id == tx[solo].id
           req == request[solo]
           m == manifests[id]
<1> USE DEF SoloInv, Inv, OwnInv
<1>1. m = manifest_from_transaction(tx[solo], req.profile)
  BY DEF Records
<1>2. m \in Manifest /\ m.managed = tx[solo].managed /\ m.created = tx[solo].created
  BY <1>1, FromManifest
<1>3. Whole(m)
  BY <1>2, DocumentsDiffer DEF Whole
<1>4. /\ tx[solo].managed = DOMAIN TargetOf[req]
      /\ \A path \in tx[solo].managed :
           basis[solo][path] = IF path \in tx[solo].created THEN Absent ELSE backups[id][path]
  BY PlanIsDone
<1>5. Shown(id) = [path \in DOMAIN TargetOf[req] |-> basis[solo][path]]
  <2>1. Shown(id) = [ path \in m.managed |->
                        IF path \in m.created THEN Absent ELSE backups[id][path] ]
    BY <1>3 DEF Shown
  <2> HIDE DEF id, m
  <2> QED BY <1>2, <1>4, <2>1
<1>6. id \in Id /\ req # None
  BY TxId DEF TypeInv, InPlace, Applying
<1>7. \A other \in Id : Hidden(solo, other) <=> other = id
  BY <1>6 DEF Hidden
<1> QED BY <1>3, <1>5, <1>6, <1>7, UndoIs DEF Atomic!Before

LEMMA AppliedEnds ==
  ASSUME NEW solo, Proc = {solo}, SoloInv(solo), write_state(solo)
  PROVE  Atomic!Next
<1> DEFINE id == tx[solo].id
           req == request[solo]
           document == state_from_manifest(id, manifest_from_transaction(tx[solo], req.profile))
<1>1. /\ pc[solo] = "state" /\ Exit(solo, 0) /\ state' = document
      /\ UNCHANGED <<files, backups, manifests>> /\ solo \in Proc
  BY DEF write_state
<1>2. /\ Config = basis[solo] /\ Config' = files /\ Outcome' = 0
      /\ \A other \in Id : Undo(other)' = Shown(other)
  BY <1>1, EndsSeen, ShownStays
<1>3. req \in Request /\ Config' = Atomic!After(req)
  BY <1>1, <1>2, PlanSeen
<1>4. /\ id \in Id /\ Undo(id) = Absent /\ Shown(id) = Atomic!Before(req)
      /\ \A other \in Id : other # id => Undo(other) = Shown(other)
  BY <1>1, <1>2, RecordSeen
<1>5. Last' = [profile |-> req.profile, backup_id |-> id]
  <2>1. document \in StateFile
    BY <1>1, FromManifest DEF SoloInv, Inv, OwnInv
  <2>2. Whole(document)
    BY <2>1, DocumentsDiffer DEF Whole
  <2>3. document.profile = req.profile /\ document.backup_id = id
    BY DEF state_from_manifest, manifest_from_transaction
  <2> HIDE DEF document
  <2>4. Whole(state)' /\ state' = document
    BY <1>1, <2>2 DEF Whole
  <2> QED BY <2>3, <2>4 DEF Last
<1> HIDE DEF id, req
<1>6. [other \in Id |-> Undo(other)]'
        = [[other \in Id |-> Undo(other)] EXCEPT ![id] = Atomic!Before(req)]
  BY <1>2, <1>4
<1>7. Atomic!Applied(req)
  BY <1>2, <1>3, <1>4, <1>5, <1>6 DEF Atomic!Applied
<1> QED BY <1>3, <1>7 DEF Atomic!Next

\* A rollback that went through has put back what its backup shows.
LEMMA BackSeen ==
  ASSUME NEW solo, Proc = {solo}, SoloInv(solo), pc[solo] \in Returning, request[solo] = None,
         Config = basis[solo]
  PROVE  /\ tx[solo].id \in Id /\ Undo(tx[solo].id) \notin {Absent, Torn}
         /\ \A path \in Path : Back(solo)[path] = Atomic!Restored(tx[solo].id)[path]
<1> DEFINE id == tx[solo].id
           m == manifests[id]
<1> USE DEF SoloInv, Inv, OwnInv, TypeInv, TypeOK
<1>1. id \in Id /\ Whole(m)
  BY TxId DEF AloneInv, Returning
<1>2. Undo(id) = [ path \in m.managed |->
                     IF path \in m.created THEN Absent ELSE backups[id][path] ]
  <2>1. Undo(id) = Shown(id)
    BY <1>1, UndoIsShown DEF Returning
  <2> QED BY <1>1, <2>1 DEF Shown
<1>3. m.managed \in SUBSET Path
  BY <1>1, ManifestPaths
<1>4. Undo(id) \in [m.managed -> File]
  <2>1. \A path \in m.managed : backups[id][path] \in File /\ Absent \in File
    BY <1>1, <1>3, FileOfPath DEF File
  <2> HIDE DEF id, m
  <2> QED BY <1>2, <2>1
<1>5. Undo(id) \notin {Absent, Torn}
  BY <1>3, <1>4, ObservationsDiffer
<1>6. \A path \in Path :
        Back(solo)[path] = IF path \notin m.managed THEN basis[solo][path]
                           ELSE IF path \in m.created THEN Absent ELSE backups[id][path]
  BY DEF Back
<1>7. \A path \in Path :
        Atomic!Restored(id)[path] = IF path \in DOMAIN Undo(id) THEN Undo(id)[path]
                                    ELSE basis[solo][path]
  BY <1>1 DEF Atomic!Restored
<1> HIDE DEF id, m
<1>8. \A path \in Path : Back(solo)[path] = Atomic!Restored(id)[path]
  BY <1>2, <1>6, <1>7
<1> QED BY <1>1, <1>5, <1>8 DEF id, m

LEMMA ResetEnds ==
  ASSUME NEW solo, Proc = {solo}, SoloInv(solo), ResetState(solo)
  PROVE  Atomic!Next
<1> DEFINE id == tx[solo].id
<1>1. /\ pc[solo] = "reset" /\ Exit(solo, 0) /\ state' = DefaultState /\ solo \in Proc
      /\ UNCHANGED <<files, backups, manifests>> /\ request[solo] = None
  BY DEF ResetState, SoloInv, Inv, OwnInv, TypeInv, InPlace
<1>2. /\ Config = basis[solo] /\ Config' = files /\ Outcome' = 0
      /\ \A other \in Id : Undo(other)' = Undo(other)
  BY <1>1, EndsSeen, UndoIsShown, ShownStays
<1>3. /\ id \in Id /\ Undo(id) \notin {Absent, Torn}
      /\ \A path \in Path : Back(solo)[path] = Atomic!Restored(id)[path]
  BY <1>1, <1>2, BackSeen DEF Returning
<1>4. Config' = Atomic!Restored(id)
  <2>1. files = [path \in Path |-> files[path]]
    BY DEF SoloInv, Inv, OwnInv, TypeInv, TypeOK, DiskType, Files
  <2>2. \A path \in Path : files[path] = Atomic!Restored(id)[path]
    BY <1>1, <1>3, AllIsBack
  <2> HIDE DEF id
  <2> QED BY <1>2, <2>1, <2>2 DEF Atomic!Restored
<1>5. Last' = [profile |-> None, backup_id |-> None]
  <2>1. DefaultState \in StateFile
    BY DEF DefaultState, StateFile
  <2>2. Whole(DefaultState)
    BY <2>1, DocumentsDiffer DEF Whole
  <2>3. Whole(state)'
    BY <1>1, <2>2 DEF Whole
  <2>4. DefaultState.profile = None /\ DefaultState.backup_id = None
    BY DEF DefaultState
  <2> QED BY <1>1, <2>3, <2>4 DEF Last
<1> HIDE DEF id
<1>6. Atomic!RolledBack(id)
  BY <1>2, <1>3, <1>4, <1>5 DEF Atomic!RolledBack
<1> QED BY <1>3, <1>6 DEF Atomic!Next


-----------------------------------------------------------------------------
(* A command that is stopped.                                              *)

\* p is killed, or a call of it fails, and leaves at most the file it was
\* writing torn.
Stops(p, code) ==
  /\ pc[p] # "idle" /\ Exit(p, code)
  /\ UNCHANGED disk \/ Tears(p)

LEMMA StopCode ==
  ASSUME NEW p \in Proc, CommandFails(p) \/ Crash(p), pc[p] # "idle"
  PROVE  \E code \in {1, 5, 137} : Stops(p, code) /\ (request[p] = None \/ pc[p] = "begin" => code # 5)
<1>1. CASE CommandFails(p)
  BY <1>1 DEF CommandFails, FailureLeaves, Stops
<1>2. CASE Crash(p)
  BY <1>2 DEF Crash, Stops, Killed
<1> QED BY <1>1, <1>2

\* What is left of a torn copy nobody sees: its transaction has no manifest.
LEMMA StopKeepsShown ==
  ASSUME NEW solo, Proc = {solo}, SoloInv(solo), NEW code, Stops(solo, code)
  PROVE  /\ pc[solo] # "manifest" => \A id \in Id : Shown(id)' = Shown(id)
         /\ pc[solo] \notin {"state", "reset"} => state' = state
         /\ pc[solo] \in {"state", "reset"} => state' \in {state, Torn}
         /\ pc[solo] \notin {"write", "restore"} => files' = files
         /\ pc[solo] \in {"begin", "read"} => UNCHANGED <<files, backups, manifests, state>>
         /\ pc[solo] # "snapshot" => backups' = backups
<1> USE DEF SoloInv, Inv, OwnInv, TypeInv, TypeOK
<1>1. CASE pc[solo] = "snapshot" /\ Tears(solo)
  <2>1. backups' = [backups EXCEPT ![tx[solo].id][Head(todo[solo]).path] = Torn]
        /\ UNCHANGED <<files, manifests, state>>
    BY <1>1 DEF Tears
  <2>2. tx[solo].id \in Id /\ request[solo] # None /\ tx[solo].id # None
    BY <1>1, TxId, NoneIsOther DEF InPlace, Applying
  <2>3. manifests[tx[solo].id] = Absent
    BY <1>1, <2>2 DEF RecordInv, Owns
  <2>4. \A id \in Id : id # tx[solo].id => backups'[id] = backups[id]
    BY <2>1, <2>2 DEF DiskType
  <2>5. ASSUME NEW id \in Id PROVE Shown(id)' = Shown(id)
    <3>1. CASE id = tx[solo].id
      BY <2>1, <2>3, <3>1 DEF Shown, Whole
    <3>2. CASE id # tx[solo].id
      BY <2>1, <2>4, <3>2, ShownStays
    <3> QED BY <3>1, <3>2
  <2> QED BY <1>1, <2>1, <2>5
<1>2. CASE pc[solo] = "manifest" /\ Tears(solo)
  BY <1>2 DEF Tears
<1>3. CASE pc[solo] \notin {"snapshot", "manifest"} /\ Tears(solo)
  BY <1>3, ShownStays DEF Tears
<1>4. CASE UNCHANGED disk
  BY <1>4, ShownStays DEF disk
<1> QED BY <1>1, <1>2, <1>3, <1>4 DEF Stops

LEMMA RollbackStops ==
  ASSUME NEW solo, Proc = {solo}, SoloInv(solo), NEW code \in {1, 137}, Stops(solo, code),
         request[solo] = None
  PROVE  Atomic!Next
<1> DEFINE id == tx[solo].id
<1> USE DEF SoloInv, Inv, OwnInv, TypeInv, TypeOK
<1>1. /\ Config = basis[solo] /\ Config' = files' /\ Outcome' = code
      /\ \A other \in Id : Undo(other)' = Shown(other)'
  BY EndsSeen DEF Stops
<1>2. CASE pc[solo] = "read"
  <2>1. files' = basis[solo] /\ UNCHANGED <<backups, manifests, state>> /\ Exit(solo, code)
    BY <1>2, StopKeepsShown DEF AloneInv, Stops
  <2> QED BY <1>2, <2>1, EndsAsItBegan, Refused
<1>3. CASE pc[solo] \in Returning
  <2>1. /\ id \in Id /\ Undo(id) \notin {Absent, Torn}
        /\ \A path \in Path : Back(solo)[path] = Atomic!Restored(id)[path]
    BY <1>1, <1>3, BackSeen
  <2>2. \A path \in Path : files[path] \in {basis[solo][path], Back(solo)[path]}
    BY <1>3 DEF AloneInv, Between
  <2>3. \A path \in Path : files'[path] \in {files[path], Torn}
    BY DEF Stops, Tears, disk, DiskType, Files
  <2>4. \A path \in Path : Config'[path] \in {Config[path], Atomic!Restored(id)[path], Torn}
    BY <1>1, <2>1, <2>2, <2>3
  <2>5. \A other \in Id : Undo(other)' = Undo(other)
    BY <1>1, <1>3, UndoIsShown, StopKeepsShown DEF Returning
  <2>6. Last' = Last \/ (Last' = Torn /\ Config' = Atomic!Restored(id))
    <3>1. CASE pc[solo] # "reset"
      <4>1. state' = state
        BY <1>3, <3>1, StopKeepsShown DEF Returning
      <4> QED BY <4>1, LastStays
    <3>2. CASE pc[solo] = "reset" /\ state' = Torn
      <4>1. Last' = Torn
        BY <3>2 DEF Last, Whole
      <4>2. files' = [path \in Path |-> files[path]]
        BY <3>2, StopKeepsShown DEF DiskType, Files
      <4>3. \A path \in Path : files[path] = Atomic!Restored(id)[path]
        BY <2>1, <3>2, AllIsBack
      <4>4. Config' = Atomic!Restored(id)
        <5> HIDE DEF id
        <5> QED BY <1>1, <4>2, <4>3 DEF Atomic!Restored
      <4> QED BY <4>1, <4>4
    <3>3. CASE pc[solo] = "reset" /\ state' = state
      BY <3>3, LastStays
    <3> QED BY <3>1, <3>2, <3>3, StopKeepsShown
  <2> HIDE DEF id
  <2>7. Atomic!RollbackStopped(id)
    BY <1>1, <2>1, <2>4, <2>5, <2>6 DEF Atomic!RollbackStopped
  <2> QED BY <2>1, <2>7 DEF Atomic!Next
<1>4. pc[solo] = "read" \/ pc[solo] \in Returning
  BY DEF Stops, InPlace, ProcessType, Call, Returning, Applying
<1> QED BY <1>2, <1>3, <1>4


\* An apply that stops has left no file another than it was, but those its
\* plan writes.
LEMMA StoppedFiles ==
  ASSUME NEW p \in Proc, SoloInv(p), NEW code, Stops(p, code),
         pc[p] \notin {"begin", "read"}, request[p] # None
  PROVE  /\ request[p] \in Request
         /\ \A path \in Path :
              \/ files'[path] = basis[p][path]
              \/ /\ path \in DOMAIN TargetOf[request[p]]
                 /\ files'[path] \in WrittenOf[request[p]][path] \union {Torn}
<1> DEFINE plan == Plan(p)
           req == request[p]
<1> USE DEF SoloInv, Inv, OwnInv, TypeInv, TypeOK
<1>1. req \in Request /\ plan \in Seq(Action)
  BY PlanType DEF ProcessType, Plan
<1>2. Partly(p)
  <2>1. CASE pc[p] \in Applying
    BY <2>1, AppliesPartly DEF AloneInv
  <2>2. CASE pc[p] \in Returning
    BY <2>2 DEF AloneInv
  <2>3. pc[p] \in Applying \/ pc[p] \in Returning
    BY DEF ProcessType, Call, Applying, Returning, Stops
  <2> QED BY <2>1, <2>2, <2>3
<1>3. ASSUME NEW path \in Path
      PROVE  \/ files'[path] = files[path]
             \/ /\ files'[path] = Torn
                /\ \E j \in 1 .. Len(plan) : WritesAt(plan, j, path)
  <2>1. CASE UNCHANGED disk
    BY <2>1 DEF disk
  <2>2. CASE Tears(p) /\ pc[p] = "write"
    <3>1. files' = [files EXCEPT ![Head(todo[p]).path] = Torn]
      BY <2>2 DEF Tears
    <3>2. OnPlan(p)
      BY <2>2 DEF AloneInv, Applies, Applying
    <3>3. /\ Done(p) + 1 \in 1 .. Len(plan) /\ Head(todo[p]) = plan[Done(p) + 1]
          /\ Head(todo[p]).kind = "write"
      BY <2>2, <3>2, Ahead, KindOfCall DEF PlanStep
    <3>4. WritesAt(plan, Done(p) + 1, Head(todo[p]).path)
      BY <3>3 DEF WritesAt
    <3>5. files'[path] = IF path = Head(todo[p]).path THEN Torn ELSE files[path]
      BY <3>1 DEF DiskType, Files
    <3> HIDE DEF plan
    <3> QED BY <3>3, <3>4, <3>5
  <2>3. CASE Tears(p) /\ pc[p] = "restore"
    <3>1. PICK place \in restore[p] : /\ backups[tx[p].id][place] # Absent
                                      /\ files' = [files EXCEPT ![place] = Torn]
      BY <2>3 DEF Tears
    <3>2. place \in Path
      BY DEF ProcessType
    <3>3. \E j \in 1 .. Len(plan) : WritesAt(plan, j, place)
      BY <2>3, <3>1, <3>2 DEF AloneInv, Planned, Returning
    <3> HIDE DEF plan
    <3> QED BY <3>1, <3>3 DEF DiskType, Files
  <2>4. CASE Tears(p) /\ pc[p] \notin {"write", "restore"}
    BY <2>4 DEF Tears
  <2> QED BY <2>1, <2>2, <2>3, <2>4 DEF Stops
<1>4. ASSUME NEW path \in Path, NEW j \in 1 .. Len(plan), WritesAt(plan, j, path)
      PROVE  path \in DOMAIN TargetOf[req] /\ plan[j].content \in WrittenOf[req][path]
  BY <1>1, <1>4, TargetDomain DEF Plan
<1> HIDE DEF plan, req
<1>5. ASSUME NEW path \in Path, files'[path] # basis[p][path]
      PROVE  path \in DOMAIN TargetOf[req] /\ files'[path] \in WrittenOf[req][path] \union {Torn}
  <2>1. CASE files'[path] = files[path]
    <3>1. PICK j \in 1 .. Len(plan) :
            WritesAt(plan, j, path) /\ files[path] \in {plan[j].content, Torn}
      BY <1>2, <1>5, <2>1 DEF Partly, plan
    <3> QED BY <1>4, <2>1, <3>1
  <2>2. CASE files'[path] # files[path]
    BY <1>3, <1>4, <2>2
  <2> QED BY <2>1, <2>2
<1> QED BY <1>1, <1>5 DEF req

LEMMA OneUndo ==
  ASSUME NEW id \in Id, NEW value,
         \A other \in Id : Undo(other)' = IF other = id THEN value ELSE Undo(other)
  PROVE  [other \in Id |-> Undo(other)]' = [[other \in Id |-> Undo(other)] EXCEPT ![id] = value]
  OBVIOUS

LEMMA ApplyStops ==
  ASSUME NEW solo, Proc = {solo}, SoloInv(solo), NEW code \in {1, 5, 137}, Stops(solo, code),
         request[solo] # None, pc[solo] # "begin"
  PROVE  Atomic!Next
<1> DEFINE id == tx[solo].id
           req == request[solo]
<1> USE DEF SoloInv, Inv, OwnInv, TypeInv, TypeOK
<1>1. /\ Config = basis[solo] /\ Config' = files' /\ Outcome' = code
      /\ \A other \in Id : Undo(other)' = Shown(other)'
  BY EndsSeen DEF Stops
<1>2. pc[solo] \notin {"begin", "read"} /\ id \in Id
  BY TxId DEF InPlace, Stops
<1>3. /\ req \in Request
      /\ \A path \in Path :
           \/ Config'[path] = Config[path]
           \/ /\ path \in DOMAIN TargetOf[req]
              /\ Config'[path] \in WrittenOf[req][path] \union {Torn}
  BY <1>1, <1>2, StoppedFiles
<1>4. CASE pc[solo] \notin {"manifest", "state"}
  <2>1. \A other \in Id : Undo(other)' = Undo(other)
    BY <1>1, <1>4, UndoIsShown, StopKeepsShown
  <2>2. pc[solo] # "reset"
    BY DEF InPlace
  <2>3. Last' = Last
    BY <1>4, <2>2, StopKeepsShown, LastStays
  <2> HIDE DEF req
  <2>4. Atomic!ApplyStopped(req)
    BY <1>1, <1>3, <2>1, <2>3 DEF Atomic!ApplyStopped
  <2> QED BY <1>3, <2>4 DEF Atomic!Next
<1>5. CASE pc[solo] = "manifest"
  <2>1. files' = files /\ Last' = Last /\ backups' = backups
    BY <1>5, StopKeepsShown, LastStays
  <2>2. Config' = Atomic!After(req)
    BY <1>1, <1>5, <2>1, PlanSeen
  <2>3. Undo(id) = Absent /\ \A other \in Id : Undo(other) = Shown(other)
    <3>1. manifests[id] = Absent
      BY <1>2, <1>5, NoneIsOther DEF RecordInv, Owns
    <3>2. Shown(id) = Absent
      BY <3>1 DEF Shown, Whole
    <3> QED BY <1>2, <1>5, <3>2, UndoIsShown
  <2>4. CASE manifests' = manifests
    <3>1. \A other \in Id : Undo(other)' = Undo(other)
      BY <1>1, <2>1, <2>3, <2>4, ShownStays
    <3> HIDE DEF req
    <3>2. Atomic!ApplyStopped(req)
      BY <1>1, <1>3, <2>1, <3>1 DEF Atomic!ApplyStopped
    <3> QED BY <1>3, <3>2 DEF Atomic!Next
  <2>5. CASE manifests' = [manifests EXCEPT ![id] = Torn]
    <3>1. \A other \in Id : manifests'[other] = IF other = id THEN Torn ELSE manifests[other]
      BY <1>2, <2>5 DEF DiskType
    <3>2. \A other \in Id : Shown(other)' = IF other = id THEN Torn ELSE Shown(other)
      <4> SUFFICES ASSUME NEW other \in Id
                   PROVE  Shown(other)' = IF other = id THEN Torn ELSE Shown(other)
        OBVIOUS
      <4>1. CASE other = id
        <5>1. manifests'[other] = Torn
          BY <3>1, <4>1
        <5> QED BY <4>1, <5>1 DEF Shown, Whole
      <4>2. CASE other # id
        BY <2>1, <3>1, <4>2, ShownStays
      <4> QED BY <4>1, <4>2
    <3> HIDE DEF req, id
    <3>3. \A other \in Id : Undo(other)' = IF other = id THEN Torn ELSE Undo(other)
      BY <1>1, <2>3, <3>2
    <3>4. [other \in Id |-> Undo(other)]' = [[other \in Id |-> Undo(other)] EXCEPT ![id] = Torn]
      BY <1>2, <3>3, OneUndo
    <3>5. Atomic!ApplyStopped(req)
      BY <1>1, <1>2, <1>3, <2>1, <2>2, <2>3, <3>4 DEF Atomic!ApplyStopped
    <3> QED BY <1>3, <3>5 DEF Atomic!Next
  <2> QED BY <1>5, <2>4, <2>5 DEF Stops, Tears, disk
<1>6. CASE pc[solo] = "state"
  <2>1. files' = files /\ backups' = backups /\ state' \in {state, Torn}
    BY <1>6, StopKeepsShown
  <2>2. Config' = Atomic!After(req)
    BY <1>1, <1>6, <2>1, PlanSeen
  <2>3. /\ Undo(id) = Absent /\ Shown(id) = Atomic!Before(req)
        /\ \A other \in Id : other # id => Undo(other) = Shown(other)
    BY <1>1, <1>6, RecordSeen
  <2>4. \A other \in Id : Undo(other)' = Shown(other)
    BY <1>1, <1>6, StopKeepsShown
  <2>5. Last' \in {Last, Torn}
    <3>1. CASE state' = state
      BY <3>1, LastStays
    <3>2. CASE state' = Torn
      BY <3>2 DEF Last, Whole
    <3> QED BY <2>1, <3>1, <3>2
  <2>6. Atomic!Before(req) # Absent
    <3>1. DOMAIN TargetOf[req] \subseteq Path
      BY <1>3, TargetDomain
    <3>2. basis[solo] \in Files
      BY <1>6 DEF AloneInv
    <3>3. Atomic!Before(req) \in [DOMAIN TargetOf[req] -> File]
      <4> HIDE DEF req
      <4> QED BY <1>1, <3>1, <3>2 DEF Atomic!Before, Files
    <3> QED BY <3>1, <3>3, ObservationsDiffer
  <2> HIDE DEF req, id
  <2>7. [other \in Id |-> Undo(other)]'
          = [[other \in Id |-> Undo(other)] EXCEPT ![id] = Atomic!Before(req)]
    <3>1. \A other \in Id : Undo(other)' = IF other = id THEN Atomic!Before(req) ELSE Undo(other)
      BY <2>3, <2>4
    <3> QED BY <1>2, <3>1, OneUndo
  <2>8. [other \in Id |-> Undo(other)]' # [other \in Id |-> Undo(other)]
    <3>1. PICK other \in Id : other = id
      BY <1>2
    <3>2. Undo(other)' # Undo(other)
      BY <2>3, <2>4, <2>6, <3>1
    <3> QED BY <3>2
  <2>9. Atomic!ApplyStopped(req)
    BY <1>1, <1>2, <1>3, <2>2, <2>3, <2>5, <2>7, <2>8 DEF Atomic!ApplyStopped
  <2> QED BY <1>3, <2>9 DEF Atomic!Next
<1> QED BY <1>4, <1>5, <1>6


-----------------------------------------------------------------------------
(* Every step is one of the abstract specification, or none.               *)

\* The steps that end a command.
LEMMA Endings ==
  ASSUME TypeInv, NEW p \in Proc, Step(p), pc[p] # "idle", pc'[p] = "idle"
  PROVE  \/ write_state(p) \/ ResetState(p) \/ CommandFails(p) \/ Crash(p)
         \/ ReloadRolledBack(p) /\ request[p] # None
         \/ read_backup_manifest(p) /\ Exit(p, 1)
<1> USE DEF TypeInv, TypeOK
<1>1. CASE begin_transaction(p) \/ snapshot_before_write(p) \/ write_backup_manifest(p)
  BY <1>1, CallType
  DEF begin_transaction, snapshot_before_write, write_backup_manifest, ProcessType, PlanCall
<1>2. CASE ensure_dir(p) \/ write_file(p) \/ daemon_reload(p)
  <2>1. Tail(todo[p]) \in Seq(Action) /\ StepDone(p)
    BY <1>2, HeadTailProperties DEF ensure_dir, write_file, daemon_reload, ProcessType, PlanStep
  <2> QED BY <2>1, CallType DEF StepDone, ProcessType, PlanCall
<1>3. CASE RestorePath(p) \/ RemovePath(p) \/ StepFails(p)
  <2>1. \E managed, created : StartsRollback(p, managed, created)
    BY <1>3 DEF RestorePath, RemovePath, StepFails
  <2> QED BY <2>1, ReturningCalls
<1>4. CASE read_backup_manifest(p)
  BY <1>4, ReturningCalls DEF read_backup_manifest
<1>5. CASE ReloadRolledBack(p)
  BY <1>5 DEF ReloadRolledBack, ProcessType
<1>6. ~ (ApplyNoChanges(p) \/ ApplyPlanned(p) \/ RollbackLast(p) \/ RollbackWithoutState(p)
         \/ RollbackTo(p))
  BY DEF ApplyNoChanges, ApplyPlanned, RollbackLast, RollbackWithoutState, RollbackTo, Begins
<1> QED BY <1>1, <1>2, <1>3, <1>4, <1>5, <1>6 DEF Step, Apply, Rollback

LEMMA EndIsSeen ==
  ASSUME NEW solo, Proc = {solo}, SoloInv(solo), Step(solo), pc[solo] # "idle", pc'[solo] = "idle"
  PROVE  Atomic!Next
<1>1. TypeInv /\ solo \in Proc
  BY DEF SoloInv, Inv, OwnInv
<1>2. CASE write_state(solo)
  BY <1>2, AppliedEnds
<1>3. CASE ResetState(solo)
  BY <1>3, ResetEnds
<1>4. CASE ReloadRolledBack(solo) /\ request[solo] # None
  BY <1>4, UndoneEnds
<1>5. CASE read_backup_manifest(solo) /\ Exit(solo, 1)
  <2>1. /\ pc[solo] = "read" /\ files' = basis[solo] /\ UNCHANGED <<backups, manifests, state>>
    BY <1>5 DEF read_backup_manifest, disk, SoloInv, AloneInv
  <2> QED BY <1>5, <2>1, EndsAsItBegan, Refused
<1>6. CASE CommandFails(solo) \/ Crash(solo)
  <2>1. PICK code \in {1, 5, 137} :
          Stops(solo, code) /\ (request[solo] = None \/ pc[solo] = "begin" => code # 5)
    BY <1>1, <1>6, StopCode
  <2>2. CASE request[solo] = None
    BY <2>1, <2>2, RollbackStops
  <2>3. CASE pc[solo] = "begin"
    <3>1. /\ files' = basis[solo] /\ UNCHANGED <<backups, manifests, state>>
          /\ Exit(solo, code) /\ code \in {1, 137}
      BY <2>1, <2>3, StopKeepsShown DEF SoloInv, AloneInv, Stops
    <3> QED BY <2>3, <3>1, EndsAsItBegan, Refused
  <2>4. CASE request[solo] # None /\ pc[solo] # "begin"
    BY <2>1, <2>4, ApplyStops
  <2> QED BY <2>2, <2>3, <2>4
<1> QED BY <1>1, <1>2, <1>3, <1>4, <1>5, <1>6, Endings

LEMMA StepIsAtomic ==
  ASSUME "snapshot" \notin TearingCalls, NEW solo, Proc = {solo}, SoloInv(solo), Step(solo)
  PROVE  [Atomic!Next]_(Atomic!vars)
<1>1. CASE pc[solo] = "idle" /\ pc'[solo] = "idle"
  BY <1>1, IdleEnds
<1>2. CASE pc[solo] = "idle" /\ pc'[solo] # "idle"
  <2>1. ApplyPlanned(solo) \/ RollbackLast(solo) \/ RollbackTo(solo)
    <3>1. ~ (ApplyNoChanges(solo) \/ RollbackWithoutState(solo))
      BY <1>2 DEF ApplyNoChanges, RollbackWithoutState, Begins
    <3>2. ~ CommandFails(solo)
      BY <1>2, ExitInPlace DEF CommandFails, SoloInv, Inv, OwnInv, TypeInv, TypeOK
    <3> QED
      BY <1>2, <3>1, <3>2
      DEF Step, Apply, Rollback, begin_transaction, ensure_dir, snapshot_before_write, write_file,
          daemon_reload, write_backup_manifest, write_state, read_backup_manifest, RestorePath,
          RemovePath, ReloadRolledBack, ResetState, StepFails, PlanStep, Crash
  <2> QED BY <2>1, BeginIsQuiet
<1>3. CASE pc[solo] # "idle" /\ pc'[solo] # "idle"
  BY <1>3, GoingOnIsQuiet
<1>4. CASE pc[solo] # "idle" /\ pc'[solo] = "idle"
  BY <1>4, EndIsSeen
<1> QED BY <1>1, <1>2, <1>3, <1>4

LEMMA StutterIsQuiet ==
  ASSUME UNCHANGED vars
  PROVE  UNCHANGED Atomic!vars
<1>1. UNCHANGED <<files, backups, manifests, state, pc, request, tx, exit, basis>>
  BY DEF vars, disk, local
<1>2. Running' = Running
  BY <1>1 DEF Running
<1>3. Config' = Config /\ Last' = Last /\ Outcome' = Outcome
  BY <1>1, <1>2 DEF Config, Last, Outcome, Whole
<1>4. \A id \in Id : Undo(id)' = Undo(id)
  BY <1>1, <1>2 DEF Undo
<1> QED BY <1>3, <1>4, NothingSeen

\* Commands that run one after the other are atomic: for every set of
\* profiles, requests and initial files, wherever calls fail or the process is
\* killed, what can be seen of the files, state.json and the backups between
\* commands is a behaviour of AtomicApply.  A copy that fails is assumed to
\* leave no part of itself behind: with it the undo would put the part back
\* (FailedApplyRestores).
THEOREM CommandsAreAtomicHolds ==
  ASSUME NEW solo, Proc = {solo}, "snapshot" \notin TearingCalls
  PROVE  Spec => CommandsAreAtomic
<1>1. Init => SoloInv(solo) /\ Atomic!Init
  <2> SUFFICES ASSUME Init PROVE SoloInv(solo) /\ Atomic!Init
    OBVIOUS
  <2>1. /\ pc[solo] = "idle" /\ request[solo] = None /\ exit[solo] = 0 /\ state = Absent
        /\ manifests = [id \in Id |-> Absent]
    BY DEF Init
  <2>2. CreatedAreManaged /\ AloneInv(solo) /\ RecordInv(solo)
    BY <2>1 DEF CreatedAreManaged, Whole, AloneInv, Applying, Returning, RecordInv, Owns
  <2>3. SoloInv(solo)
    BY <2>2, InvInit DEF SoloInv
  <2>4. \A id \in Id : Undo(id) = Absent
    <3>1. \A id \in Id : Shown(id) = Absent
      BY <2>1 DEF Shown, Whole
    <3> QED BY <2>1, <2>3, <3>1, UndoIsShown
  <2>5. Last = Absent /\ Outcome = 0
    BY <2>1, OutcomeIs DEF Last, Whole
  <2> QED BY <2>3, <2>4, <2>5 DEF Atomic!Init
<1>2. SoloInv(solo) /\ [Next]_vars => SoloInv(solo)'
  <2> SUFFICES ASSUME SoloInv(solo), [Next]_vars PROVE SoloInv(solo)'
    OBVIOUS
  <2>1. Inv'
    BY InvNext DEF SoloInv
  <2>2. CASE UNCHANGED vars
    <3>1. CreatedAreManaged' /\ RecordInv(solo)'
      BY <2>2 DEF SoloInv, CreatedAreManaged, RecordInv, Owns, vars, disk, local
    <3>2. AloneInv(solo)'
      <4>1. UNCHANGED <<files, backups, manifests, pc, request, todo, tx, restore, remove, basis>>
        BY <2>2 DEF vars, disk, local
      <4>2. UNCHANGED <<Plan(solo), Done(solo), Recorded(solo), Back(solo)>>
        BY <4>1 DEF Plan, Done, Recorded, Back
      <4>3. /\ Applies(solo) => Applies(solo)'
            /\ PutsBack(solo) => PutsBack(solo)'
        BY <4>1, <4>2 DEF Applies, OnPlan, Copied, PutsBack
      <4> QED BY <4>1, <4>2, <4>3 DEF SoloInv, AloneInv, Partly, Planned, Between
    <3> QED BY <2>1, <3>1, <3>2 DEF SoloInv
  <2>3. CASE Next
    <3>1. solo \in Proc /\ Step(solo)
      BY <2>3 DEF Next, Step
    <3> QED
      BY <2>1, <3>1, AloneNext, CreatedAreManagedNext, RecordNext DEF SoloInv
  <2> QED BY <2>2, <2>3
<1>3. SoloInv(solo) /\ [Next]_vars => [Atomic!Next]_(Atomic!vars)
  <2>1. Next => Step(solo)
    BY DEF Next, Step
  <2> QED BY <2>1, StepIsAtomic, StutterIsQuiet
<1> QED BY <1>1, <1>2, <1>3, PTL DEF Spec, CommandsAreAtomic, Atomic!Spec
=============================================================================
