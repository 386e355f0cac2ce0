---------------------------- MODULE DesktopProofs ---------------------------
(***************************************************************************)
(* Theorems about desktop wrap, desktop unwrap and suggest, for any number *)
(* of processes, entries, commands, failing calls and kills.               *)
(*                                                                         *)
(* The central notion is a safe place: a place without a file of the user, *)
(* or with one that some backup has.  No step makes a safe place unsafe,   *)
(* and whoever writes over a place has made it safe before.                *)
(***************************************************************************)
EXTENDS DesktopProperties, FiniteSetTheorems, SequenceTheorems, WellFoundedInduction, TLAPS

-----------------------------------------------------------------------------
(* Smallest and largest numbers, sequences.                                *)

\* Every set of natural numbers has a smallest one.
LEMMA NatSmallest ==
  ASSUME NEW T, T \subseteq Nat, T # {}
  PROVE  \E x \in T : \A y \in T : x <= y
<1>1. \A x \in Nat, y \in Nat : y < x => <<y, x>> \in OpToRel(<, Nat)
  BY DEF OpToRel
<1>2. \E x \in T : \A y \in T : ~ (<<y, x>> \in OpToRel(<, Nat))
  BY NatLessThanWellFounded, WFMin
<1>3. \E x \in T : \A y \in T : ~(y < x)
  BY <1>1, <1>2, Zenon
<1> QED BY <1>3

\* A bounded one has a largest one.
LEMMA NatLargest ==
  ASSUME NEW T, T \subseteq Nat, T # {}, NEW bound \in Nat, \A x \in T : x <= bound
  PROVE  \E x \in T : \A y \in T : x >= y
<1> DEFINE U == {bound - x : x \in T}
<1>1. U \subseteq Nat /\ U # {}
  OBVIOUS
<1>2. PICK u \in U : \A v \in U : u <= v
  BY <1>1, NatSmallest
<1>3. PICK x \in T : u = bound - x
  BY <1>2
<1>4. ASSUME NEW y \in T PROVE x >= y
  <2>1. u <= bound - y
    BY <1>2
  <2> QED BY <1>3, <2>1
<1> QED BY <1>4

\* A sequence, whatever its elements are.
IsSeq(s) == s \in Seq({s[i] : i \in DOMAIN s})

LEMMA SeqIsSeq ==
  ASSUME NEW S, NEW s \in Seq(S)
  PROVE  IsSeq(s)
  BY DEF IsSeq

LEMMA ConcatIsSeq ==
  ASSUME NEW s, IsSeq(s), NEW t, IsSeq(t)
  PROVE  /\ IsSeq(s \o t) /\ Len(s \o t) = Len(s) + Len(t)
         /\ Len(s) \in Nat /\ Len(t) \in Nat
         /\ \A i \in 1..Len(s) : (s \o t)[i] = s[i]
         /\ \A i \in 1..Len(t) : (s \o t)[Len(s) + i] = t[i]
<1> DEFINE S == {s[i] : i \in DOMAIN s} \cup {t[i] : i \in DOMAIN t}
<1>1. s \in Seq(S) /\ t \in Seq(S)
  BY SeqDef DEF IsSeq
<1> HIDE DEF S
<1>2. s \o t \in Seq(S)
  BY <1>1, ConcatProperties
<1>3. IsSeq(s \o t)
  BY <1>2, SeqIsSeq
<1>4. /\ Len(s \o t) = Len(s) + Len(t) /\ Len(s) \in Nat /\ Len(t) \in Nat
  BY <1>1, ConcatProperties, LenProperties
<1>5. \A i \in 1..(Len(s) + Len(t)) :
        (s \o t)[i] = IF i <= Len(s) THEN s[i] ELSE t[i - Len(s)]
  BY <1>1, ConcatProperties
<1> QED BY <1>3, <1>4, <1>5

-----------------------------------------------------------------------------
(* Names and contents.                                                     *)

LEMMA WrapperId ==
  ASSUME NEW id, IsSeq(id), NEW class
  PROVE  LET wrapper == wrapper_desktop_id(id, class) IN
         /\ IsSeq(wrapper) /\ Len(wrapper) \in Nat /\ Len(wrapper) >= 3
         /\ wrapper[Len(wrapper) - 2] = "resguard"
<1> DEFINE end == <<".", "desktop", ".", "resguard", "-", class>>
<1>1. end \in Seq({".", "desktop", "resguard", "-", class})
  OBVIOUS
<1>2. IsSeq(end)
  BY <1>1, SeqIsSeq
<1>3. Len(end) = 6 /\ end[4] = "resguard"
  OBVIOUS
<1> HIDE DEF end
<1>4. /\ IsSeq(id \o end) /\ Len(id \o end) = Len(id) + Len(end) /\ Len(id) \in Nat
      /\ \A i \in 1..Len(end) : (id \o end)[Len(id) + i] = end[i]
  BY <1>2, ConcatIsSeq
<1>5. (id \o end)[Len(id) + 4] = "resguard"
  BY <1>3, <1>4
<1>6. Len(id \o end) = Len(id) + 6 /\ Len(id) + 6 - 2 = Len(id) + 4
  BY <1>3, <1>4
<1>7. wrapper_desktop_id(id, class) = id \o end
  BY DEF wrapper_desktop_id, end
<1> QED BY <1>4, <1>5, <1>6, <1>7

\* No file of the user has the id of a wrapper.
LEMMA WrapperIdIsFree ==
  ASSUME PlainFiles, NEW id, IsSeq(id), NEW class
  PROVE  wrapper_desktop_id(id, class) \notin DOMAIN UserFiles
<1> HIDE DEF wrapper_desktop_id
<1> QED BY WrapperId DEF PlainFiles

\* No wrapper has a content of the user, and a cut file has none either.
LEMMA WrapperIsNotOwn ==
  ASSUME PlainFiles, NEW source, IsSeq(source.exec), NEW class
  PROVE  render_wrapper(source, class) \notin Own
<1> DEFINE run0 == <<<<"resguard">>, <<"run">>, <<"-", "-", "class">>, <<class>>, <<"-", "-">>>>
<1>1. run0 \in Seq({<<"resguard">>, <<"run">>, <<"-", "-", "class">>, <<class>>, <<"-", "-">>})
  OBVIOUS
<1>2. IsSeq(run0)
  BY <1>1, SeqIsSeq
<1>3. Len(run0) = 5 /\ run0[1] = <<"resguard">>
  OBVIOUS
<1> HIDE DEF run0
<1> DEFINE exec == run0 \o source.exec
<1>4. /\ IsSeq(exec) /\ Len(exec) = Len(run0) + Len(source.exec) /\ Len(source.exec) \in Nat
      /\ \A i \in 1..Len(run0) : exec[i] = run0[i]
  BY <1>2, ConcatIsSeq
<1>5. exec # <<>> /\ Head(exec) = <<"resguard">>
  <2>1. exec[1] = <<"resguard">> /\ Len(exec) >= 5
    BY <1>3, <1>4
  <2>2. Len(<<>>) = 0
    OBVIOUS
  <2> HIDE DEF exec
  <2> QED BY <1>4, <2>1, <2>2 DEF IsSeq
<1>6. render_wrapper(source, class).exec = exec
  BY DEF render_wrapper, Content, wrap_exec, run0
<1> HIDE DEF exec
<1> QED BY <1>5, <1>6 DEF PlainFiles, Own

LEMMA WrapperExecIsSeq ==
  ASSUME NEW source, IsSeq(source.exec), NEW class
  PROVE  IsSeq(render_wrapper(source, class).exec)
<1> DEFINE run0 == <<<<"resguard">>, <<"run">>, <<"-", "-", "class">>, <<class>>, <<"-", "-">>>>
<1>1. run0 \in Seq({<<"resguard">>, <<"run">>, <<"-", "-", "class">>, <<class>>, <<"-", "-">>})
  OBVIOUS
<1>2. render_wrapper(source, class).exec = run0 \o source.exec
  BY DEF render_wrapper, Content, wrap_exec
<1> HIDE DEF run0
<1> QED BY <1>1, <1>2, SeqIsSeq, ConcatIsSeq

LEMMA TornIsNotOwn ==
  ASSUME PlainFiles
  PROVE  Torn \notin Own
  BY DEF PlainFiles, Own

-----------------------------------------------------------------------------
(* What the resolution of an id finds is one of the entries.               *)

\* Entries as discovery finds them: the directories are numbers below some bound.
AreEntries(S, bound) ==
  bound \in Nat /\ \A e \in S : e.dir \in Nat /\ e.dir <= bound

LEMMA FirstIsOne ==
  ASSUME NEW bound, NEW S, AreEntries(S, bound), S # {}
  PROVE  FirstDir(S) \in S
<1> DEFINE dirs == {e.dir : e \in S}
<1>1. dirs \subseteq Nat /\ dirs # {}
  BY DEF AreEntries
<1>2. \E d \in dirs : \A f \in dirs : d <= f
  BY <1>1, NatSmallest
<1>3. \E e \in S : \A f \in S : e.dir <= f.dir
  BY <1>2
<1> QED BY <1>3 DEF FirstDir

LEMMA LastIsOne ==
  ASSUME NEW bound, NEW S, AreEntries(S, bound), S # {}
  PROVE  LastDir(S) \in S
<1> DEFINE dirs == {e.dir : e \in S}
<1>1. dirs \subseteq Nat /\ dirs # {} /\ bound \in Nat /\ \A d \in dirs : d <= bound
  BY DEF AreEntries
<1>2. \E d \in dirs : \A f \in dirs : d >= f
  BY <1>1, NatLargest
<1>3. \E e \in S : \A f \in S : e.dir >= f.dir
  BY <1>2
<1> QED BY <1>3 DEF LastDir

LEMMA FoundIsEntry ==
  ASSUME NEW bound, NEW S, AreEntries(S, bound), NEW id, IsFound(resolve_desktop_id(id, S))
  PROVE  resolve_desktop_id(id, S).entry \in S
<1> DEFINE snaps == SnapHits(id, S)
           exact == {e \in S : e.id = id}
           loose == LooseHits(id, S)
           parts == {e \in S : Occurs(id, e.id)}
<1>1. /\ snaps \subseteq S /\ exact \subseteq S /\ loose \subseteq S /\ parts \subseteq S
  BY DEF SnapHits, LooseHits
<1>2. \A T \in SUBSET S : T # {} => FirstDir(T) \in S /\ LastDir(T) \in S /\ PickHit(T) \in S
  <2> SUFFICES ASSUME NEW T \in SUBSET S, T # {}
               PROVE  FirstDir(T) \in S /\ LastDir(T) \in S /\ PickHit(T) \in S
    OBVIOUS
  <2>1. AreEntries(T, bound)
    BY DEF AreEntries
  <2> QED BY <2>1, FirstIsOne, LastIsOne DEF PickHit
<1>3. \A hits, picked : IsFound(AliasAmong(hits, picked)) => AliasAmong(hits, picked).entry = picked
  BY DEF AliasAmong, Alias, Ambiguous, IsFound
<1>4. ~IsFound(NotFound)
  BY DEF NotFound, IsFound
<1>5. \A e : Exact(e).entry = e /\ Alias(e).entry = e
  BY DEF Exact, Alias
<1>6. IsFound(resolve_alias_candidate(id, S)) => resolve_alias_candidate(id, S).entry \in S
  <2>1. Cardinality(parts) = 1 => parts # {}
    BY FS_EmptySet
  <2>2. Cardinality(parts) = 1 => resolve_alias_candidate(id, S) = Alias(FirstDir(parts))
    BY DEF resolve_alias_candidate
  <2>3. Cardinality(parts) # 1 => resolve_alias_candidate(id, S) = NotFound
    BY DEF resolve_alias_candidate
  <2> HIDE DEF parts
  <2> QED BY <1>1, <1>2, <1>4, <1>5, <2>1, <2>2, <2>3
<1>7. resolve_desktop_id(id, S) =
        IF ~validate_desktop_id(id) THEN NotFound
        ELSE IF snaps # {} THEN AliasAmong(snaps, LastDir(snaps))
        ELSE IF exact # {} THEN Exact(FirstDir(exact))
        ELSE IF loose # {} THEN AliasAmong(loose, PickHit(loose))
        ELSE resolve_alias_candidate(id, S)
  BY DEF resolve_desktop_id
<1> HIDE DEF snaps, exact, loose, parts
<1>8. CASE ~validate_desktop_id(id)
  BY <1>4, <1>7, <1>8
<1>9. CASE validate_desktop_id(id) /\ snaps # {}
  BY <1>1, <1>2, <1>3, <1>7, <1>9
<1>10. CASE validate_desktop_id(id) /\ snaps = {} /\ exact # {}
  BY <1>1, <1>2, <1>5, <1>7, <1>10
<1>11. CASE validate_desktop_id(id) /\ snaps = {} /\ exact = {} /\ loose # {}
  BY <1>1, <1>2, <1>3, <1>7, <1>11
<1>12. CASE validate_desktop_id(id) /\ snaps = {} /\ exact = {} /\ loose = {}
  BY <1>6, <1>7, <1>12
<1> QED BY <1>8, <1>9, <1>10, <1>11, <1>12

-----------------------------------------------------------------------------
(* The inductive invariant.                                                *)

\* A backup has the content, unless a file had two backups in one second.
Saved(content) == clashed \/ \E k \in DOMAIN backups : backups[k] = content

\* Whoever writes over this place or removes it loses nothing.
Safe(id) == id \in DOMAIN files /\ files[id] \in Own => Saved(files[id])

\* An entry of the mapping that names a backup is of a place that is safe.
StoreIsSafe(store) == \A k \in DOMAIN store : store[k].backup # NoKey => Safe(k[1])

Job(command, queue, source, target, backup, store, removed) ==
  [ command |-> command, queue |-> queue, source |-> source, target |-> target,
    backup |-> backup, store |-> store, removed |-> removed ]
IsJob(j) ==
  j = Job(j.command, j.queue, j.source, j.target, j.backup, j.store, j.removed)

Shapes ==
  /\ pc \in [Processes -> Writing \cup {"idle", "next"}]
  /\ job = [p \in Processes |-> job[p]] /\ \A p \in Processes : IsJob(job[p])
  /\ \A id \in DOMAIN files : IsSeq(id) /\ IsSeq(files[id].exec)
  /\ clock \in Nat
  /\ \A k \in DOMAIN backups : k[1] \in Nat /\ k[1] <= clock /\ IsSeq(backups[k].exec)

WrapperIdsAreSafe == \A id, class : IsSeq(id) => Safe(wrapper_desktop_id(id, class))

\* A command other than suggest is the only item of its queue.
Started(p) ==
  pc[p] # "idle" /\ ~IsSuggest(job[p].command) =>
    job[p].command \in Commands /\ job[p].queue = <<job[p].command>>

\* What a process has of a backup: the only one to fill it while it copies, if no
\* two backups were of one second.
BackupIsOwn(p) ==
  /\ pc[p] \in {"next", "idle", "undo", "restore"} => job[p].backup = NoKey
  /\ pc[p] = "copy" =>
       /\ job[p].backup \in DOMAIN backups
       /\ ~clashed =>
            /\ backups[job[p].backup] = Torn
            /\ \A q \in Processes \ {p} : pc[q] = "copy" => job[q].backup # job[p].backup

WrapsSafely(p) ==
  /\ pc[p] \in {"back_up", "copy", "cut", "fill", "load"} =>
       /\ Current(p).op = "wrap" /\ IsSeq(job[p].source.id) /\ IsSeq(job[p].source.exec)
       /\ job[p].target = WrapTarget(Current(p), job[p].source)
       /\ job[p].backup # NoKey => Current(p).override
  /\ pc[p] \in {"back_up", "copy"} => Current(p).override
  /\ pc[p] \in {"cut", "fill", "load"} => Safe(job[p].target)

UnwrapsSafely(p) ==
  /\ pc[p] \in {"undo", "restore"} =>
       /\ Current(p).op = "unwrap" /\ IsSeq(Current(p).id)
       /\ job[p].target = IF Current(p).override THEN Current(p).id
                          ELSE wrapper_desktop_id(Current(p).id, Current(p).class)
  /\ pc[p] = "restore" => BackupToRestore(p) # NoKey

WorksSafely(p) ==
  Started(p) /\ BackupIsOwn(p) /\ WrapsSafely(p) /\ UnwrapsSafely(p) /\ StoreIsSafe(job[p].store)

SafeInv ==
  /\ Shapes /\ WrapperIdsAreSafe /\ StoreIsSafe(mapping)
  /\ \A p \in Processes : WorksSafely(p)

-----------------------------------------------------------------------------
(* What a step does to the processes and to what is safe.                  *)

\* No content of the user that a backup has is lost, and no safe place stops
\* being safe.
Grows ==
  /\ DOMAIN backups \subseteq DOMAIN backups' /\ (clashed => clashed')
  /\ \A content \in Own : Saved(content) => Saved(content)'
  /\ \A id : Safe(id) => Safe(id)'

OthersStay(p) ==
  \A q \in Processes \ {p} :
    /\ pc'[q] = pc[q] /\ job'[q] = job[q]
    /\ pc[q] = "copy" /\ ~clashed' =>
         /\ backups'[job[q].backup] = Torn
         /\ pc'[p] = "copy" => job'[p].backup # job[q].backup

\* A step of p that keeps the invariant.
Advances(p) ==
  /\ Shapes' /\ Grows /\ OthersStay(p)
  /\ StoreIsSafe(mapping)' /\ WorksSafely(p)'

LEMMA AdvancesKeeps ==
  ASSUME SafeInv, NEW p \in Processes, Advances(p)
  PROVE  SafeInv'
<1>1. Shapes' /\ Grows /\ OthersStay(p) /\ StoreIsSafe(mapping)' /\ WorksSafely(p)'
  BY Zenon DEF Advances
<1>2. WrapperIdsAreSafe'
  BY <1>1 DEF SafeInv, WrapperIdsAreSafe, Grows
<1>3. ASSUME NEW q \in Processes \ {p} PROVE WorksSafely(q)'
  <2>1. /\ WorksSafely(q) /\ pc'[q] = pc[q] /\ job'[q] = job[q]
        /\ pc[q] = "copy" /\ ~clashed' =>
             /\ backups'[job[q].backup] = Torn
             /\ pc'[p] = "copy" => job'[p].backup # job[q].backup
    BY <1>1, <1>3 DEF OthersStay, SafeInv
  <2>2. Started(q)'
    BY <2>1 DEF WorksSafely, Started
  <2>3. BackupIsOwn(q)'
    <3>1. /\ BackupIsOwn(q) /\ DOMAIN backups \subseteq DOMAIN backups'
          /\ ~clashed' => ~clashed
      BY <1>1, <2>1 DEF WorksSafely, Grows
    <3>2. \A r \in Processes \ {p} : pc'[r] = pc[r] /\ job'[r] = job[r]
      BY <1>1 DEF OthersStay
    <3> QED BY <2>1, <3>1, <3>2 DEF BackupIsOwn
  <2>4. Current(q)' = Current(q)
    BY <2>1 DEF Current
  <2>5. WrapsSafely(q)'
    <3>1. \A source : WrapTarget(Current(q), source)' = WrapTarget(Current(q), source)
      BY <2>4 DEF WrapTarget
    <3>2. Safe(job[q].target) => Safe(job[q].target)'
      BY <1>1, <2>1 DEF Grows
    <3> HIDE DEF WrapTarget
    <3> QED BY <2>1, <2>4, <3>1, <3>2 DEF WorksSafely, WrapsSafely
  <2>6. UnwrapsSafely(q)'
    <3>1. Key2(q)' = Key2(q)
      BY <2>1, <2>4 DEF Key2
    <3>2. BackupToRestore(q) # NoKey => BackupToRestore(q)' # NoKey
      BY <1>1, <2>1, <2>4, <3>1 DEF BackupToRestore, Grows
    <3> QED BY <2>1, <2>4, <3>2 DEF WorksSafely, UnwrapsSafely
  <2>7. StoreIsSafe(job[q].store)'
    BY <1>1, <2>1 DEF WorksSafely, StoreIsSafe, Grows
  <2> QED BY <2>2, <2>3, <2>5, <2>6, <2>7 DEF WorksSafely
<1> QED BY <1>1, <1>2, <1>3 DEF SafeInv

-----------------------------------------------------------------------------
(* Updates of the record of a job.                                         *)

LEMMA JobIsJob ==
  ASSUME NEW command, NEW queue, NEW source, NEW target, NEW backup, NEW store, NEW removed
  PROVE  LET j == Job(command, queue, source, target, backup, store, removed) IN
         /\ IsJob(j) /\ j.command = command /\ j.queue = queue /\ j.source = source
         /\ j.target = target /\ j.backup = backup /\ j.store = store /\ j.removed = removed
  BY DEF IsJob, Job

LEMMA OneField ==
  ASSUME NEW j, IsJob(j), NEW v
  PROVE  /\ [j EXCEPT !.command = v] = Job(v, j.queue, j.source, j.target, j.backup, j.store, j.removed)
         /\ [j EXCEPT !.queue = v] = Job(j.command, v, j.source, j.target, j.backup, j.store, j.removed)
         /\ [j EXCEPT !.source = v] = Job(j.command, j.queue, v, j.target, j.backup, j.store, j.removed)
         /\ [j EXCEPT !.target = v] = Job(j.command, j.queue, j.source, v, j.backup, j.store, j.removed)
         /\ [j EXCEPT !.backup = v] = Job(j.command, j.queue, j.source, j.target, v, j.store, j.removed)
         /\ [j EXCEPT !.store = v] = Job(j.command, j.queue, j.source, j.target, j.backup, v, j.removed)
         /\ [j EXCEPT !.removed = v] = Job(j.command, j.queue, j.source, j.target, j.backup, j.store, v)
<1>1. [j EXCEPT !.command = v] = Job(v, j.queue, j.source, j.target, j.backup, j.store, j.removed)
  BY DEF IsJob, Job
<1>2. [j EXCEPT !.queue = v] = Job(j.command, v, j.source, j.target, j.backup, j.store, j.removed)
  BY DEF IsJob, Job
<1>3. [j EXCEPT !.source = v] = Job(j.command, j.queue, v, j.target, j.backup, j.store, j.removed)
  BY DEF IsJob, Job
<1>4. [j EXCEPT !.target = v] = Job(j.command, j.queue, j.source, v, j.backup, j.store, j.removed)
  BY DEF IsJob, Job
<1>5. [j EXCEPT !.backup = v] = Job(j.command, j.queue, j.source, j.target, v, j.store, j.removed)
  BY DEF IsJob, Job
<1>6. [j EXCEPT !.store = v] = Job(j.command, j.queue, j.source, j.target, j.backup, v, j.removed)
  BY DEF IsJob, Job
<1>7. [j EXCEPT !.removed = v] = Job(j.command, j.queue, j.source, j.target, j.backup, j.store, v)
  BY DEF IsJob, Job
<1> QED BY <1>1, <1>2, <1>3, <1>4, <1>5, <1>6, <1>7, Zenon

LEMMA CommandAndQueue ==
  ASSUME NEW j, IsJob(j), NEW v, NEW w
  PROVE  [j EXCEPT !.command = v, !.queue = w] = Job(v, w, j.source, j.target, j.backup, j.store, j.removed)
<1> DEFINE k == Job(v, j.queue, j.source, j.target, j.backup, j.store, j.removed)
<1>1. [j EXCEPT !.command = v, !.queue = w] = [k EXCEPT !.queue = w]
  <2>1. [j EXCEPT !.command = v] = k
    BY OneField, Zenon
  <2> HIDE DEF k
  <2> QED BY <2>1, Zenon
<1>2. [k EXCEPT !.queue = w] = Job(k.command, w, k.source, k.target, k.backup, k.store, k.removed)
  <2> HIDE DEF k
  <2>1. IsJob(k)
    BY JobIsJob DEF k
  <2> QED BY <2>1, OneField, Zenon
<1>3. /\ k.command = v /\ k.queue = j.queue /\ k.source = j.source /\ k.target = j.target
      /\ k.backup = j.backup /\ k.store = j.store /\ k.removed = j.removed
  BY DEF Job
<1> HIDE DEF k
<1> QED BY <1>1, <1>2, <1>3, Zenon

LEMMA SourceAndTarget ==
  ASSUME NEW j, IsJob(j), NEW v, NEW w
  PROVE  [j EXCEPT !.source = v, !.target = w] = Job(j.command, j.queue, v, w, j.backup, j.store, j.removed)
<1> DEFINE k == Job(j.command, j.queue, v, j.target, j.backup, j.store, j.removed)
<1>1. [j EXCEPT !.source = v, !.target = w] = [k EXCEPT !.target = w]
  <2>1. [j EXCEPT !.source = v] = k
    BY OneField, Zenon
  <2> HIDE DEF k
  <2> QED BY <2>1, Zenon
<1>2. [k EXCEPT !.target = w] = Job(k.command, k.queue, k.source, w, k.backup, k.store, k.removed)
  <2> HIDE DEF k
  <2>1. IsJob(k)
    BY JobIsJob DEF k
  <2> QED BY <2>1, OneField, Zenon
<1>3. /\ k.command = j.command /\ k.queue = j.queue /\ k.source = v /\ k.target = j.target
      /\ k.backup = j.backup /\ k.store = j.store /\ k.removed = j.removed
  BY DEF Job
<1> HIDE DEF k
<1> QED BY <1>1, <1>2, <1>3, Zenon

LEMMA TargetAndStore ==
  ASSUME NEW j, IsJob(j), NEW v, NEW w
  PROVE  [j EXCEPT !.target = v, !.store = w] = Job(j.command, j.queue, j.source, v, j.backup, w, j.removed)
<1> DEFINE k == Job(j.command, j.queue, j.source, v, j.backup, j.store, j.removed)
<1>1. [j EXCEPT !.target = v, !.store = w] = [k EXCEPT !.store = w]
  <2>1. [j EXCEPT !.target = v] = k
    BY OneField, Zenon
  <2> HIDE DEF k
  <2> QED BY <2>1, Zenon
<1>2. [k EXCEPT !.store = w] = Job(k.command, k.queue, k.source, k.target, k.backup, w, k.removed)
  <2> HIDE DEF k
  <2>1. IsJob(k)
    BY JobIsJob DEF k
  <2> QED BY <2>1, OneField, Zenon
<1>3. /\ k.command = j.command /\ k.queue = j.queue /\ k.source = j.source /\ k.target = v
      /\ k.backup = j.backup /\ k.store = j.store /\ k.removed = j.removed
  BY DEF Job
<1> HIDE DEF k
<1> QED BY <1>1, <1>2, <1>3, Zenon

LEMMA RemovedAndStore ==
  ASSUME NEW j, IsJob(j), NEW v, NEW w
  PROVE  [j EXCEPT !.removed = v, !.store = w] = Job(j.command, j.queue, j.source, j.target, j.backup, w, v)
<1> DEFINE k == Job(j.command, j.queue, j.source, j.target, j.backup, j.store, v)
<1>1. [j EXCEPT !.removed = v, !.store = w] = [k EXCEPT !.store = w]
  <2>1. [j EXCEPT !.removed = v] = k
    BY OneField, Zenon
  <2> HIDE DEF k
  <2> QED BY <2>1, Zenon
<1>2. [k EXCEPT !.store = w] = Job(k.command, k.queue, k.source, k.target, k.backup, w, k.removed)
  <2> HIDE DEF k
  <2>1. IsJob(k)
    BY JobIsJob DEF k
  <2> QED BY <2>1, OneField, Zenon
<1>3. /\ k.command = j.command /\ k.queue = j.queue /\ k.source = j.source /\ k.target = j.target
      /\ k.backup = j.backup /\ k.store = j.store /\ k.removed = v
  BY DEF Job
<1> HIDE DEF k
<1> QED BY <1>1, <1>2, <1>3, Zenon

LEMMA QueueAndBackup ==
  ASSUME NEW j, IsJob(j), NEW v, NEW w
  PROVE  [j EXCEPT !.queue = v, !.backup = w] = Job(j.command, v, j.source, j.target, w, j.store, j.removed)
<1> DEFINE k == Job(j.command, v, j.source, j.target, j.backup, j.store, j.removed)
<1>1. [j EXCEPT !.queue = v, !.backup = w] = [k EXCEPT !.backup = w]
  <2>1. [j EXCEPT !.queue = v] = k
    BY OneField, Zenon
  <2> HIDE DEF k
  <2> QED BY <2>1, Zenon
<1>2. [k EXCEPT !.backup = w] = Job(k.command, k.queue, k.source, k.target, w, k.store, k.removed)
  <2> HIDE DEF k
  <2>1. IsJob(k)
    BY JobIsJob DEF k
  <2> QED BY <2>1, OneField, Zenon
<1>3. /\ k.command = j.command /\ k.queue = v /\ k.source = j.source /\ k.target = j.target
      /\ k.backup = j.backup /\ k.store = j.store /\ k.removed = j.removed
  BY DEF Job
<1> HIDE DEF k
<1> QED BY <1>1, <1>2, <1>3, Zenon

LEMMA SetFacts ==
  ASSUME Shapes, NEW p \in Processes, NEW r, IsJob(r), Set(p, r)
  PROVE  /\ job'[p] = r /\ \A q \in Processes \ {p} : job'[q] = job[q]
         /\ job' = [q \in Processes |-> job'[q]] /\ \A q \in Processes : IsJob(job'[q])
<1>1. job'[p] = r /\ \A q \in Processes \ {p} : job'[q] = job[q]
  BY DEF Shapes, Set
<1>2. job' = [q \in Processes |-> job'[q]]
  BY DEF Shapes, Set
<1>3. \A q \in Processes : IsJob(job'[q])
  BY <1>1 DEF Shapes
<1> QED BY <1>1, <1>2, <1>3

LEMMA GotoFacts ==
  ASSUME Shapes, NEW p \in Processes, NEW label \in Writing \cup {"idle", "next"}, Goto(p, label)
  PROVE  /\ pc' \in [Processes -> Writing \cup {"idle", "next"}]
         /\ pc'[p] = label /\ \A q \in Processes \ {p} : pc'[q] = pc[q]
  BY DEF Shapes, Goto

\* The two ends of a command leave nothing of it but the store.
LEMMA EndsFacts ==
  ASSUME Shapes, NEW p \in Processes, NEW ok, Ends(p, ok)
  PROVE  /\ pc' \in [Processes -> Writing \cup {"idle", "next"}]
         /\ \A q \in Processes \ {p} : pc'[q] = pc[q] /\ job'[q] = job[q]
         /\ job' = [q \in Processes |-> job'[q]] /\ \A q \in Processes : IsJob(job'[q])
         /\ pc'[p] \in {"idle", "next"} /\ (pc'[p] = "next" => IsSuggest(job'[p].command))
         /\ job'[p].backup = NoKey /\ job'[p].store \in {job[p].store, <<>>}
         /\ pc'[p] = "next" => job'[p].command = job[p].command
<1>1. IsJob(job[p])
  BY DEF Shapes
<1>2. CASE IsSuggest(job[p].command)
  <2> DEFINE r == [job[p] EXCEPT !.queue = Tail(@), !.backup = NoKey]
  <2>1. IsJob(r) /\ r.backup = NoKey /\ r.store = job[p].store /\ r.command = job[p].command
    <3>1. r = Job(job[p].command, Tail(job[p].queue), job[p].source, job[p].target,
                  NoKey, job[p].store, job[p].removed)
      BY <1>1, QueueAndBackup, Zenon
    <3> HIDE DEF r
    <3> QED BY <3>1 DEF IsJob, Job
  <2>2. Goto(p, "next") /\ Set(p, r)
    BY <1>2, Zenon DEF Ends
  <2> HIDE DEF r
  <2>3. /\ job'[p] = r /\ \A q \in Processes \ {p} : job'[q] = job[q]
        /\ job' = [q \in Processes |-> job'[q]] /\ \A q \in Processes : IsJob(job'[q])
    BY <2>1, <2>2, SetFacts
  <2>4. /\ pc' \in [Processes -> Writing \cup {"idle", "next"}]
        /\ pc'[p] = "next" /\ \A q \in Processes \ {p} : pc'[q] = pc[q]
    BY <2>2, GotoFacts
  <2> QED BY <1>2, <2>1, <2>3, <2>4 DEF IsSuggest
<1>3. CASE ~IsSuggest(job[p].command)
  <2>1. IsJob(NoJob) /\ NoJob.backup = NoKey /\ NoJob.store = <<>>
    BY DEF IsJob, Job, NoJob
  <2>2. Goto(p, "idle") /\ Set(p, NoJob)
    BY <1>3, Zenon DEF Ends
  <2>3. /\ job'[p] = NoJob /\ \A q \in Processes \ {p} : job'[q] = job[q]
        /\ job' = [q \in Processes |-> job'[q]] /\ \A q \in Processes : IsJob(job'[q])
    BY <2>1, <2>2, SetFacts
  <2>4. /\ pc' \in [Processes -> Writing \cup {"idle", "next"}]
        /\ pc'[p] = "idle" /\ \A q \in Processes \ {p} : pc'[q] = pc[q]
    BY <2>2, GotoFacts
  <2> QED BY <2>1, <2>3, <2>4
<1> QED BY <1>2, <1>3

-----------------------------------------------------------------------------
(* Steps that leave the files and the backups alone.                       *)

LEMMA NothingMoves ==
  ASSUME SafeInv, UNCHANGED <<files, backups, clashed>>
  PROVE  /\ Grows
         /\ \A q \in Processes : pc[q] = "copy" /\ ~clashed => backups'[job[q].backup] = Torn
         /\ \A store : StoreIsSafe(store) => StoreIsSafe(store)'
<1>1. Grows
  BY DEF Grows, Saved, Safe
<1>2. \A q \in Processes : pc[q] = "copy" /\ ~clashed => backups'[job[q].backup] = Torn
  BY DEF SafeInv, WorksSafely, BackupIsOwn
<1>3. \A store : StoreIsSafe(store) => StoreIsSafe(store)'
  BY <1>1 DEF Grows, StoreIsSafe
<1> QED BY <1>1, <1>2, <1>3

\* A process that is between commands has nothing to answer for.
LEMMA RestingWorksSafely ==
  ASSUME NEW p \in Processes, pc'[p] \in {"idle", "next"}, Started(p)', job'[p].backup = NoKey,
         StoreIsSafe(job[p].store)'
  PROVE  WorksSafely(p)'
  BY DEF WorksSafely, BackupIsOwn, WrapsSafely, UnwrapsSafely

LEMMA EndsKeeps ==
  ASSUME SafeInv, NEW p \in Processes, NEW ok, Ends(p, ok), UNCHANGED <<files, backups, clock, clashed>>,
         mapping' \in {mapping, job[p].store}
  PROVE  Advances(p)
<1>1. Shapes
  BY DEF SafeInv
<1>2. /\ pc' \in [Processes -> Writing \cup {"idle", "next"}]
      /\ \A q \in Processes \ {p} : pc'[q] = pc[q] /\ job'[q] = job[q]
      /\ job' = [q \in Processes |-> job'[q]] /\ \A q \in Processes : IsJob(job'[q])
      /\ pc'[p] \in {"idle", "next"} /\ (pc'[p] = "next" => IsSuggest(job'[p].command))
      /\ job'[p].backup = NoKey /\ job'[p].store \in {job[p].store, <<>>}
  BY <1>1, EndsFacts
<1>3. /\ Grows
      /\ \A q \in Processes : pc[q] = "copy" /\ ~clashed => backups'[job[q].backup] = Torn
      /\ \A store : StoreIsSafe(store) => StoreIsSafe(store)'
  BY NothingMoves
<1>4. StoreIsSafe(mapping) /\ StoreIsSafe(job[p].store) /\ StoreIsSafe(<<>>)
  BY DEF SafeInv, WorksSafely, StoreIsSafe
<1>5. StoreIsSafe(mapping)' /\ StoreIsSafe(job[p].store)'
  BY <1>2, <1>3, <1>4 DEF StoreIsSafe
<1>6. Shapes'
  BY <1>1, <1>2 DEF Shapes
<1>7. OthersStay(p)
  BY <1>2, <1>3 DEF OthersStay
<1>8. Started(p)'
  BY <1>2 DEF Started
<1>9. WorksSafely(p)'
  BY <1>2, <1>5, <1>8, RestingWorksSafely
<1> QED BY <1>3, <1>5, <1>6, <1>7, <1>9 DEF Advances

\* A step inside of a command that changes only its own record.
LEMMA ThinksOn ==
  ASSUME SafeInv, NEW p \in Processes, UNCHANGED <<files, backups, clock, clashed, mapping>>,
         NEW label \in (Writing \cup {"idle", "next"}) \ {"copy"}, Goto(p, label),
         NEW r, IsJob(r), Set(p, r), WorksSafely(p)'
  PROVE  Advances(p)
<1>1. Shapes /\ StoreIsSafe(mapping)
  BY DEF SafeInv
<1>2. /\ job'[p] = r /\ \A q \in Processes \ {p} : job'[q] = job[q]
      /\ job' = [q \in Processes |-> job'[q]] /\ \A q \in Processes : IsJob(job'[q])
  BY <1>1, SetFacts
<1>3. /\ pc' \in [Processes -> Writing \cup {"idle", "next"}]
      /\ pc'[p] = label /\ \A q \in Processes \ {p} : pc'[q] = pc[q]
  BY <1>1, GotoFacts
<1>4. /\ Grows
      /\ \A q \in Processes : pc[q] = "copy" /\ ~clashed => backups'[job[q].backup] = Torn
      /\ \A store : StoreIsSafe(store) => StoreIsSafe(store)'
  BY NothingMoves
<1>5. Shapes'
  BY <1>1, <1>2, <1>3 DEF Shapes
<1>6. StoreIsSafe(mapping)'
  BY <1>1, <1>4 DEF StoreIsSafe
<1>7. OthersStay(p)
  BY <1>2, <1>3, <1>4 DEF OthersStay
<1> QED BY <1>4, <1>5, <1>6, <1>7 DEF Advances

LEMMA BeginKeeps ==
  ASSUME SafeInv, NEW p \in Processes, Begin(p)
  PROVE  Advances(p)
<1>1. PICK c \in Commands :
        Set(p, [NoJob EXCEPT
            !.command = c,
            !.queue = IF IsSuggest(c)
                      THEN LET plan == suggest(Scopes, Rules, Threshold, c.mode, Entries)
                           IN  [i \in DOMAIN plan |-> WrapOf(plan[i])]
                      ELSE <<c>>])
  BY Zenon DEF Begin
<1>2. Goto(p, "next") /\ UNCHANGED <<files, backups, clock, clashed, mapping>>
  BY DEF Begin, shared
<1> DEFINE queue == IF IsSuggest(c)
                    THEN LET plan == suggest(Scopes, Rules, Threshold, c.mode, Entries)
                         IN  [i \in DOMAIN plan |-> WrapOf(plan[i])]
                    ELSE <<c>>
           r == [NoJob EXCEPT !.command = c, !.queue = queue]
<1>3. ~IsSuggest(c) => queue = <<c>>
  OBVIOUS
<1>4. Set(p, r)
  BY <1>1, Zenon
<1> HIDE DEF queue
<1>5. IsJob(NoJob) /\ NoJob.backup = NoKey /\ NoJob.store = <<>>
  BY DEF IsJob, Job, NoJob
<1>6. r = Job(c, queue, NoJob.source, NoJob.target, NoJob.backup, NoJob.store, NoJob.removed)
  BY <1>5, CommandAndQueue, Zenon
<1> HIDE DEF r
<1>7. IsJob(r) /\ r.command = c /\ r.queue = queue /\ r.backup = NoKey /\ r.store = <<>>
  BY <1>5, <1>6 DEF IsJob, Job
<1>8. job'[p] = r /\ pc'[p] = "next"
  BY <1>2, <1>4, <1>7, SetFacts, GotoFacts DEF SafeInv
<1>9. WorksSafely(p)'
  <2>1. Started(p)'
    BY <1>3, <1>7, <1>8 DEF Started
  <2>2. StoreIsSafe(job[p].store)'
    BY <1>7, <1>8 DEF StoreIsSafe
  <2> QED BY <1>7, <1>8, <2>1, <2>2, RestingWorksSafely
<1> QED BY <1>2, <1>4, <1>7, <1>9, ThinksOn

LEMMA SuggestDoneKeeps ==
  ASSUME SafeInv, NEW p \in Processes, SuggestDone(p)
  PROVE  Advances(p)
<1>1. Goto(p, "idle") /\ Set(p, NoJob) /\ UNCHANGED <<files, backups, clock, clashed, mapping>>
  BY DEF SuggestDone, shared
<1>2. IsJob(NoJob) /\ NoJob.backup = NoKey /\ NoJob.store = <<>>
  BY DEF IsJob, Job, NoJob
<1>3. job'[p] = NoJob /\ pc'[p] = "idle"
  BY <1>1, <1>2, SetFacts, GotoFacts DEF SafeInv
<1>4. Started(p)' /\ StoreIsSafe(job[p].store)'
  BY <1>2, <1>3 DEF Started, StoreIsSafe
<1>5. WorksSafely(p)'
  BY <1>2, <1>3, <1>4, RestingWorksSafely
<1> QED BY <1>1, <1>2, <1>5, ThinksOn

-----------------------------------------------------------------------------
(* Wraps.                                                                  *)

LEMMA DirsAreBounded ==
  \E bound \in Nat : \A e \in SystemEntries : e.dir <= bound
<1>1. PICK n \in Nat : ExistsBijection(1..n, SystemEntries)
  BY DesktopAssumption, FS_NatBijection
<1>2. PICK f : f \in Surjection(1..n, SystemEntries)
  BY <1>1 DEF ExistsBijection, Bijection
<1>3. /\ \A i \in 1..n : f[i].dir \in Nat
      /\ \A e \in SystemEntries : \E i \in 1..n : f[i] = e
  <2>1. /\ \A i \in 1..n : f[i] \in SystemEntries
        /\ \A e \in SystemEntries : \E i \in 1..n : f[i] = e
    BY <1>2 DEF Surjection
  <2>2. \A e \in SystemEntries : e.dir \in Nat
    BY DesktopAssumption
  <2> QED BY <2>1, <2>2
<1> DEFINE T == {k \in 0..n : ~ \E bound \in Nat : \A i \in 1..k : f[i].dir <= bound}
<1>4. T = {}
  <2> SUFFICES ASSUME T # {} PROVE FALSE
    OBVIOUS
  <2>1. T \subseteq Nat
    OBVIOUS
  <2> HIDE DEF T
  <2>2. PICK k \in T : \A l \in T : k <= l
    BY <2>1, NatSmallest
  <2>3. k \in 0..n /\ ~ \E bound \in Nat : \A i \in 1..k : f[i].dir <= bound
    BY <2>2 DEF T
  <2>4. k # 0
    BY <2>3
  <2>5. k - 1 \in 0..n /\ k - 1 \notin T
    BY <2>2, <2>3, <2>4
  <2>6. PICK bound \in Nat : \A i \in 1..(k - 1) : f[i].dir <= bound
    BY <2>5 DEF T
  <2>7. f[k].dir \in Nat
    BY <1>3, <2>3, <2>4
  <2>8. CASE f[k].dir <= bound
    <3>1. \A i \in 1..k : f[i].dir <= bound
      BY <2>3, <2>6, <2>8
    <3> QED BY <2>3, <3>1
  <2>9. CASE bound <= f[k].dir
    <3>1. \A i \in 1..k : f[i].dir \in Nat
      BY <1>3, <2>3
    <3>2. ASSUME NEW i \in 1..k PROVE f[i].dir <= f[k].dir
      <4>1. CASE i = k
        BY <2>7, <4>1
      <4>2. CASE i # k
        <5>1. i \in 1..(k - 1) /\ f[i].dir \in Nat
          BY <2>3, <3>1, <4>2
        <5>2. f[i].dir <= bound
          BY <2>6, <5>1
        <5> QED BY <2>7, <2>9, <5>1, <5>2
      <4> QED BY <4>1, <4>2
    <3> QED BY <2>3, <2>7, <3>2
  <2> QED BY <2>7, <2>8, <2>9
<1>5. \E bound \in Nat : \A i \in 1..n : f[i].dir <= bound
  BY <1>4
<1> QED BY <1>3, <1>5

LEMMA EntriesAreEntries ==
  ASSUME Shapes
  PROVE  /\ \E bound : AreEntries(Entries, bound)
         /\ \A e \in Entries : IsSeq(e.id) /\ IsSeq(e.exec)
<1>1. PICK bound \in Nat : \A e \in SystemEntries : e.dir <= bound
  BY DirsAreBounded
<1>2. ASSUME NEW e \in SystemEntries
      PROVE  e.dir \in Nat /\ e.dir <= bound /\ IsSeq(e.id) /\ IsSeq(e.exec)
  <2>1. e \in [id : Text \ {None}, dir : Nat \ {UserDir}, name : Text, exec : Exec]
    BY DesktopAssumption
  <2>2. e.dir \in Nat /\ e.id \in Text /\ e.exec \in Exec
    BY <2>1
  <2> QED BY <1>1, <2>2, SeqIsSeq DEF Exec, Text
<1>3. ASSUME NEW e \in Entries \ SystemEntries
      PROVE  e.dir \in Nat /\ e.dir <= bound /\ IsSeq(e.id) /\ IsSeq(e.exec)
  <2>1. PICK id \in DOMAIN files : e = DesktopEntry(id, UserDir, files[id].name, files[id].exec)
    BY DEF Entries
  <2>2. e.dir = 0 /\ e.id = id /\ e.exec = files[id].exec
    BY <2>1 DEF DesktopEntry, UserDir
  <2> QED BY <1>1, <2>2 DEF Shapes
<1>4. \A e \in Entries : e.dir \in Nat /\ e.dir <= bound /\ IsSeq(e.id) /\ IsSeq(e.exec)
  BY <1>2, <1>3
<1> QED BY <1>4 DEF AreEntries

LEMMA WrapTakesKeeps ==
  ASSUME SafeInv, NEW p \in Processes, UNCHANGED <<files, backups, clock, clashed, mapping>>,
         pc[p] = "next", Current(p).op = "wrap", NEW entry \in Entries,
         NEW target, target = WrapTarget(Current(p), entry), WrapTakes(p, entry, target)
  PROVE  Advances(p)
<1>1. PICK c : c = Current(p)
  OBVIOUS
<1>2. PICK label : label = IF c.override /\ target \in DOMAIN files THEN "back_up" ELSE "cut"
  OBVIOUS
<1>3. PICK r : r = [job[p] EXCEPT !.source = entry, !.target = target]
  OBVIOUS
<1>4. Goto(p, label) /\ Set(p, r)
  BY <1>1, <1>2, <1>3, Zenon DEF WrapTakes
<1>5. Shapes /\ WorksSafely(p) /\ IsJob(job[p])
  BY DEF SafeInv, Shapes
<1>6. IsSeq(entry.id) /\ IsSeq(entry.exec)
  BY <1>5, EntriesAreEntries
<1>7. r = Job(job[p].command, job[p].queue, entry, target, job[p].backup, job[p].store,
              job[p].removed)
  BY <1>3, <1>5, SourceAndTarget, Zenon
<1>8. IsJob(r) /\ r.command = job[p].command /\ r.queue = job[p].queue /\ r.source = entry
      /\ r.target = target /\ r.backup = job[p].backup /\ r.store = job[p].store
  BY <1>7 DEF IsJob, Job
<1>9. /\ label \in {"back_up", "cut"} /\ (label = "back_up" => c.override)
      /\ label = "cut" => Safe(target)
  <2>1. target \notin DOMAIN files => Safe(target)
    BY DEF Safe
  <2>2. ~c.override => Safe(target)
    <3>1. ~c.override => target = wrapper_desktop_id(entry.id, c.class)
      BY <1>1 DEF WrapTarget
    <3> QED BY <1>6, <3>1 DEF SafeInv, WrapperIdsAreSafe
  <2> QED BY <1>2, <2>1, <2>2
<1>10. label \in Writing
  BY <1>9 DEF Writing
<1>11. job'[p] = r /\ pc'[p] = label
  BY <1>4, <1>5, <1>8, <1>10, SetFacts, GotoFacts
<1>12. Current(p)' = c
  BY <1>1, <1>8, <1>11 DEF Current
<1>13. target = WrapTarget(Current(p), entry)'
  BY <1>1, <1>12 DEF WrapTarget
<1>14. Safe(target) => Safe(target)'
  BY DEF Safe, Saved
<1>15. job[p].backup = NoKey
  BY <1>5 DEF WorksSafely, BackupIsOwn
<1>16. Started(p)'
  BY <1>5, <1>8, <1>11 DEF WorksSafely, Started
<1>17. WrapsSafely(p)'
  <2>1. WrapTarget(Current(p), job[p].source)' = target
    BY <1>8, <1>11, <1>13 DEF WrapTarget
  <2>2. pc'[p] \in {"back_up", "cut"} /\ (pc'[p] = "back_up" => Current(p)'.override)
        /\ (pc'[p] = "cut" => Safe(target)')
    BY <1>9, <1>11, <1>12, <1>14
  <2>3. Current(p)'.op = "wrap" /\ IsSeq(job'[p].source.id) /\ IsSeq(job'[p].source.exec)
        /\ job'[p].target = target /\ job'[p].backup = NoKey
    BY <1>1, <1>6, <1>8, <1>11, <1>12, <1>15
  <2> QED BY <2>1, <2>2, <2>3 DEF WrapsSafely
<1>18. StoreIsSafe(job[p].store)'
  BY <1>5, <1>8, <1>11 DEF WorksSafely, StoreIsSafe, Safe, Saved
<1>19. WorksSafely(p)'
  BY <1>9, <1>11, <1>16, <1>17, <1>18 DEF WorksSafely, BackupIsOwn, UnwrapsSafely
<1> QED BY <1>4, <1>8, <1>9, <1>10, <1>19, ThinksOn

LEMMA ResolveWrapKeeps ==
  ASSUME SafeInv, NEW p \in Processes, ResolveWrap(p)
  PROVE  Advances(p)
<1> DEFINE c == Current(p)
           found == resolve_desktop_id(c.id, Entries)
           target == WrapTarget(c, found.entry)
<1>1. pc[p] = "next" /\ c.op = "wrap" /\ UNCHANGED <<files, backups, clock, clashed, mapping>>
  BY Zenon DEF ResolveWrap, shared
<1>2. Ends(p, FALSE) => Advances(p)
  BY <1>1, EndsKeeps
<1>3. Ends(p, TRUE) => Advances(p)
  BY <1>1, EndsKeeps
<1>4. WrapTakes(p, found.entry, target) /\ IsFound(found) => Advances(p)
  <2>1. IsFound(found) => found.entry \in Entries
    <3>1. Shapes
      BY DEF SafeInv
    <3> HIDE DEF c
    <3> QED BY <3>1, EntriesAreEntries, FoundIsEntry
  <2> HIDE DEF found
  <2> QED BY <1>1, <2>1, WrapTakesKeeps
<1>5. Ends(p, FALSE) \/ Ends(p, TRUE) \/ (WrapTakes(p, found.entry, target) /\ IsFound(found))
  BY Zenon DEF ResolveWrap
<1> QED BY <1>2, <1>3, <1>4, <1>5, Zenon

\* The place a wrap writes to is named by a sequence, and no torn file is of
\* the user.
LEMMA TargetIsSeq ==
  ASSUME SafeInv, NEW p \in Processes,
         pc[p] \in {"back_up", "copy", "cut", "fill", "load", "undo", "restore"}
  PROVE  IsSeq(job[p].target)
<1>1. CASE pc[p] \in {"undo", "restore"}
  <2>1. IsSeq(Current(p).id) /\ job[p].target \in
          {Current(p).id, wrapper_desktop_id(Current(p).id, Current(p).class)}
    BY <1>1 DEF SafeInv, WorksSafely, UnwrapsSafely
  <2> HIDE DEF wrapper_desktop_id
  <2> QED BY <2>1, WrapperId
<1>2. CASE pc[p] \notin {"undo", "restore"}
  <2>1. IsSeq(job[p].source.id) /\ job[p].target = WrapTarget(Current(p), job[p].source)
    BY <1>2 DEF SafeInv, WorksSafely, WrapsSafely
  <2>2. job[p].target \in {job[p].source.id, wrapper_desktop_id(job[p].source.id, Current(p).class)}
    BY <2>1 DEF WrapTarget
  <2> HIDE DEF wrapper_desktop_id
  <2> QED BY <2>1, <2>2, WrapperId
<1> QED BY <1>1, <1>2

\* A step inside of a command that writes the place it is about, with a content
\* that is not the user's or that a backup has.
LEMMA WritesOn ==
  ASSUME SafeInv, NEW p \in Processes, UNCHANGED <<backups, clock, clashed, mapping>>,
         NEW label \in Writing \ {"copy"}, Goto(p, label),
         NEW r, IsJob(r), Set(p, r),
         NEW target, IsSeq(target), NEW content, IsSeq(content.exec),
         content \in Own => Saved(content),
         files' \in {Put(files, target, content), Filled(target, content), Without(files, target)},
         Grows => WorksSafely(p)'
  PROVE  Advances(p)
<1>1. Shapes /\ StoreIsSafe(mapping)
  BY DEF SafeInv
<1>2. /\ job'[p] = r /\ \A q \in Processes \ {p} : job'[q] = job[q]
      /\ job' = [q \in Processes |-> job'[q]] /\ \A q \in Processes : IsJob(job'[q])
  BY <1>1, SetFacts
<1>3. /\ pc' \in [Processes -> Writing \cup {"idle", "next"}]
      /\ pc'[p] = label /\ \A q \in Processes \ {p} : pc'[q] = pc[q]
  BY <1>1, GotoFacts
<1>4. \A id \in DOMAIN files' :
        \/ id \in DOMAIN files /\ files'[id] = files[id]
        \/ id = target /\ files'[id] = content
  BY DEF Put, Filled, Without
<1>5. Grows
  BY <1>4 DEF Grows, Saved, Safe
<1>6. Shapes'
  <2>1. \A id \in DOMAIN files' : IsSeq(id) /\ IsSeq(files'[id].exec)
    BY <1>1, <1>4 DEF Shapes
  <2> QED BY <1>1, <1>2, <1>3, <2>1 DEF Shapes
<1>7. StoreIsSafe(mapping)'
  BY <1>1, <1>5 DEF StoreIsSafe, Grows
<1>8. OthersStay(p)
  BY <1>2, <1>3 DEF OthersStay, SafeInv, WorksSafely, BackupIsOwn
<1> QED BY <1>5, <1>6, <1>7, <1>8 DEF Advances

\* A step that changes neither the record of a job nor what the step is about.
LEMMA SameJob ==
  ASSUME Shapes, UNCHANGED job, NEW p \in Processes
  PROVE  IsJob(job[p]) /\ Set(p, job[p])
  BY DEF Shapes, Set

LEMMA EmptyIsSeq == IsSeq(<<>>)
  BY SeqIsSeq DEF IsSeq

LEMMA WritingLabels ==
  /\ \A label \in {"back_up", "cut", "fill", "load", "undo", "restore", "cut_mapping", "fill_mapping"} :
       label \in Writing \ {"copy"}
  BY DEF Writing

LEMMA CutKeeps ==
  ASSUME PlainFiles, SafeInv, NEW p \in Processes, Cut(p)
  PROVE  Advances(p)
<1>1. /\ pc[p] = "cut" /\ files' = Put(files, job[p].target, Torn) /\ Goto(p, "fill")
      /\ UNCHANGED <<backups, mapping, clock, clashed, job>>
  BY DEF Cut
<1>2. Shapes /\ WorksSafely(p)
  BY DEF SafeInv
<1>3. IsJob(job[p]) /\ Set(p, job[p])
  BY <1>1, <1>2, SameJob
<1>4. IsSeq(job[p].target) /\ IsSeq(Torn.exec) /\ Torn \notin Own
  BY <1>1, TargetIsSeq, EmptyIsSeq, TornIsNotOwn DEF Torn, Content
<1>5. pc'[p] = "fill"
  BY <1>1, <1>2, WritingLabels, GotoFacts
<1>6. Grows => WorksSafely(p)'
  <2> SUFFICES ASSUME Grows PROVE WorksSafely(p)'
    OBVIOUS
  <2>1. Current(p)' = Current(p)
    BY <1>1 DEF Current
  <2>2. WrapTarget(Current(p), job[p].source)' = WrapTarget(Current(p), job[p].source)
    BY <1>1, <2>1 DEF WrapTarget
  <2>3. Started(p)' /\ BackupIsOwn(p)' /\ UnwrapsSafely(p)'
    BY <1>1, <1>2, <1>5 DEF WorksSafely, Started, BackupIsOwn, UnwrapsSafely
  <2>4. StoreIsSafe(job[p].store)'
    BY <1>1, <1>2 DEF WorksSafely, StoreIsSafe, Grows
  <2>5. Safe(job[p].target)'
    BY <1>1, <1>2 DEF WorksSafely, WrapsSafely, Grows
  <2>6. WrapsSafely(p)'
    <3> HIDE DEF WrapTarget
    <3> QED BY <1>1, <1>2, <1>5, <2>1, <2>2, <2>5 DEF WorksSafely, WrapsSafely
  <2> QED BY <2>3, <2>4, <2>6 DEF WorksSafely
<1> QED BY <1>1, <1>3, <1>4, <1>6, WritingLabels, WritesOn

LEMMA FillKeeps ==
  ASSUME PlainFiles, SafeInv, NEW p \in Processes, Fill(p)
  PROVE  Advances(p)
<1> DEFINE content == render_wrapper(job[p].source, Current(p).class)
<1>1. /\ pc[p] = "fill" /\ files' = Filled(job[p].target, content) /\ Goto(p, "load")
      /\ UNCHANGED <<backups, mapping, clock, clashed, job>>
  BY DEF Fill
<1>2. Shapes /\ WorksSafely(p)
  BY DEF SafeInv
<1>3. IsJob(job[p]) /\ Set(p, job[p])
  BY <1>1, <1>2, SameJob
<1>4. IsSeq(job[p].target) /\ IsSeq(content.exec) /\ content \notin Own
  <2>1. IsSeq(job[p].source.exec)
    BY <1>1, <1>2 DEF WorksSafely, WrapsSafely
  <2> QED BY <1>1, <2>1, TargetIsSeq, WrapperIsNotOwn, WrapperExecIsSeq
<1>5. pc'[p] = "load"
  BY <1>1, <1>2, WritingLabels, GotoFacts
<1>6. Grows => WorksSafely(p)'
  <2> SUFFICES ASSUME Grows PROVE WorksSafely(p)'
    OBVIOUS
  <2>1. Current(p)' = Current(p)
    BY <1>1 DEF Current
  <2>2. WrapTarget(Current(p), job[p].source)' = WrapTarget(Current(p), job[p].source)
    BY <1>1, <2>1 DEF WrapTarget
  <2>3. Started(p)' /\ BackupIsOwn(p)' /\ UnwrapsSafely(p)'
    BY <1>1, <1>2, <1>5 DEF WorksSafely, Started, BackupIsOwn, UnwrapsSafely
  <2>4. StoreIsSafe(job[p].store)'
    BY <1>1, <1>2 DEF WorksSafely, StoreIsSafe, Grows
  <2>5. Safe(job[p].target)'
    BY <1>1, <1>2 DEF WorksSafely, WrapsSafely, Grows
  <2>6. WrapsSafely(p)'
    <3> HIDE DEF WrapTarget
    <3> QED BY <1>1, <1>2, <1>5, <2>1, <2>2, <2>5 DEF WorksSafely, WrapsSafely
  <2> QED BY <2>3, <2>4, <2>6 DEF WorksSafely
<1> HIDE DEF content
<1> QED BY <1>1, <1>3, <1>4, <1>6, WritingLabels, WritesOn

\* A backup is in a second of its own, or two have clashed.
LEMMA BackUpKeeps ==
  ASSUME PlainFiles, SafeInv, NEW p \in Processes, BackUp(p)
  PROVE  Advances(p)
<1>1. PICK key : key = <<clock', job[p].target>>
  OBVIOUS
<1>2. PICK r : r = [job[p] EXCEPT !.backup = key]
  OBVIOUS
<1>3. /\ pc[p] = "back_up" /\ clock' \in {clock, clock + 1} /\ Goto(p, "copy") /\ Set(p, r)
      /\ clashed' = (clashed \/ key \in DOMAIN backups)
      /\ backups' = Put(backups, key, Torn) /\ UNCHANGED <<files, mapping>>
  BY <1>1, <1>2, Zenon DEF BackUp
<1>4. Shapes /\ WorksSafely(p) /\ StoreIsSafe(mapping) /\ IsJob(job[p])
  BY DEF SafeInv, Shapes
<1>5. r = Job(job[p].command, job[p].queue, job[p].source, job[p].target, key, job[p].store,
              job[p].removed)
  BY <1>2, <1>4, OneField, Zenon
<1>6. IsJob(r) /\ r.command = job[p].command /\ r.queue = job[p].queue /\ r.backup = key
      /\ r.source = job[p].source /\ r.target = job[p].target /\ r.store = job[p].store
  BY <1>5 DEF IsJob, Job
<1>7. /\ job'[p] = r /\ \A q \in Processes \ {p} : job'[q] = job[q]
      /\ job' = [q \in Processes |-> job'[q]] /\ \A q \in Processes : IsJob(job'[q])
  BY <1>3, <1>4, <1>6, SetFacts
<1>8. /\ pc' \in [Processes -> Writing \cup {"idle", "next"}]
      /\ pc'[p] = "copy" /\ \A q \in Processes \ {p} : pc'[q] = pc[q]
  <2>1. "copy" \in Writing
    BY DEF Writing
  <2> QED BY <1>3, <1>4, <2>1, GotoFacts
<1>9. key[1] = clock' /\ clock \in Nat /\ clock' \in Nat /\ clock <= clock'
  BY <1>1, <1>3, <1>4 DEF Shapes
<1>10. /\ DOMAIN backups' = DOMAIN backups \cup {key} /\ backups'[key] = Torn
       /\ \A k \in DOMAIN backups \ {key} : backups'[k] = backups[k]
       /\ ~clashed' => ~clashed /\ key \notin DOMAIN backups
  BY <1>3 DEF Put
<1>11. Grows
  BY <1>3, <1>10 DEF Grows, Saved, Safe
<1>12. Shapes'
  <2>1. \A k \in DOMAIN backups' : k[1] \in Nat /\ k[1] <= clock' /\ IsSeq(backups'[k].exec)
    <3>1. IsSeq(Torn.exec)
      BY EmptyIsSeq DEF Torn, Content
    <3>2. \A k \in DOMAIN backups : k[1] \in Nat /\ k[1] <= clock /\ IsSeq(backups[k].exec)
      BY <1>4 DEF Shapes
    <3> QED BY <1>9, <1>10, <3>1, <3>2
  <2>2. \A id \in DOMAIN files' : IsSeq(id) /\ IsSeq(files'[id].exec)
    BY <1>3, <1>4 DEF Shapes
  <2> QED BY <1>7, <1>8, <1>9, <2>1, <2>2 DEF Shapes
<1>13. OthersStay(p)
  <2>1. \A q \in Processes \ {p} : pc[q] = "copy" =>
          /\ job[q].backup \in DOMAIN backups
          /\ ~clashed => backups[job[q].backup] = Torn
    BY DEF SafeInv, WorksSafely, BackupIsOwn
  <2> QED BY <1>6, <1>7, <1>8, <1>10, <2>1 DEF OthersStay
<1>14. StoreIsSafe(mapping)'
  BY <1>3, <1>4, <1>11 DEF StoreIsSafe, Grows
<1>15. WorksSafely(p)'
  <2>1. Current(p)' = Current(p)
    BY <1>6, <1>7 DEF Current
  <2>2. WrapTarget(Current(p), job[p].source)' = WrapTarget(Current(p), job[p].source)
    BY <1>6, <1>7, <2>1 DEF WrapTarget
  <2>3. Started(p)' /\ UnwrapsSafely(p)'
    BY <1>3, <1>4, <1>6, <1>7, <1>8 DEF WorksSafely, Started, UnwrapsSafely
  <2>4. BackupIsOwn(p)'
    <3>1. \A q \in Processes \ {p} : pc'[q] = "copy" /\ ~clashed' => job'[q].backup # key
      BY <1>7, <1>8, <1>10 DEF SafeInv, WorksSafely, BackupIsOwn
    <3> QED BY <1>6, <1>7, <1>8, <1>10, <3>1 DEF BackupIsOwn
  <2>5. StoreIsSafe(job[p].store)'
    BY <1>4, <1>6, <1>7, <1>11 DEF WorksSafely, StoreIsSafe, Grows
  <2>6. WrapsSafely(p)'
    <3> HIDE DEF WrapTarget
    <3> QED BY <1>3, <1>4, <1>6, <1>7, <1>8, <2>1, <2>2 DEF WorksSafely, WrapsSafely
  <2> QED BY <2>3, <2>4, <2>5, <2>6 DEF WorksSafely
<1> QED BY <1>11, <1>12, <1>13, <1>14, <1>15 DEF Advances

\* Nobody else fills this backup, and the one it replaces is torn, if no two
\* backups were of one second.
LEMMA CopyKeeps ==
  ASSUME PlainFiles, SafeInv, NEW p \in Processes, Copy(p)
  PROVE  Advances(p)
<1>1. /\ pc[p] = "copy" /\ UNCHANGED <<files, mapping, clock, clashed, job>>
      /\ job[p].target \in DOMAIN files /\ Goto(p, "cut")
      /\ backups' = [backups EXCEPT ![job[p].backup] = files[job[p].target]]
  BY DEF Copy
<1>2. Shapes /\ WorksSafely(p) /\ StoreIsSafe(mapping)
  BY DEF SafeInv
<1>3. /\ pc' \in [Processes -> Writing \cup {"idle", "next"}]
      /\ pc'[p] = "cut" /\ \A q \in Processes \ {p} : pc'[q] = pc[q]
  BY <1>1, <1>2, WritingLabels, GotoFacts
<1>4. PICK key : key = job[p].backup
  OBVIOUS
<1>5. key \in DOMAIN backups /\ (~clashed => backups[key] = Torn) /\ Torn \notin Own
  BY <1>1, <1>2, <1>4, TornIsNotOwn DEF WorksSafely, BackupIsOwn
<1>6. /\ DOMAIN backups' = DOMAIN backups /\ backups'[key] = files[job[p].target]
      /\ \A k \in DOMAIN backups \ {key} : backups'[k] = backups[k]
  BY <1>1, <1>4, <1>5
<1>7. Grows
  BY <1>1, <1>5, <1>6 DEF Grows, Saved, Safe
<1>8. Shapes'
  <2>1. \A k \in DOMAIN backups' : k[1] \in Nat /\ k[1] <= clock' /\ IsSeq(backups'[k].exec)
    BY <1>1, <1>2, <1>6 DEF Shapes
  <2> QED BY <1>1, <1>2, <1>3, <2>1 DEF Shapes
<1>9. OthersStay(p)
  <2>1. \A q \in Processes \ {p} : pc[q] = "copy" /\ ~clashed =>
          /\ job[q].backup \in DOMAIN backups /\ backups[job[q].backup] = Torn
          /\ job[q].backup # key
    BY <1>1, <1>4 DEF SafeInv, WorksSafely, BackupIsOwn
  <2> QED BY <1>1, <1>3, <1>6, <2>1 DEF OthersStay
<1>10. StoreIsSafe(mapping)'
  BY <1>1, <1>2, <1>7 DEF StoreIsSafe, Grows
<1>11. WorksSafely(p)'
  <2>1. Current(p)' = Current(p)
    BY <1>1 DEF Current
  <2>2. WrapTarget(Current(p), job[p].source)' = WrapTarget(Current(p), job[p].source)
    BY <1>1, <2>1 DEF WrapTarget
  <2>3. Started(p)' /\ BackupIsOwn(p)' /\ UnwrapsSafely(p)'
    BY <1>1, <1>2, <1>3 DEF WorksSafely, Started, BackupIsOwn, UnwrapsSafely
  <2>4. StoreIsSafe(job[p].store)'
    BY <1>1, <1>2, <1>7 DEF WorksSafely, StoreIsSafe, Grows
  <2>5. Safe(job[p].target)'
    BY <1>1, <1>5, <1>6 DEF Safe, Saved
  <2>6. WrapsSafely(p)'
    <3> HIDE DEF WrapTarget
    <3> QED BY <1>1, <1>2, <1>3, <2>1, <2>2, <2>5 DEF WorksSafely, WrapsSafely
  <2> QED BY <2>3, <2>4, <2>6 DEF WorksSafely
<1> QED BY <1>7, <1>8, <1>9, <1>10, <1>11 DEF Advances

LEMMA NothingToCopyKeeps ==
  ASSUME SafeInv, NEW p \in Processes, NothingToCopy(p)
  PROVE  Advances(p)
<1>1. Ends(p, FALSE) /\ UNCHANGED <<files, backups, clock, clashed, mapping>>
  BY Zenon DEF NothingToCopy, shared
<1> QED BY <1>1, EndsKeeps

\* Only an override has a backup, and then the place written is the id itself.
LEMMA LoadForWrapKeeps ==
  ASSUME PlainFiles, SafeInv, NEW p \in Processes, LoadForWrap(p)
  PROVE  Advances(p)
<1>1. pc[p] = "load" /\ UNCHANGED <<files, backups, clock, clashed, mapping>>
  BY Zenon DEF LoadForWrap, shared
<1>2. CASE Ends(p, FALSE)
  BY <1>1, <1>2, EndsKeeps
<1>3. CASE /\ Set(p, [job[p] EXCEPT !.store = Put(mapping, Key2(p),
                MappingEntry(job[p].target, Current(p).override, job[p].backup))])
           /\ Goto(p, "cut_mapping")
  <2>1. PICK key, entry : key = Key2(p) /\
          entry = MappingEntry(job[p].target, Current(p).override, job[p].backup)
    OBVIOUS
  <2>2. PICK r : r = [job[p] EXCEPT !.store = Put(mapping, key, entry)]
    OBVIOUS
  <2>3. Set(p, r)
    BY <1>3, <2>1, <2>2, Zenon
  <2>4. Shapes /\ WorksSafely(p) /\ StoreIsSafe(mapping) /\ IsJob(job[p])
    BY DEF SafeInv, Shapes
  <2>5. r = Job(job[p].command, job[p].queue, job[p].source, job[p].target, job[p].backup,
                Put(mapping, key, entry), job[p].removed)
    BY <2>2, <2>4, OneField, Zenon
  <2>6. IsJob(r) /\ r.command = job[p].command /\ r.queue = job[p].queue
        /\ r.store = Put(mapping, key, entry)
    BY <2>5 DEF IsJob, Job
  <2>7. job'[p] = r /\ pc'[p] = "cut_mapping"
    BY <1>3, <2>3, <2>4, <2>6, WritingLabels, SetFacts, GotoFacts
  <2>8. entry.backup # NoKey => Safe(key[1])
    <3>1. entry.backup = job[p].backup
      BY <2>1 DEF MappingEntry
    <3>2. /\ Current(p).op = "wrap" /\ job[p].target = WrapTarget(Current(p), job[p].source)
          /\ job[p].backup # NoKey => Current(p).override
          /\ Safe(job[p].target)
      BY <1>1, <2>4 DEF WorksSafely, WrapsSafely
    <3>3. key[1] = job[p].source.id
      BY <2>1, <3>2 DEF Key2
    <3> QED BY <3>1, <3>2, <3>3 DEF WrapTarget
  <2>9. StoreIsSafe(Put(mapping, key, entry))
    BY <2>4, <2>8 DEF StoreIsSafe, Put
  <2>10. StoreIsSafe(Put(mapping, key, entry))'
    BY <1>1, <2>9 DEF StoreIsSafe, Safe, Saved, Put
  <2>11. StoreIsSafe(job[p].store)'
    <3>1. job'[p].store = Put(mapping', key, entry)
      BY <1>1, <2>6, <2>7
    <3> QED BY <2>10, <3>1 DEF StoreIsSafe
  <2>12. Started(p)'
    BY <1>1, <2>4, <2>6, <2>7 DEF WorksSafely, Started
  <2>13. WorksSafely(p)'
    BY <2>7, <2>11, <2>12 DEF WorksSafely, BackupIsOwn, WrapsSafely, UnwrapsSafely
  <2> QED BY <1>1, <1>3, <2>3, <2>6, <2>13, WritingLabels, ThinksOn
<1> QED BY <1>2, <1>3, Zenon DEF LoadForWrap

-----------------------------------------------------------------------------
(* Unwraps, and the mapping.                                               *)

LEMMA LoadForUnwrapKeeps ==
  ASSUME SafeInv, NEW p \in Processes, LoadForUnwrap(p)
  PROVE  Advances(p)
<1>1. /\ pc[p] = "next" /\ job[p].command.op = "unwrap"
      /\ UNCHANGED <<files, backups, clock, clashed, mapping>>
  BY Zenon DEF LoadForUnwrap, shared
<1>2. CASE Ends(p, FALSE)
  BY <1>1, <1>2, EndsKeeps
<1>3. CASE /\ Set(p, [job[p] EXCEPT
                !.target = IF Current(p).override THEN Current(p).id
                           ELSE wrapper_desktop_id(Current(p).id, Current(p).class),
                !.store = mapping])
           /\ Goto(p, "undo")
  <2>1. PICK target : target = IF Current(p).override THEN Current(p).id
                               ELSE wrapper_desktop_id(Current(p).id, Current(p).class)
    OBVIOUS
  <2>2. PICK r : r = [job[p] EXCEPT !.target = target, !.store = mapping]
    OBVIOUS
  <2>3. Set(p, r)
    BY <1>3, <2>1, <2>2, Zenon
  <2>4. Shapes /\ WorksSafely(p) /\ StoreIsSafe(mapping) /\ IsJob(job[p])
    BY DEF SafeInv, Shapes
  <2>5. r = Job(job[p].command, job[p].queue, job[p].source, target, job[p].backup, mapping,
                job[p].removed)
    BY <2>2, <2>4, TargetAndStore, Zenon
  <2>6. IsJob(r) /\ r.command = job[p].command /\ r.queue = job[p].queue /\ r.target = target
        /\ r.backup = job[p].backup /\ r.store = mapping
    BY <2>5 DEF IsJob, Job
  <2>7. job'[p] = r /\ pc'[p] = "undo"
    BY <1>3, <2>3, <2>4, <2>6, WritingLabels, SetFacts, GotoFacts
  <2>8. job[p].command \in Commands /\ job[p].queue = <<job[p].command>> /\ job[p].backup = NoKey
    BY <1>1, <2>4 DEF WorksSafely, Started, BackupIsOwn, IsSuggest
  <2>9. Current(p) = job[p].command /\ Current(p)' = Current(p)
    BY <2>6, <2>7, <2>8 DEF Current
  <2>10. Current(p).op = "unwrap" /\ IsSeq(Current(p).id)
    <3>1. \A c \in Commands : c.op = "unwrap" => c.id \in Seq(Words)
      BY DesktopAssumption DEF Text
    <3> QED BY <1>1, <2>8, <2>9, <3>1, SeqIsSeq
  <2>11. Started(p)' /\ BackupIsOwn(p)' /\ WrapsSafely(p)'
    BY <1>1, <2>4, <2>6, <2>7, <2>8 DEF WorksSafely, Started, BackupIsOwn, WrapsSafely
  <2>12. UnwrapsSafely(p)'
    <3>1. target = IF Current(p)'.override THEN Current(p)'.id
                   ELSE wrapper_desktop_id(Current(p)'.id, Current(p)'.class)
      BY <2>1, <2>9
    <3> HIDE DEF wrapper_desktop_id
    <3> QED BY <2>6, <2>7, <2>9, <2>10, <3>1 DEF UnwrapsSafely
  <2>13. StoreIsSafe(job[p].store)'
    BY <1>1, <2>4, <2>6, <2>7 DEF StoreIsSafe, Safe, Saved
  <2>14. WorksSafely(p)'
    BY <2>11, <2>12, <2>13 DEF WorksSafely
  <2> QED BY <1>1, <1>3, <2>3, <2>6, <2>14, WritingLabels, ThinksOn
<1> QED BY <1>2, <1>3, Zenon DEF LoadForUnwrap

LEMMA RestoreCutKeeps ==
  ASSUME PlainFiles, SafeInv, NEW p \in Processes, RestoreCut(p)
  PROVE  Advances(p)
<1>1. /\ pc[p] = "undo" /\ files' = Put(files, job[p].target, Torn) /\ Goto(p, "restore")
      /\ BackupToRestore(p) # NoKey /\ UNCHANGED <<backups, mapping, clock, clashed, job>>
  BY DEF RestoreCut
<1>2. Shapes /\ WorksSafely(p)
  BY DEF SafeInv
<1>3. IsJob(job[p]) /\ Set(p, job[p])
  BY <1>1, <1>2, SameJob
<1>4. IsSeq(job[p].target) /\ IsSeq(Torn.exec) /\ Torn \notin Own
  BY <1>1, TargetIsSeq, EmptyIsSeq, TornIsNotOwn DEF Torn, Content
<1>5. pc'[p] = "restore"
  BY <1>1, <1>2, WritingLabels, GotoFacts
<1>6. Grows => WorksSafely(p)'
  <2> SUFFICES ASSUME Grows PROVE WorksSafely(p)'
    OBVIOUS
  <2>1. Current(p)' = Current(p) /\ BackupToRestore(p)' = BackupToRestore(p)
    BY <1>1 DEF Current, BackupToRestore, Key2
  <2>2. Started(p)' /\ BackupIsOwn(p)' /\ WrapsSafely(p)'
    BY <1>1, <1>2, <1>5 DEF WorksSafely, Started, BackupIsOwn, WrapsSafely
  <2>3. StoreIsSafe(job[p].store)'
    BY <1>1, <1>2 DEF WorksSafely, StoreIsSafe, Grows
  <2>4. UnwrapsSafely(p)'
    BY <1>1, <1>2, <1>5, <2>1 DEF WorksSafely, UnwrapsSafely
  <2> QED BY <2>2, <2>3, <2>4 DEF WorksSafely
<1> QED BY <1>1, <1>3, <1>4, <1>6, WritingLabels, WritesOn

\* The record of an unwrap that has undone its wrap.
LEMMA UndoneJob ==
  ASSUME SafeInv, NEW p \in Processes, pc[p] \in {"undo", "restore"}, NEW removed, NEW key,
         Set(p, [job[p] EXCEPT !.removed = removed, !.store = Without(@, key)]),
         Goto(p, "cut_mapping")
  PROVE  \E r : IsJob(r) /\ Set(p, r) /\ (Grows => WorksSafely(p)')
<1>1. PICK r : r = [job[p] EXCEPT !.removed = removed, !.store = Without(@, key)]
  OBVIOUS
<1>2. PICK store : store = Without(job[p].store, key)
  OBVIOUS
<1>3. Shapes /\ WorksSafely(p) /\ IsJob(job[p])
  BY DEF SafeInv, Shapes
<1>4. r = [job[p] EXCEPT !.removed = removed, !.store = store]
  BY <1>1, <1>2, Zenon
<1>5. r = Job(job[p].command, job[p].queue, job[p].source, job[p].target, job[p].backup, store,
              removed)
  BY <1>3, <1>4, RemovedAndStore, Zenon
<1>6. IsJob(r) /\ r.command = job[p].command /\ r.queue = job[p].queue
      /\ r.backup = job[p].backup /\ r.store = store
  BY <1>5 DEF IsJob, Job
<1>7. Set(p, r)
  BY <1>1, Zenon
<1>8. job'[p] = r /\ pc'[p] = "cut_mapping"
  BY <1>3, <1>6, <1>7, WritingLabels, SetFacts, GotoFacts
<1>9. Grows => WorksSafely(p)'
  <2> SUFFICES ASSUME Grows PROVE WorksSafely(p)'
    OBVIOUS
  <2>1. Started(p)'
    BY <1>3, <1>6, <1>8 DEF WorksSafely, Started
  <2>2. \A k \in DOMAIN store : k \in DOMAIN job[p].store /\ store[k] = job[p].store[k]
    BY <1>2 DEF Without
  <2>3. StoreIsSafe(job[p].store)'
    BY <1>3, <1>6, <1>8, <2>2 DEF WorksSafely, StoreIsSafe, Grows
  <2> QED BY <1>8, <2>1, <2>3 DEF WorksSafely, BackupIsOwn, WrapsSafely, UnwrapsSafely
<1> QED BY <1>6, <1>7, <1>9

LEMMA RestoreKeeps ==
  ASSUME SafeInv, NEW p \in Processes, Restore(p)
  PROVE  Advances(p)
<1>1. PICK content : content = backups[BackupToRestore(p)]
  OBVIOUS
<1>2. /\ pc[p] = "restore" /\ files' = Filled(job[p].target, content) /\ Goto(p, "cut_mapping")
      /\ Set(p, [job[p] EXCEPT !.removed = TRUE, !.store = Without(@, Key2(p))])
      /\ UNCHANGED <<backups, mapping, clock, clashed>>
  BY <1>1, Zenon DEF Restore
<1>3. BackupToRestore(p) \in DOMAIN backups
  BY <1>2 DEF SafeInv, WorksSafely, UnwrapsSafely, BackupToRestore
<1>4. IsSeq(content.exec) /\ Saved(content)
  BY <1>1, <1>3 DEF SafeInv, Shapes, Saved
<1>5. IsSeq(job[p].target)
  BY <1>2, TargetIsSeq
<1>6. PICK r : IsJob(r) /\ Set(p, r) /\ (Grows => WorksSafely(p)')
  BY <1>2, UndoneJob
<1> QED BY <1>2, <1>4, <1>5, <1>6, WritingLabels, WritesOn

LEMMA RemoveFileKeeps ==
  ASSUME PlainFiles, SafeInv, NEW p \in Processes, RemoveFile(p)
  PROVE  Advances(p)
<1>1. PICK removed : removed = (job[p].target \in DOMAIN files)
  OBVIOUS
<1>2. /\ pc[p] = "undo" /\ files' = Without(files, job[p].target) /\ Goto(p, "cut_mapping")
      /\ Set(p, [job[p] EXCEPT !.removed = removed, !.store = Without(@, Key2(p))])
      /\ UNCHANGED <<backups, mapping, clock, clashed>>
  BY <1>1, Zenon DEF RemoveFile
<1>3. IsSeq(Torn.exec) /\ Torn \notin Own
  BY EmptyIsSeq, TornIsNotOwn DEF Torn, Content
<1>4. IsSeq(job[p].target)
  BY <1>2, TargetIsSeq
<1>5. PICK r : IsJob(r) /\ Set(p, r) /\ (Grows => WorksSafely(p)')
  BY <1>2, UndoneJob
<1> QED BY <1>2, <1>3, <1>4, <1>5, WritingLabels, WritesOn

LEMMA CutMappingKeeps ==
  ASSUME SafeInv, NEW p \in Processes, CutMapping(p)
  PROVE  Advances(p)
<1>1. pc[p] = "cut_mapping" /\ Goto(p, "fill_mapping") /\ UNCHANGED <<files, backups, mapping, clock, clashed, job>>
  BY DEF CutMapping
<1>2. Shapes /\ WorksSafely(p)
  BY DEF SafeInv
<1>3. IsJob(job[p]) /\ Set(p, job[p])
  BY <1>1, <1>2, SameJob
<1>4. pc'[p] = "fill_mapping"
  BY <1>1, <1>2, WritingLabels, GotoFacts
<1>5. Started(p)' /\ StoreIsSafe(job[p].store)'
  BY <1>1, <1>2, <1>4 DEF WorksSafely, Started, StoreIsSafe, Safe, Saved
<1>6. WorksSafely(p)'
  BY <1>4, <1>5 DEF WorksSafely, BackupIsOwn, WrapsSafely, UnwrapsSafely
<1> QED BY <1>1, <1>3, <1>6, WritingLabels, ThinksOn

LEMMA FillMappingKeeps ==
  ASSUME SafeInv, NEW p \in Processes, FillMapping(p)
  PROVE  Advances(p)
<1>1. PICK ok : ok = (Current(p).op = "wrap" \/ job[p].removed)
  OBVIOUS
<1>2. mapping' = job[p].store /\ Ends(p, ok) /\ UNCHANGED <<files, backups, clock, clashed>>
  BY <1>1, Zenon DEF FillMapping
<1> QED BY <1>2, EndsKeeps

LEMMA CallFailsKeeps ==
  ASSUME SafeInv, NEW p \in Processes, CallFails(p)
  PROVE  Advances(p)
<1>1. Ends(p, FALSE) /\ UNCHANGED <<files, backups, clock, clashed, mapping>>
  BY Zenon DEF CallFails, shared
<1> QED BY <1>1, EndsKeeps

LEMMA KillKeeps ==
  ASSUME SafeInv, NEW p \in Processes, Kill(p)
  PROVE  Advances(p)
<1>1. Goto(p, "idle") /\ Set(p, NoJob) /\ UNCHANGED <<files, backups, clock, clashed, mapping>>
  BY DEF Kill, shared
<1>2. IsJob(NoJob) /\ NoJob.backup = NoKey /\ NoJob.store = <<>>
  BY DEF IsJob, Job, NoJob
<1>3. job'[p] = NoJob /\ pc'[p] = "idle"
  BY <1>1, <1>2, SetFacts, GotoFacts DEF SafeInv
<1>4. Started(p)' /\ StoreIsSafe(job[p].store)'
  BY <1>2, <1>3 DEF Started, StoreIsSafe
<1>5. WorksSafely(p)'
  BY <1>2, <1>3, <1>4, RestingWorksSafely
<1> QED BY <1>1, <1>2, <1>5, ThinksOn

-----------------------------------------------------------------------------
(* The files of the user.                                                  *)

LEMMA SafeInit == PlainFiles /\ Init => SafeInv
<1> SUFFICES ASSUME PlainFiles, Init PROVE SafeInv
  OBVIOUS
<1>1. /\ files = UserFiles /\ backups = <<>> /\ mapping = <<>> /\ clock = 0
      /\ pc = [p \in Processes |-> "idle"] /\ job = [p \in Processes |-> NoJob]
  BY DEF Init
<1>2. IsJob(NoJob) /\ NoJob.backup = NoKey /\ NoJob.store = <<>>
  BY DEF IsJob, Job, NoJob
<1>3. Shapes
  <2>1. \A id \in DOMAIN files : IsSeq(id) /\ IsSeq(files[id].exec)
    <3> SUFFICES ASSUME NEW id \in DOMAIN UserFiles
                 PROVE  IsSeq(id) /\ IsSeq(UserFiles[id].exec)
      BY <1>1
    <3>1. id \in Text /\ UserFiles[id] \in [name : Text, exec : Exec]
      BY DesktopAssumption
    <3>2. UserFiles[id].exec \in Seq(Text)
      BY <3>1 DEF Exec
    <3> QED BY <3>1, <3>2, SeqIsSeq DEF Text
  <2>2. job = [p \in Processes |-> job[p]] /\ \A p \in Processes : IsJob(job[p])
    BY <1>1, <1>2
  <2>3. pc \in [Processes -> Writing \cup {"idle", "next"}]
    BY <1>1
  <2>4. clock \in Nat /\ DOMAIN backups = {}
    BY <1>1
  <2> QED BY <2>1, <2>2, <2>3, <2>4 DEF Shapes
<1>4. WrapperIdsAreSafe
  BY <1>1, WrapperIdIsFree DEF WrapperIdsAreSafe, Safe
<1>5. StoreIsSafe(mapping)
  BY <1>1 DEF StoreIsSafe
<1>6. ASSUME NEW p \in Processes PROVE WorksSafely(p)
  BY <1>1, <1>2 DEF WorksSafely, Started, BackupIsOwn, WrapsSafely, UnwrapsSafely, StoreIsSafe
<1> QED BY <1>3, <1>4, <1>5, <1>6 DEF SafeInv

LEMMA StepAdvances ==
  ASSUME PlainFiles, SafeInv, NEW p \in Processes, Run(p) \/ CallFails(p) \/ Kill(p)
  PROVE  Advances(p)
  BY BeginKeeps, ResolveWrapKeeps, SuggestDoneKeeps, BackUpKeeps, CopyKeeps, NothingToCopyKeeps,
     CutKeeps, FillKeeps, LoadForWrapKeeps, LoadForUnwrapKeeps, RestoreCutKeeps, RestoreKeeps, RemoveFileKeeps,
     CutMappingKeeps, FillMappingKeeps, CallFailsKeeps, KillKeeps, Zenon DEF Run

LEMMA SafeNext == PlainFiles /\ SafeInv /\ [Next]_vars => SafeInv'
<1> SUFFICES ASSUME PlainFiles, SafeInv, [Next]_vars PROVE SafeInv'
  OBVIOUS
<1>1. CASE Next
  <2>1. PICK p \in Processes : Run(p) \/ CallFails(p) \/ Kill(p)
    BY <1>1 DEF Next
  <2> QED BY <2>1, StepAdvances, AdvancesKeeps
<1>2. CASE UNCHANGED vars
  <2>1. UNCHANGED <<files, backups, mapping, clock, clashed, pc, job>>
    BY <1>2 DEF vars, shared
  <2>2. Shapes' /\ StoreIsSafe(mapping)' /\ WrapperIdsAreSafe'
    BY <2>1 DEF SafeInv, Shapes, StoreIsSafe, WrapperIdsAreSafe, Safe, Saved
  <2>3. ASSUME NEW p \in Processes PROVE WorksSafely(p)'
    <3>1. Current(p)' = Current(p) /\ BackupToRestore(p)' = BackupToRestore(p)
      BY <2>1 DEF Current, BackupToRestore, Key2
    <3>2. WrapTarget(Current(p), job[p].source)' = WrapTarget(Current(p), job[p].source)
      BY <2>1, <3>1 DEF WrapTarget
    <3>3. StoreIsSafe(job[p].store)' = StoreIsSafe(job[p].store)
          /\ Safe(job[p].target)' = Safe(job[p].target)
      BY <2>1 DEF StoreIsSafe, Safe, Saved
    <3>4. WorksSafely(p)
      BY DEF SafeInv
    <3>5. Started(p)' /\ BackupIsOwn(p)'
      BY <2>1, <3>4 DEF WorksSafely, Started, BackupIsOwn
    <3>6. UnwrapsSafely(p)'
      BY <2>1, <3>1, <3>4 DEF WorksSafely, UnwrapsSafely
    <3>7. WrapsSafely(p)'
      <4> HIDE DEF WrapTarget
      <4> QED BY <2>1, <3>1, <3>2, <3>3, <3>4 DEF WorksSafely, WrapsSafely
    <3> QED BY <3>3, <3>4, <3>5, <3>6, <3>7 DEF WorksSafely
  <2> QED BY <2>2, <2>3 DEF SafeInv
<1> QED BY <1>1, <1>2

LEMMA StepKeepsFiles ==
  ASSUME NEW p \in Processes, Run(p) \/ CallFails(p) \/ Kill(p)
  PROVE  \/ UNCHANGED files
         \/ Cut(p) \/ Fill(p) \/ RestoreCut(p) \/ Restore(p) \/ RemoveFile(p)
<1>1. Begin(p) \/ ResolveWrap(p) \/ SuggestDone(p) \/ LoadForWrap(p) \/ LoadForUnwrap(p)
      \/ NothingToCopy(p) \/ CallFails(p) \/ Kill(p) => UNCHANGED files
  BY Zenon DEF Begin, ResolveWrap, SuggestDone, LoadForWrap, LoadForUnwrap, NothingToCopy, CallFails,
     Kill, shared
<1>2. BackUp(p) \/ Copy(p) \/ CutMapping(p) \/ FillMapping(p) => UNCHANGED files
  BY Zenon DEF BackUp, Copy, CutMapping, FillMapping
<1> QED BY <1>1, <1>2, Zenon DEF Run

\* Who writes a place or removes it is about a safe one, unless it is an unwrap
\* that knows of no backup.
LEMMA WrittenIsSafe ==
  ASSUME SafeInv, NEW p \in Processes,
         Cut(p) \/ Fill(p) \/ RestoreCut(p) \/ Restore(p) \/ RemoveFile(p)
  PROVE  \/ Safe(job[p].target)
         \/ RemoveFile(p) /\ Current(p).override
<1>1. WorksSafely(p)
  BY DEF SafeInv
<1>2. CASE Cut(p) \/ Fill(p)
  <2>1. pc[p] \in {"cut", "fill"}
    BY <1>2 DEF Cut, Fill
  <2> QED BY <1>1, <2>1 DEF WorksSafely, WrapsSafely
<1>3. CASE RestoreCut(p) \/ Restore(p)
  <2>1. pc[p] \in {"undo", "restore"} /\ BackupToRestore(p) # NoKey
    BY <1>1, <1>3 DEF RestoreCut, Restore, WorksSafely, UnwrapsSafely
  <2>2. /\ Current(p).override /\ Key2(p) \in DOMAIN job[p].store
        /\ job[p].store[Key2(p)].backup # NoKey
    BY <2>1 DEF BackupToRestore
  <2>3. Current(p).op = "unwrap" /\ job[p].target = Current(p).id
    BY <1>1, <2>1, <2>2 DEF WorksSafely, UnwrapsSafely
  <2>4. Key2(p)[1] = job[p].target
    BY <2>3 DEF Key2
  <2>5. Safe(Key2(p)[1])
    BY <1>1, <2>2 DEF WorksSafely, StoreIsSafe
  <2> QED BY <2>4, <2>5
<1>4. CASE RemoveFile(p) /\ ~Current(p).override
  <2>1. pc[p] = "undo"
    BY <1>4 DEF RemoveFile
  <2>2. IsSeq(Current(p).id)
        /\ job[p].target = wrapper_desktop_id(Current(p).id, Current(p).class)
    BY <1>1, <1>4, <2>1 DEF WorksSafely, UnwrapsSafely
  <2> HIDE DEF wrapper_desktop_id
  <2> QED BY <2>2 DEF SafeInv, WrapperIdsAreSafe
<1> QED BY <1>2, <1>3, <1>4

\* What WrapsKeepOriginals says of a step.
Loses(content) == Kept(content) /\ ~Kept(content)'
UnwrapWithoutBackup(p) ==
  pc[p] = "undo" /\ pc'[p] # "undo" /\ Current(p).override /\ BackupToRestore(p) = NoKey

LEMMA LossIsUnwrap ==
  ASSUME PlainFiles, SafeInv, [Next]_vars, NEW content \in Own, ~clashed', Loses(content)
  PROVE  \E p \in Processes : UnwrapWithoutBackup(p)
<1>1. CASE UNCHANGED vars
  BY <1>1 DEF Loses, Kept, vars, shared
<1>2. ASSUME NEW p \in Processes, Run(p) \/ CallFails(p) \/ Kill(p)
      PROVE  UnwrapWithoutBackup(p)
  <2>1. Advances(p)
    BY <1>2, StepAdvances
  <2>2. Grows
    BY <2>1 DEF Advances
  <2>3. ~Saved(content) /\ ~Saved(content)'
    BY <2>2 DEF Loses, Kept, Saved, Grows
  <2>4. PICK id \in DOMAIN files : files[id] = content
    BY <2>3 DEF Loses, Kept, Saved
  <2>5. ~(id \in DOMAIN files' /\ files'[id] = content)
    BY DEF Loses, Kept
  <2>6. ~Safe(id)
    BY <2>3, <2>4 DEF Safe
  <2>7. Cut(p) \/ Fill(p) \/ RestoreCut(p) \/ Restore(p) \/ RemoveFile(p)
    BY <1>2, <2>4, <2>5, StepKeepsFiles
  <2>8. \E new : files' \in {Put(files, job[p].target, new), Filled(job[p].target, new),
                             Without(files, job[p].target)}
    BY <2>7, Zenon DEF Cut, Fill, RestoreCut, Restore, RemoveFile
  <2>9. id = job[p].target
    BY <2>4, <2>5, <2>8 DEF Put, Filled, Without
  <2>10. RemoveFile(p) /\ Current(p).override
    BY <2>6, <2>7, <2>9, WrittenIsSafe
  <2>11. Goto(p, "cut_mapping") /\ pc[p] = "undo" /\ BackupToRestore(p) = NoKey
    BY <2>10 DEF RemoveFile
  <2>12. pc'[p] = "cut_mapping"
    BY <2>11, WritingLabels, GotoFacts DEF SafeInv
  <2> QED BY <2>10, <2>11, <2>12 DEF UnwrapWithoutBackup
<1> QED BY <1>1, <1>2 DEF Next

\* Whatever processes wrap and unwrap, fail or are killed: a file of the user is
\* in place or in a backup, until an unwrap --override that knows no backup of
\* it, as long as no file has had two backups in one second.  The files the user
\* has at first are no wrappers.
THEOREM WrapsKeepOriginalsHolds ==
  ASSUME PlainFiles
  PROVE  Spec => WrapsKeepOriginals
<1>1. Init => SafeInv
  BY SafeInit
<1>2. SafeInv /\ [Next]_vars => SafeInv'
  BY SafeNext
<1>3. SafeInv /\ [Next]_vars =>
        [ \A content \in Own : ~clashed' /\ Kept(content) /\ ~Kept(content)' =>
            \E p \in Processes : /\ pc[p] = "undo" /\ pc'[p] # "undo"
                                 /\ Current(p).override /\ BackupToRestore(p) = NoKey ]_vars
  BY LossIsUnwrap, Zenon DEF Loses, UnwrapWithoutBackup
<1> QED BY <1>1, <1>2, <1>3, PTL DEF Spec, WrapsKeepOriginals

-----------------------------------------------------------------------------
(* A command that is alone.                                                *)

\* While p is alone the others are idle; unless it unwraps, the files it found
\* are still there, and what it writes without --force was not among them.
IsAlone(p) ==
  /\ pc[p] \in {"undo", "restore"} => job[p].command.op = "unwrap"
  /\ pc[p] # "idle" /\ alone[p] =>
       /\ \A q \in Processes \ {p} : pc[q] = "idle"
       /\ job[p].command.op # "unwrap" => DOMAIN start[p].files \subseteq DOMAIN files
       /\ pc[p] \in {"back_up", "copy", "cut", "fill"} /\ ~Current(p).force =>
            job[p].target \notin DOMAIN start[p].files

AloneInv == DOMAIN start = Processes /\ \A p \in Processes : IsAlone(p)

\* What a step of p other than Begin leaves alone.
Proceeds(p) ==
  /\ pc[p] # "idle" /\ alone' = alone /\ DOMAIN start' = DOMAIN start
  /\ \A q \in Processes \ {p} : start'[q] = start[q]
  /\ pc'[p] # "idle" => start'[p] = start[p] /\ job'[p].command = job[p].command
  /\ pc'[p] # "idle" /\ job[p].command.op # "unwrap" => DOMAIN files \subseteq DOMAIN files'
  /\ pc'[p] \in {"undo", "restore"} => job[p].command.op = "unwrap"
  /\ pc'[p] \in {"back_up", "copy", "cut", "fill"} =>
       \/ /\ pc[p] \in {"back_up", "copy", "cut"}
          /\ job'[p].target = job[p].target /\ Current(p)' = Current(p)
       \/ /\ pc[p] = "next" /\ job[p].command.op # "unwrap"
          /\ Current(p)'.force \/ job'[p].target \notin DOMAIN files

LEMMA ProceedsKeeps ==
  ASSUME SafeInv, AloneInv, NEW p \in Processes, Proceeds(p), OthersStay(p)
  PROVE  AloneInv'
<1>1. ASSUME NEW q \in Processes \ {p} PROVE IsAlone(q)'
  <2>1. pc'[q] = pc[q] /\ job'[q] = job[q] /\ alone' = alone /\ IsAlone(q) /\ pc[p] # "idle"
    BY <1>1 DEF Proceeds, OthersStay, AloneInv
  <2> QED BY <1>1, <2>1 DEF IsAlone
<1>2. IsAlone(p)'
  <2>1. pc'[p] \in {"undo", "restore"} => job'[p].command.op = "unwrap"
    BY DEF Proceeds
  <2>2. ASSUME pc'[p] # "idle", alone'[p]
        PROVE  /\ \A q \in Processes \ {p} : pc'[q] = "idle"
               /\ job'[p].command.op # "unwrap" => DOMAIN start'[p].files \subseteq DOMAIN files'
               /\ pc'[p] \in {"back_up", "copy", "cut", "fill"} /\ ~Current(p)'.force =>
                    job'[p].target \notin DOMAIN start'[p].files
    <3>1. pc[p] # "idle" /\ alone[p] /\ IsAlone(p)
      BY <2>2 DEF Proceeds, AloneInv
    <3>2. start'[p] = start[p] /\ job'[p].command = job[p].command
      BY <2>2 DEF Proceeds
    <3>3. \A q \in Processes \ {p} : pc'[q] = "idle"
      BY <3>1 DEF IsAlone, OthersStay
    <3>4. job'[p].command.op # "unwrap" => DOMAIN start'[p].files \subseteq DOMAIN files'
      BY <2>2, <3>1, <3>2 DEF IsAlone, Proceeds
    <3>5. pc'[p] \in {"back_up", "copy", "cut", "fill"} /\ ~Current(p)'.force =>
            job'[p].target \notin DOMAIN start'[p].files
      BY <2>2, <3>1, <3>2 DEF IsAlone, Proceeds
    <3> QED BY <3>3, <3>4, <3>5
  <2> QED BY <2>1, <2>2 DEF IsAlone
<1>3. DOMAIN start' = Processes
  BY DEF Proceeds, AloneInv
<1> QED BY <1>1, <1>2, <1>3 DEF AloneInv

LEMMA BeginIsAlone ==
  ASSUME SafeInv, AloneInv, NEW p \in Processes, Begin(p), OthersStay(p)
  PROVE  AloneInv'
<1>1. PICK c : Begins(p, c)
  BY Zenon DEF Begin
<1>2. pc[p] = "idle" /\ pc'[p] = "next" /\ UNCHANGED files
  <2>1. pc[p] = "idle" /\ Goto(p, "next") /\ UNCHANGED files
    BY Zenon DEF Begin, shared
  <2> QED BY <2>1, GotoFacts DEF SafeInv
<1>3. /\ DOMAIN start' = Processes /\ start'[p].files = files
      /\ \A q \in Processes \ {p} : start'[q] = start[q]
      /\ \A q \in Processes \ {p} : alone'[q] => q \notin Working
      /\ alone'[p] => Working = {}
  BY <1>1 DEF Begins, AloneInv
<1>4. ASSUME NEW q \in Processes \ {p} PROVE IsAlone(q)'
  <2>1. pc'[q] = pc[q] /\ job'[q] = job[q] /\ IsAlone(q)
    BY <1>4 DEF OthersStay, AloneInv
  <2>2. pc[q] # "idle" => ~alone'[q]
    BY <1>3, <1>4 DEF Working
  <2> QED BY <2>1, <2>2 DEF IsAlone
<1>5. IsAlone(p)'
  <2>1. alone'[p] => \A q \in Processes \ {p} : pc'[q] = "idle"
    BY <1>3 DEF Working, OthersStay
  <2> QED BY <1>2, <1>3, <2>1 DEF IsAlone
<1> QED BY <1>3, <1>4, <1>5 DEF AloneInv

\* The ends of a command.
LEMMA EndsProceeds ==
  ASSUME SafeInv, AloneInv, NEW p \in Processes, NEW ok, Ends(p, ok), pc[p] # "idle",
         UNCHANGED files
  PROVE  Proceeds(p)
<1>1. /\ pc'[p] \in {"idle", "next"}
      /\ pc'[p] = "next" => job'[p].command = job[p].command
  BY EndsFacts DEF SafeInv
<1>2. CASE IsSuggest(job[p].command)
  <2>1. UNCHANGED <<start, alone>>
    BY <1>2, Zenon DEF Ends, Continues, ghosts
  <2> QED BY <1>1, <2>1 DEF Proceeds
<1>3. CASE ~IsSuggest(job[p].command)
  <2>1. NothingKept(p) /\ UNCHANGED alone /\ Goto(p, "idle")
    BY <1>3, Zenon DEF Ends, Succeeds, Fails
  <2>2. pc'[p] = "idle"
    BY <2>1, GotoFacts DEF SafeInv
  <2>3. DOMAIN start' = DOMAIN start /\ \A q \in Processes \ {p} : start'[q] = start[q]
    BY <2>1 DEF NothingKept, AloneInv
  <2> QED BY <2>1, <2>2, <2>3 DEF Proceeds
<1> QED BY <1>2, <1>3

LEMMA LeavesProceeds ==
  ASSUME SafeInv, AloneInv, NEW p \in Processes, Goto(p, "idle"), NothingKept(p), pc[p] # "idle",
         UNCHANGED alone
  PROVE  Proceeds(p)
<1>1. pc'[p] = "idle"
  BY GotoFacts DEF SafeInv
<1>2. DOMAIN start' = DOMAIN start /\ \A q \in Processes \ {p} : start'[q] = start[q]
  BY DEF NothingKept, AloneInv
<1> QED BY <1>1, <1>2 DEF Proceeds

\* A step after the one that took the target.
LEMMA GoesOnProceeds ==
  ASSUME SafeInv, NEW p \in Processes, Continues, pc[p] # "idle",
         NEW label \in Writing, Goto(p, label),
         label \in {"undo", "restore"} => job[p].command.op = "unwrap",
         label \in {"back_up", "copy", "cut", "fill"} => pc[p] \in {"back_up", "copy", "cut"},
         job'[p].command = job[p].command, job'[p].queue = job[p].queue,
         label \in {"back_up", "copy", "cut", "fill"} => job'[p].target = job[p].target,
         job[p].command.op # "unwrap" => DOMAIN files \subseteq DOMAIN files'
  PROVE  Proceeds(p)
<1>1. pc'[p] = label
  BY GotoFacts DEF SafeInv
<1>2. UNCHANGED <<start, alone>>
  BY DEF Continues, ghosts
<1>3. Current(p)' = Current(p)
  BY DEF Current
<1> QED BY <1>1, <1>2, <1>3 DEF Proceeds

LEMMA NotIdle ==
  ASSUME NEW p \in Processes, pc[p] \in Writing \/ pc[p] = "next"
  PROVE  pc[p] # "idle"
  BY DEF Writing

LEMMA AllLabels ==
  \A label \in {"back_up", "copy", "cut", "fill", "load", "undo", "restore", "cut_mapping",
                "fill_mapping"} : label \in Writing
  BY DEF Writing

\* A command that resolves a wrap or writes one is no unwrap.
LEMMA WrapIsNoUnwrap ==
  ASSUME SafeInv, NEW p \in Processes, pc[p] # "idle", Current(p).op = "wrap"
  PROVE  job[p].command.op # "unwrap"
  BY DEF SafeInv, WorksSafely, Started, IsSuggest, Current

LEMMA ResolveWrapProceeds ==
  ASSUME SafeInv, AloneInv, NEW p \in Processes, ResolveWrap(p)
  PROVE  Proceeds(p)
<1> DEFINE c == Current(p)
           found == resolve_desktop_id(c.id, Entries)
           target == WrapTarget(c, found.entry)
<1>1. pc[p] = "next" /\ c.op = "wrap" /\ UNCHANGED files
  BY Zenon DEF ResolveWrap, shared
<1>2. Ends(p, FALSE) => Proceeds(p)
  BY <1>1, EndsProceeds
<1>3. Ends(p, TRUE) => Proceeds(p)
  BY <1>1, EndsProceeds
<1>4. ASSUME WrapTakes(p, found.entry, target), ~Refuses(c, found.entry, target)
      PROVE  Proceeds(p)
  <2>1. PICK entry : entry = found.entry
    OBVIOUS
  <2>2. PICK place : place = target
    OBVIOUS
  <2>3. PICK r : r = [job[p] EXCEPT !.source = entry, !.target = place]
    OBVIOUS
  <2>4. PICK label : label = IF c.override /\ place \in DOMAIN files THEN "back_up" ELSE "cut"
    OBVIOUS
  <2>5. Goto(p, label) /\ Set(p, r) /\ Continues
    BY <1>4, <2>1, <2>2, <2>3, <2>4, Zenon DEF WrapTakes
  <2>6. IsJob(job[p]) /\ Shapes
    BY DEF SafeInv, Shapes
  <2>7. r = Job(job[p].command, job[p].queue, entry, place, job[p].backup, job[p].store,
                job[p].removed)
    BY <2>3, <2>6, SourceAndTarget, Zenon
  <2>8. IsJob(r) /\ r.command = job[p].command /\ r.queue = job[p].queue /\ r.target = place
    BY <2>7 DEF IsJob, Job
  <2>9. place \notin DOMAIN files \/ c.force
    BY <1>4, <2>2 DEF Refuses
  <2>10. label \in {"back_up", "cut"}
    BY <2>4, Zenon
  <2>11. job'[p] = r /\ pc'[p] = label
    BY <2>5, <2>6, <2>8, <2>10, AllLabels, SetFacts, GotoFacts
  <2>12. Current(p)' = c
    BY <2>8, <2>11 DEF Current
  <2>13. UNCHANGED <<start, alone>>
    BY <2>5 DEF Continues, ghosts
  <2>14. job[p].command.op # "unwrap"
    BY <1>1, WrapIsNoUnwrap
  <2> HIDE DEF c, found, target
  <2> QED BY <1>1, <2>8, <2>9, <2>10, <2>11, <2>12, <2>13, <2>14 DEF Proceeds
<1>5. \/ Ends(p, FALSE) \/ Ends(p, TRUE)
      \/ WrapTakes(p, found.entry, target) /\ ~Refuses(c, found.entry, target)
  BY Zenon DEF ResolveWrap
<1> QED BY <1>2, <1>3, <1>4, <1>5, Zenon

LEMMA WritesProceed ==
  ASSUME SafeInv, AloneInv, NEW p \in Processes, Cut(p) \/ Fill(p) \/ RestoreCut(p) \/ CutMapping(p)
  PROVE  Proceeds(p)
<1>1. PICK label \in {"fill", "load", "restore", "cut_mapping", "fill_mapping"} : Goto(p, label)
      /\ (label = "fill" => pc[p] = "cut") /\ (label = "restore" => pc[p] = "undo")
  BY DEF Cut, Fill, RestoreCut, CutMapping
<1>2. /\ pc[p] \in {"cut", "fill", "undo", "cut_mapping"} /\ Continues /\ UNCHANGED job
      /\ DOMAIN files \subseteq DOMAIN files'
  <2>1. \A content : DOMAIN Filled(job[p].target, content) = DOMAIN files
    BY DEF Filled
  <2> QED BY <2>1 DEF Cut, Fill, RestoreCut, CutMapping, Put, Continues
<1>3. pc[p] # "idle" /\ label \in Writing
  BY <1>1, <1>2, AllLabels, NotIdle
<1>4. IsAlone(p)
  BY DEF AloneInv
<1>5. label \in {"undo", "restore"} => job[p].command.op = "unwrap"
  BY <1>1, <1>4 DEF IsAlone
<1>6. label \in {"back_up", "copy", "cut", "fill"} => pc[p] \in {"back_up", "copy", "cut"}
  BY <1>1
<1> QED BY <1>1, <1>2, <1>3, <1>5, <1>6, GoesOnProceeds

LEMMA RecordsProceed ==
  ASSUME SafeInv, AloneInv, NEW p \in Processes, BackUp(p) \/ Copy(p) \/ LoadForWrap(p)
  PROVE  Proceeds(p)
<1>1. Shapes /\ IsJob(job[p]) /\ UNCHANGED files
  BY Zenon DEF SafeInv, Shapes, BackUp, Copy, LoadForWrap, shared
<1>2. CASE BackUp(p)
  <2>1. PICK key : Set(p, [job[p] EXCEPT !.backup = key])
    BY <1>2, Zenon DEF BackUp
  <2>2. PICK r : r = [job[p] EXCEPT !.backup = key]
    OBVIOUS
  <2>3. r = Job(job[p].command, job[p].queue, job[p].source, job[p].target, key, job[p].store,
                job[p].removed)
    BY <1>1, <2>2, OneField, Zenon
  <2>4. IsJob(r) /\ r.command = job[p].command /\ r.queue = job[p].queue
        /\ r.target = job[p].target
    BY <2>3 DEF IsJob, Job
  <2>5. job'[p] = r
    BY <1>1, <2>1, <2>2, <2>4, SetFacts
  <2>6. pc[p] = "back_up" /\ Goto(p, "copy") /\ Continues
    BY <1>2, Zenon DEF BackUp
  <2>7. pc[p] # "idle"
    BY <2>6
  <2> QED BY <1>1, <2>4, <2>5, <2>6, <2>7, AllLabels, GoesOnProceeds
<1>3. CASE Copy(p)
  <2>1. pc[p] = "copy" /\ Goto(p, "cut") /\ UNCHANGED job /\ Continues
    BY <1>3 DEF Copy
  <2> QED BY <1>1, <2>1, AllLabels, GoesOnProceeds
<1>4. CASE LoadForWrap(p)
  <2>1. pc[p] = "load"
    BY <1>4 DEF LoadForWrap
  <2>2. CASE Ends(p, FALSE)
    BY <1>1, <2>1, <2>2, EndsProceeds
  <2>3. ASSUME NEW store, Set(p, [job[p] EXCEPT !.store = store]), Goto(p, "cut_mapping"), Continues
        PROVE  Proceeds(p)
    <3>1. PICK r : r = [job[p] EXCEPT !.store = store]
      OBVIOUS
    <3>2. r = Job(job[p].command, job[p].queue, job[p].source, job[p].target, job[p].backup, store,
                  job[p].removed)
      BY <1>1, <3>1, OneField, Zenon
    <3>3. IsJob(r) /\ r.command = job[p].command /\ r.queue = job[p].queue
      BY <3>2 DEF IsJob, Job
    <3>4. job'[p] = r
      BY <1>1, <2>3, <3>1, <3>3, SetFacts
    <3> QED BY <1>1, <2>1, <2>3, <3>3, <3>4, AllLabels, GoesOnProceeds
  <2> QED BY <1>4, <2>2, <2>3, Zenon DEF LoadForWrap
<1> QED BY <1>2, <1>3, <1>4

LEMMA UnwrapsProceed ==
  ASSUME SafeInv, AloneInv, NEW p \in Processes, LoadForUnwrap(p) \/ Restore(p) \/ RemoveFile(p)
  PROVE  Proceeds(p)
<1>1. Shapes /\ IsJob(job[p]) /\ IsAlone(p)
  BY DEF SafeInv, Shapes, AloneInv
<1>2. CASE LoadForUnwrap(p)
  <2>1. pc[p] = "next" /\ job[p].command.op = "unwrap" /\ UNCHANGED files
    BY <1>2, Zenon DEF LoadForUnwrap, shared
  <2>2. CASE Ends(p, FALSE)
    BY <2>1, <2>2, EndsProceeds
  <2>3. ASSUME NEW target, Set(p, [job[p] EXCEPT !.target = target, !.store = mapping]),
               Goto(p, "undo"), Continues
        PROVE  Proceeds(p)
    <3>1. PICK r : r = [job[p] EXCEPT !.target = target, !.store = mapping]
      OBVIOUS
    <3>2. r = Job(job[p].command, job[p].queue, job[p].source, target, job[p].backup, mapping,
                  job[p].removed)
      BY <1>1, <3>1, TargetAndStore, Zenon
    <3>3. IsJob(r) /\ r.command = job[p].command /\ r.queue = job[p].queue
      BY <3>2 DEF IsJob, Job
    <3>4. job'[p] = r
      BY <1>1, <2>3, <3>1, <3>3, SetFacts
    <3> QED BY <2>1, <2>3, <3>3, <3>4, AllLabels, GoesOnProceeds
  <2> QED BY <1>2, <2>2, <2>3, Zenon DEF LoadForUnwrap
<1>3. CASE Restore(p) \/ RemoveFile(p)
  <2>1. pc[p] \in {"undo", "restore"} /\ Goto(p, "cut_mapping") /\ Continues
    BY <1>3, Zenon DEF Restore, RemoveFile
  <2>2. PICK removed, key : Set(p, [job[p] EXCEPT !.removed = removed, !.store = Without(@, key)])
    <3>1. PICK gone : gone = (job[p].target \in DOMAIN files)
      OBVIOUS
    <3>2. CASE Restore(p)
      BY <3>2, Zenon DEF Restore
    <3>3. CASE RemoveFile(p)
      <4>1. Set(p, [job[p] EXCEPT !.removed = gone, !.store = Without(@, Key2(p))])
        BY <3>1, <3>3, Zenon DEF RemoveFile
      <4> QED BY <4>1, Zenon
    <3> QED BY <1>3, <3>2, <3>3, Zenon
  <2>3. PICK store : store = Without(job[p].store, key)
    OBVIOUS
  <2>4. PICK r : r = [job[p] EXCEPT !.removed = removed, !.store = store]
    OBVIOUS
  <2>5. Set(p, r)
    BY <2>2, <2>3, <2>4, Zenon
  <2>6. r = Job(job[p].command, job[p].queue, job[p].source, job[p].target, job[p].backup, store,
                removed)
    BY <1>1, <2>4, RemovedAndStore, Zenon
  <2>7. IsJob(r) /\ r.command = job[p].command /\ r.queue = job[p].queue
    BY <2>6 DEF IsJob, Job
  <2>8. job'[p] = r
    BY <1>1, <2>5, <2>7, SetFacts
  <2>9. job[p].command.op = "unwrap"
    BY <1>1, <2>1 DEF IsAlone
  <2>10. pc[p] # "idle"
    BY <2>1
  <2> QED BY <2>1, <2>7, <2>8, <2>9, <2>10, AllLabels, GoesOnProceeds
<1> QED BY <1>2, <1>3

LEMMA ExitsProceed ==
  ASSUME SafeInv, AloneInv, NEW p \in Processes,
         SuggestDone(p) \/ FillMapping(p) \/ NothingToCopy(p) \/ CallFails(p) \/ Kill(p)
  PROVE  Proceeds(p)
<1>1. CASE SuggestDone(p)
  <2>1. pc[p] = "next" /\ Goto(p, "idle") /\ NothingKept(p) /\ UNCHANGED alone
    BY <1>1 DEF SuggestDone
  <2> QED BY <2>1, LeavesProceeds
<1>2. CASE FillMapping(p)
  <2>1. PICK ok : ok = (Current(p).op = "wrap" \/ job[p].removed)
    OBVIOUS
  <2>2. pc[p] = "fill_mapping" /\ Ends(p, ok) /\ UNCHANGED files
    BY <1>2, <2>1, Zenon DEF FillMapping
  <2> QED BY <2>2, EndsProceeds
<1>3. CASE CallFails(p)
  <2>1. pc[p] \in Writing /\ Ends(p, FALSE) /\ UNCHANGED files
    BY <1>3, Zenon DEF CallFails, shared
  <2> QED BY <2>1, NotIdle, EndsProceeds
<1>4. CASE Kill(p)
  <2>1. pc[p] \in Writing /\ Goto(p, "idle") /\ NothingKept(p) /\ UNCHANGED alone
    BY <1>4 DEF Kill, Fails
  <2> QED BY <2>1, NotIdle, LeavesProceeds
<1>5. CASE NothingToCopy(p)
  <2>1. pc[p] \in {"back_up", "copy"} /\ Ends(p, FALSE) /\ UNCHANGED files
    BY <1>5, Zenon DEF NothingToCopy, shared
  <2> QED BY <2>1, EndsProceeds
<1> QED BY <1>1, <1>2, <1>3, <1>4, <1>5

LEMMA AloneNext == PlainFiles /\ SafeInv /\ AloneInv /\ [Next]_vars => AloneInv'
<1> SUFFICES ASSUME PlainFiles, SafeInv, AloneInv, [Next]_vars PROVE AloneInv'
  OBVIOUS
<1>1. ASSUME NEW p \in Processes, Run(p) \/ CallFails(p) \/ Kill(p)
      PROVE  AloneInv'
  <2>1. OthersStay(p)
    BY <1>1, StepAdvances DEF Advances
  <2>2. Begin(p) \/ Proceeds(p)
    BY <1>1, ResolveWrapProceeds, WritesProceed, RecordsProceed, UnwrapsProceed, ExitsProceed
       DEF Run
  <2> QED BY <2>1, <2>2, BeginIsAlone, ProceedsKeeps
<1>2. CASE UNCHANGED vars
  BY <1>2 DEF vars, shared, ghosts, AloneInv, IsAlone, Current
<1> QED BY <1>1, <1>2 DEF Next

LEMMA AloneInit == Init => AloneInv
  BY DEF Init, AloneInv, IsAlone

\* A command without --force that is alone changes no file that it found,
\* whatever was wrapped, unwrapped or broken off before.
THEOREM UnforcedKeepsFilesHolds ==
  ASSUME PlainFiles
  PROVE  Spec => UnforcedKeepsFiles
<1>1. Init => SafeInv /\ AloneInv
  BY SafeInit, AloneInit
<1>2. SafeInv /\ AloneInv /\ [Next]_vars => SafeInv' /\ AloneInv'
  BY SafeNext, AloneNext
<1>3. AloneInv =>
        \A p \in Processes :
          pc[p] = "fill" /\ alone[p] /\ ~Current(p).force =>
            job[p].target \notin DOMAIN start[p].files
  BY DEF AloneInv, IsAlone
<1>4. AloneInv /\ [Next]_vars =>
        [ \A p \in Processes :
            pc[p] = "fill" /\ alone[p] /\ ~Current(p).force
            => job[p].target \notin DOMAIN start[p].files ]_vars
  BY <1>3
<1> QED BY <1>1, <1>2, <1>4, PTL DEF Spec, UnforcedKeepsFiles

-----------------------------------------------------------------------------
(* The records of the jobs after a step.                                   *)

LEMMA WrapTakesFacts ==
  ASSUME Shapes, NEW p \in Processes, NEW entry, NEW target, WrapTakes(p, entry, target)
  PROVE  /\ job'[p].command = job[p].command /\ job'[p].queue = job[p].queue
         /\ job'[p].source = entry /\ job'[p].target = target /\ job'[p].backup = job[p].backup
         /\ pc'[p] = IF Current(p).override /\ target \in DOMAIN files THEN "back_up" ELSE "cut"
<1>1. PICK label : label = IF Current(p).override /\ target \in DOMAIN files THEN "back_up" ELSE "cut"
  OBVIOUS
<1>2. PICK r : r = [job[p] EXCEPT !.source = entry, !.target = target]
  OBVIOUS
<1>3. Goto(p, label) /\ Set(p, r)
  BY <1>1, <1>2, Zenon DEF WrapTakes
<1>4. IsJob(job[p])
  BY DEF Shapes
<1>5. r = Job(job[p].command, job[p].queue, entry, target, job[p].backup, job[p].store,
              job[p].removed)
  BY <1>2, <1>4, SourceAndTarget, Zenon
<1>6. IsJob(r) /\ r.command = job[p].command /\ r.queue = job[p].queue /\ r.source = entry
      /\ r.target = target /\ r.backup = job[p].backup
  BY <1>5 DEF IsJob, Job
<1>7. label \in Writing
  BY <1>1, AllLabels
<1>8. job'[p] = r /\ pc'[p] = label
  BY <1>3, <1>6, <1>7, SetFacts, GotoFacts
<1> QED BY <1>1, <1>6, <1>8

LEMMA BackUpFacts ==
  ASSUME Shapes, NEW p \in Processes, BackUp(p)
  PROVE  /\ job'[p].command = job[p].command /\ job'[p].queue = job[p].queue
         /\ job'[p].source = job[p].source /\ job'[p].target = job[p].target
         /\ job'[p].backup = <<clock', job[p].target>> /\ pc'[p] = "copy"
<1>1. PICK key : key = <<clock', job[p].target>>
  OBVIOUS
<1>2. PICK r : r = [job[p] EXCEPT !.backup = key]
  OBVIOUS
<1>3. Goto(p, "copy") /\ Set(p, r)
  BY <1>1, <1>2, Zenon DEF BackUp
<1>4. IsJob(job[p])
  BY DEF Shapes
<1>5. r = Job(job[p].command, job[p].queue, job[p].source, job[p].target, key, job[p].store,
              job[p].removed)
  BY <1>2, <1>4, OneField, Zenon
<1>6. IsJob(r) /\ r.command = job[p].command /\ r.queue = job[p].queue /\ r.backup = key
      /\ r.source = job[p].source /\ r.target = job[p].target
  BY <1>5 DEF IsJob, Job
<1>7. job'[p] = r /\ pc'[p] = "copy"
  BY <1>3, <1>6, AllLabels, SetFacts, GotoFacts
<1> QED BY <1>1, <1>6, <1>7

LEMMA LoadForWrapFacts ==
  ASSUME Shapes, NEW p \in Processes, LoadForWrap(p), ~Ends(p, FALSE)
  PROVE  /\ job'[p].command = job[p].command /\ job'[p].queue = job[p].queue
         /\ job'[p].source = job[p].source /\ job'[p].target = job[p].target
         /\ job'[p].backup = job[p].backup /\ pc'[p] = "cut_mapping"
         /\ job'[p].store = Put(mapping, Key2(p),
              MappingEntry(job[p].target, Current(p).override, job[p].backup))
<1>1. PICK store : store = Put(mapping, Key2(p),
              MappingEntry(job[p].target, Current(p).override, job[p].backup))
  OBVIOUS
<1>2. PICK r : r = [job[p] EXCEPT !.store = store]
  OBVIOUS
<1>3. Goto(p, "cut_mapping") /\ Set(p, r)
  BY <1>1, <1>2, Zenon DEF LoadForWrap
<1>4. IsJob(job[p])
  BY DEF Shapes
<1>5. r = Job(job[p].command, job[p].queue, job[p].source, job[p].target, job[p].backup, store,
              job[p].removed)
  BY <1>2, <1>4, OneField, Zenon
<1>6. IsJob(r) /\ r.command = job[p].command /\ r.queue = job[p].queue
      /\ r.source = job[p].source /\ r.target = job[p].target /\ r.backup = job[p].backup
      /\ r.store = store
  BY <1>5 DEF IsJob, Job
<1>7. job'[p] = r /\ pc'[p] = "cut_mapping"
  BY <1>3, <1>6, AllLabels, SetFacts, GotoFacts
<1> QED BY <1>1, <1>6, <1>7

LEMMA LoadForUnwrapFacts ==
  ASSUME Shapes, NEW p \in Processes, LoadForUnwrap(p), ~Ends(p, FALSE)
  PROVE  /\ job'[p].command = job[p].command /\ job'[p].queue = job[p].queue
         /\ job'[p].target = IF Current(p).override THEN Current(p).id
                             ELSE wrapper_desktop_id(Current(p).id, Current(p).class)
         /\ job'[p].store = mapping /\ pc'[p] = "undo"
<1>1. PICK target : target = IF Current(p).override THEN Current(p).id
                             ELSE wrapper_desktop_id(Current(p).id, Current(p).class)
  OBVIOUS
<1>2. PICK r : r = [job[p] EXCEPT !.target = target, !.store = mapping]
  OBVIOUS
<1>3. Goto(p, "undo") /\ Set(p, r)
  BY <1>1, <1>2, Zenon DEF LoadForUnwrap
<1>4. IsJob(job[p])
  BY DEF Shapes
<1>5. r = Job(job[p].command, job[p].queue, job[p].source, target, job[p].backup, mapping,
              job[p].removed)
  BY <1>2, <1>4, TargetAndStore, Zenon
<1>6. IsJob(r) /\ r.command = job[p].command /\ r.queue = job[p].queue /\ r.target = target
      /\ r.store = mapping
  BY <1>5 DEF IsJob, Job
<1>7. job'[p] = r /\ pc'[p] = "undo"
  BY <1>3, <1>6, AllLabels, SetFacts, GotoFacts
<1> QED BY <1>1, <1>6, <1>7

LEMMA UndoesFacts ==
  ASSUME Shapes, NEW p \in Processes, Restore(p) \/ RemoveFile(p)
  PROVE  /\ job'[p].command = job[p].command /\ job'[p].queue = job[p].queue
         /\ job'[p].target = job[p].target
         /\ job'[p].store = Without(job[p].store, Key2(p)) /\ pc'[p] = "cut_mapping"
<1>1. PICK store : store = Without(job[p].store, Key2(p))
  OBVIOUS
<1>2. PICK gone : gone = (job[p].target \in DOMAIN files)
  OBVIOUS
<1>3. \E flag : Set(p, [job[p] EXCEPT !.removed = flag, !.store = Without(@, Key2(p))])
  <2>1. CASE Restore(p)
    BY <2>1, Zenon DEF Restore
  <2>2. CASE RemoveFile(p)
    <3>1. Set(p, [job[p] EXCEPT !.removed = gone, !.store = Without(@, Key2(p))])
      BY <1>2, <2>2, Zenon DEF RemoveFile
    <3> QED BY <3>1, Zenon
  <2> QED BY <2>1, <2>2
<1>4. PICK flag : Set(p, [job[p] EXCEPT !.removed = flag, !.store = Without(@, Key2(p))])
  BY <1>3, Zenon
<1>5. PICK r : r = [job[p] EXCEPT !.removed = flag, !.store = store]
  OBVIOUS
<1>6. Set(p, r) /\ Goto(p, "cut_mapping")
  BY <1>1, <1>4, <1>5, Zenon DEF Restore, RemoveFile
<1>7. IsJob(job[p])
  BY DEF Shapes
<1>8. r = Job(job[p].command, job[p].queue, job[p].source, job[p].target, job[p].backup, store, flag)
  BY <1>5, <1>7, RemovedAndStore, Zenon
<1>9. IsJob(r) /\ r.command = job[p].command /\ r.queue = job[p].queue
       /\ r.target = job[p].target /\ r.store = store
  BY <1>8 DEF IsJob, Job
<1>10. job'[p] = r /\ pc'[p] = "cut_mapping"
  BY <1>6, <1>9, AllLabels, SetFacts, GotoFacts
<1> QED BY <1>1, <1>9, <1>10

-----------------------------------------------------------------------------
(* Functions that differ at one place.                                     *)

IsFun(f) == f = [x \in DOMAIN f |-> f[x]]
ChangedAt(f, g, x) ==
  DOMAIN f = DOMAIN g \cup {x} /\ \A y \in DOMAIN g \ {x} : f[y] = g[y]

LEMMA PutIsFun ==
  ASSUME NEW f, NEW x, NEW value
  PROVE  IsFun(Put(f, x, value)) /\ ChangedAt(Put(f, x, value), f, x) /\ Put(f, x, value)[x] = value
  BY DEF IsFun, Put, ChangedAt

LEMMA WithoutIsFun ==
  ASSUME NEW f, NEW x
  PROVE  IsFun(Without(f, x))
  BY DEF IsFun, Without

LEMMA ExceptIsFun ==
  ASSUME NEW f, IsFun(f), NEW x, NEW value
  PROVE  LET g == [f EXCEPT ![x] = value] IN
         /\ IsFun(g) /\ DOMAIN g = DOMAIN f /\ \A y \in DOMAIN f \ {x} : g[y] = f[y]
         /\ x \in DOMAIN f => g[x] = value
  BY DEF IsFun

LEMMA TakenOut ==
  ASSUME NEW f, NEW g, IsFun(g), NEW x, ChangedAt(f, g, x), x \notin DOMAIN g
  PROVE  Without(f, x) = g
<1>1. DOMAIN Without(f, x) = DOMAIN g /\ \A y \in DOMAIN g : Without(f, x)[y] = g[y]
  BY DEF Without, ChangedAt
<1>2. IsFun(Without(f, x))
  BY WithoutIsFun
<1> QED BY <1>1, <1>2 DEF IsFun

LEMMA PutBack ==
  ASSUME NEW f, IsFun(f), NEW g, IsFun(g), NEW x, ChangedAt(f, g, x), x \in DOMAIN g
  PROVE  [f EXCEPT ![x] = g[x]] = g
<1> DEFINE h == [f EXCEPT ![x] = g[x]]
<1>1. DOMAIN h = DOMAIN g /\ \A y \in DOMAIN g : h[y] = g[y]
  BY ExceptIsFun DEF ChangedAt
<1>2. IsFun(h)
  BY ExceptIsFun
<1> HIDE DEF h
<1>3. h = g
  BY <1>1, <1>2 DEF IsFun
<1> QED BY <1>3 DEF h

-----------------------------------------------------------------------------
(* The round trip of a wrap and its unwrap.                                *)

Functions ==
  /\ IsFun(files) /\ IsFun(mapping)
  /\ \A p \in Processes :
       /\ pc[p] # "idle" => IsFun(start[p].files) /\ IsFun(start[p].mapping)
       /\ pc[p] \in {"undo", "restore", "cut_mapping", "fill_mapping"} => IsFun(job[p].store)

\* A backup that has what a file was, if an override has replaced one.
BackedUp(backup, override, was, id) ==
  IF override /\ id \in DOMAIN was
  THEN backup # NoKey /\ backup \in DOMAIN backups /\ backups[backup] = was[id]
  ELSE backup = NoKey

\* A wrap that is alone has changed what it found at most at its own place.
WrapsAlone(p) ==
  pc[p] # "idle" /\ alone[p] /\ job[p].command.op = "wrap" =>
    /\ mapping = start[p].mapping
    /\ pc[p] \in {"next", "back_up", "copy", "cut"} => files = start[p].files
    /\ pc[p] \in {"fill", "load", "cut_mapping", "fill_mapping"} =>
         ChangedAt(files, start[p].files, job[p].target)
    /\ pc[p] \in {"back_up", "copy"} => job[p].target \in DOMAIN start[p].files
    /\ pc[p] = "copy" => job[p].backup # NoKey
    /\ pc[p] \in {"cut", "fill", "load", "cut_mapping", "fill_mapping"} =>
         BackedUp(job[p].backup, Current(p).override, start[p].files, job[p].target)
    /\ pc[p] \in {"cut_mapping", "fill_mapping"} =>
         /\ job[p].target = WrapTarget(Current(p), job[p].source)
         /\ job[p].store = Put(start[p].mapping, Key2(p),
              MappingEntry(job[p].target, Current(p).override, job[p].backup))

TripTarget == IF trip.override THEN trip.id ELSE wrapper_desktop_id(trip.id, trip.class)
TripKey == <<trip.id, trip.class>>

\* The wrap of the trip is in force.
Wrapped ==
  /\ ChangedAt(files, trip.files, TripTarget)
  /\ ChangedAt(mapping, trip.mapping, TripKey) /\ TripKey \notin DOMAIN trip.mapping
  /\ BackedUp(mapping[TripKey].backup, trip.override, trip.files, TripTarget)
  /\ ~trip.override => TripTarget \notin DOMAIN trip.files

\* p is on the way back.
Returns(p) ==
  /\ job[p].command.op = "unwrap" /\ job[p].command.id = trip.id
  /\ job[p].command.class = trip.class /\ job[p].command.override = trip.override
  /\ pc[p] \in {"next", "undo", "restore"} => Wrapped
  /\ pc[p] \in {"undo", "restore"} => job[p].store = mapping
  /\ pc[p] \in {"cut_mapping", "fill_mapping"} =>
       files = trip.files /\ job[p].store = trip.mapping

TripInv ==
  trip # NoKey =>
    /\ IsFun(trip.files) /\ IsFun(trip.mapping)
    /\ Working = {} => Wrapped
    /\ \A p \in Working : Working = {p} /\ Returns(p)

TripsInv == Functions /\ TripInv /\ \A p \in Processes : WrapsAlone(p)

\* Only the process that moves can be alone and at work after a step.
LEMMA OnlyMoverIsAlone ==
  ASSUME AloneInv, NEW p \in Processes, OthersStay(p), Begin(p) \/ Proceeds(p),
         NEW q \in Processes \ {p}, pc'[q] # "idle"
  PROVE  ~alone'[q]
<1>1. pc'[q] = pc[q] /\ IsAlone(q)
  BY DEF OthersStay, AloneInv
<1>2. CASE Begin(p)
  <2>1. PICK c : Begins(p, c)
    BY <1>2, Zenon DEF Begin
  <2>2. alone'[q] => q \notin Working
    BY <2>1 DEF Begins
  <2> QED BY <1>1, <2>2 DEF Working
<1>3. CASE Proceeds(p)
  BY <1>1, <1>3 DEF Proceeds, IsAlone
<1> QED BY <1>2, <1>3

LEMMA BeginFacts ==
  ASSUME SafeInv, AloneInv, NEW p \in Processes, Begin(p)
  PROVE  /\ pc[p] = "idle" /\ pc'[p] = "next" /\ UNCHANGED <<files, backups, mapping, faults>>
         /\ start'[p].files = files /\ start'[p].mapping = mapping
         /\ \A q \in Processes \ {p} : start'[q] = start[q]
         /\ Begins(p, job'[p].command)
<1>1. PICK c \in Commands :
        /\ Set(p, [NoJob EXCEPT
            !.command = c,
            !.queue = IF IsSuggest(c)
                      THEN LET plan == suggest(Scopes, Rules, Threshold, c.mode, Entries)
                           IN  [i \in DOMAIN plan |-> WrapOf(plan[i])]
                      ELSE <<c>>])
        /\ Begins(p, c)
  BY Zenon DEF Begin
<1>2. PICK queue : queue = IF IsSuggest(c)
                      THEN LET plan == suggest(Scopes, Rules, Threshold, c.mode, Entries)
                           IN  [i \in DOMAIN plan |-> WrapOf(plan[i])]
                      ELSE <<c>>
  OBVIOUS
<1>3. PICK r : r = [NoJob EXCEPT !.command = c, !.queue = queue]
  OBVIOUS
<1>4. Set(p, r)
  BY <1>1, <1>2, <1>3, Zenon
<1>5. IsJob(NoJob)
  BY DEF IsJob, Job, NoJob
<1>6. r = Job(c, queue, NoJob.source, NoJob.target, NoJob.backup, NoJob.store, NoJob.removed)
  BY <1>3, <1>5, CommandAndQueue, Zenon
<1>7. IsJob(r) /\ r.command = c
  BY <1>6 DEF IsJob, Job
<1>8. job'[p] = r
  BY <1>4, <1>7, SetFacts DEF SafeInv
<1>9. pc[p] = "idle" /\ Goto(p, "next") /\ UNCHANGED <<files, backups, mapping, faults>>
  BY Zenon DEF Begin, shared
<1>10. pc'[p] = "next"
  BY <1>9, GotoFacts DEF SafeInv
<1>11. /\ start'[p].files = files /\ start'[p].mapping = mapping
       /\ \A q \in Processes \ {p} : start'[q] = start[q]
  BY <1>1 DEF Begins, AloneInv
<1>12. Begins(p, job'[p].command)
  BY <1>1, <1>7, <1>8
<1> QED BY <1>9, <1>10, <1>11, <1>12

LEMMA EndsIdle ==
  ASSUME Shapes, NEW p \in Processes, NEW ok, Ends(p, ok), job[p].command.op # "suggest"
  PROVE  pc'[p] = "idle" /\ (ok = FALSE => trip' = NoKey) /\ trip' \in {NoKey, RoundTrip(p)}
<1>1. pc'[p] = "idle"
  BY EndsFacts DEF IsSuggest
<1>2. IF ok THEN Succeeds(p) ELSE Fails(p)
  BY Zenon DEF Ends, IsSuggest
<1>3. trip' = NoKey \/ (ok /\ trip' = RoundTrip(p))
  BY <1>2, Zenon DEF Succeeds, Fails
<1> QED BY <1>1, <1>3

-----------------------------------------------------------------------------
(* A wrap that is alone.                                                   *)

LEMMA WrapsAloneBegins ==
  ASSUME SafeInv, AloneInv, NEW p \in Processes, Begin(p)
  PROVE  WrapsAlone(p)'
  BY BeginFacts DEF WrapsAlone

LEMMA WrapsAloneStep ==
  ASSUME SafeInv, AloneInv, NEW p \in Processes, WrapsAlone(p), Proceeds(p),
         Run(p) \/ CallFails(p) \/ Kill(p), ~Begin(p)
  PROVE  WrapsAlone(p)'
<1> SUFFICES ASSUME pc'[p] # "idle", alone'[p], job'[p].command.op = "wrap"
             PROVE  WrapsAlone(p)'
  BY DEF WrapsAlone
<1>1. /\ pc[p] # "idle" /\ alone[p] /\ job[p].command.op = "wrap" /\ start'[p] = start[p]
      /\ job'[p].command = job[p].command
  BY DEF Proceeds
<1>2. Shapes /\ IsAlone(p) /\ WorksSafely(p)
  BY DEF SafeInv, AloneInv
<1>3. /\ mapping = start[p].mapping
      /\ pc[p] \in {"next", "back_up", "copy", "cut"} => files = start[p].files
      /\ pc[p] \in {"fill", "load", "cut_mapping", "fill_mapping"} =>
           ChangedAt(files, start[p].files, job[p].target)
      /\ pc[p] \in {"back_up", "copy"} => job[p].target \in DOMAIN start[p].files
      /\ pc[p] = "copy" => job[p].backup # NoKey
      /\ pc[p] \in {"cut", "fill", "load", "cut_mapping", "fill_mapping"} =>
           BackedUp(job[p].backup, Current(p).override, start[p].files, job[p].target)
      /\ pc[p] \in {"cut_mapping", "fill_mapping"} =>
           /\ job[p].target = WrapTarget(Current(p), job[p].source)
           /\ job[p].store = Put(start[p].mapping, Key2(p),
                MappingEntry(job[p].target, Current(p).override, job[p].backup))
  BY <1>1 DEF WrapsAlone
<1>4. \A ok : ~Ends(p, ok)
  BY <1>1, <1>2, EndsIdle
<1>5. pc[p] \notin {"undo", "restore"}
  BY <1>1, <1>2 DEF IsAlone
<1>6. CASE ResolveWrap(p)
  <2> DEFINE entry == resolve_desktop_id(Current(p).id, Entries).entry
             place == WrapTarget(Current(p), entry)
  <2>1. pc[p] = "next" /\ UNCHANGED <<mapping, files>> /\ WrapTakes(p, entry, place)
    BY <1>4, <1>6, Zenon DEF ResolveWrap, shared
  <2>2. PICK target : target = place
    OBVIOUS
  <2>3. /\ job'[p].queue = job[p].queue /\ job'[p].target = target
        /\ job'[p].backup = job[p].backup
        /\ pc'[p] = IF Current(p).override /\ target \in DOMAIN files THEN "back_up" ELSE "cut"
    BY <1>2, <2>1, <2>2, WrapTakesFacts
  <2>4. Current(p)' = Current(p)
    BY <2>3 DEF Current
  <2>5. job[p].backup = NoKey
    BY <1>2, <2>1 DEF WorksSafely, BackupIsOwn
  <2>6. pc'[p] \in {"back_up", "cut"}
    BY <2>3, Zenon
  <2>7. pc'[p] = "cut" => BackedUp(NoKey, Current(p).override, files, target)'
    BY <2>1, <2>3, <2>4 DEF BackedUp
  <2>8. pc'[p] = "back_up" => target \in DOMAIN files
    BY <2>3
  <2>9. pc'[p] = "cut" =>
          BackedUp(job[p].backup, Current(p).override, start[p].files, job[p].target)'
    BY <1>1, <1>3, <2>1, <2>3, <2>5, <2>7 DEF BackedUp
  <2> QED BY <1>1, <1>3, <2>1, <2>3, <2>6, <2>8, <2>9 DEF WrapsAlone
<1>7. CASE BackUp(p)
  <2>1. pc[p] = "back_up" /\ UNCHANGED <<mapping, files>>
    BY <1>7 DEF BackUp
  <2>2. /\ job'[p].target = job[p].target /\ job'[p].backup = <<clock', job[p].target>>
        /\ pc'[p] = "copy"
    BY <1>2, <1>7, BackUpFacts
  <2>3. job'[p].backup # NoKey
    BY <2>2 DEF NoKey
  <2> QED BY <1>1, <1>3, <2>1, <2>2, <2>3 DEF WrapsAlone
<1>8. CASE Copy(p)
  <2>1. /\ pc[p] = "copy" /\ UNCHANGED <<mapping, files, job>> /\ Goto(p, "cut")
        /\ backups' = [backups EXCEPT ![job[p].backup] = files[job[p].target]]
    BY <1>8 DEF Copy
  <2>2. pc'[p] = "cut"
    BY <1>2, <2>1, AllLabels, GotoFacts
  <2>3. job[p].backup \in DOMAIN backups
    BY <1>2, <2>1 DEF WorksSafely, BackupIsOwn
  <2>4. backups'[job[p].backup] = files[job[p].target] /\ job[p].backup \in DOMAIN backups'
    BY <2>1, <2>3
  <2>5. Current(p)' = Current(p) /\ Current(p).override
    BY <1>2, <2>1 DEF Current, WorksSafely, WrapsSafely
  <2>6. BackedUp(job[p].backup, Current(p).override, start[p].files, job[p].target)'
    BY <1>1, <1>3, <2>1, <2>4, <2>5 DEF BackedUp
  <2> QED BY <1>1, <1>3, <2>1, <2>2, <2>6 DEF WrapsAlone
<1>9. CASE Cut(p)
  <2>1. /\ pc[p] = "cut" /\ UNCHANGED <<mapping, backups, job>> /\ Goto(p, "fill")
        /\ files' = Put(files, job[p].target, Torn)
    BY <1>9 DEF Cut
  <2>2. pc'[p] = "fill"
    BY <1>2, <2>1, AllLabels, GotoFacts
  <2>3. ChangedAt(files', files, job[p].target)
    BY <2>1, PutIsFun
  <2>4. BackedUp(job[p].backup, Current(p).override, start[p].files, job[p].target)'
    BY <1>1, <1>3, <2>1 DEF BackedUp, Current
  <2> QED BY <1>1, <1>3, <2>1, <2>2, <2>3, <2>4 DEF WrapsAlone
<1>10. CASE Fill(p)
  <2>1. PICK content : files' = Filled(job[p].target, content)
    BY <1>10, Zenon DEF Fill
  <2>2. pc[p] = "fill" /\ UNCHANGED <<mapping, backups, job>> /\ Goto(p, "load")
    BY <1>10 DEF Fill
  <2>3. pc'[p] = "load"
    BY <1>2, <2>2, AllLabels, GotoFacts
  <2>4. ChangedAt(files', start[p].files, job[p].target)
    BY <1>3, <2>1, <2>2 DEF Filled, ChangedAt
  <2>5. BackedUp(job[p].backup, Current(p).override, start[p].files, job[p].target)'
    BY <1>1, <1>3, <2>2 DEF BackedUp, Current
  <2> QED BY <1>1, <1>3, <2>2, <2>3, <2>4, <2>5 DEF WrapsAlone
<1>11. CASE LoadForWrap(p)
  <2>1. pc[p] = "load" /\ UNCHANGED <<mapping, backups, files>>
    BY <1>11, Zenon DEF LoadForWrap, shared
  <2>2. ~Ends(p, FALSE)
    BY <1>4
  <2>3. /\ job'[p].queue = job[p].queue /\ job'[p].source = job[p].source
        /\ job'[p].target = job[p].target /\ job'[p].backup = job[p].backup
        /\ pc'[p] = "cut_mapping"
        /\ job'[p].store = Put(mapping, Key2(p),
             MappingEntry(job[p].target, Current(p).override, job[p].backup))
    BY <1>2, <1>11, <2>2, LoadForWrapFacts
  <2>4. Current(p)' = Current(p) /\ Key2(p)' = Key2(p)
    BY <2>3 DEF Current, Key2
  <2>5. job[p].target = WrapTarget(Current(p), job[p].source)
    BY <1>2, <2>1 DEF WorksSafely, WrapsSafely
  <2>6. (job[p].target = WrapTarget(Current(p), job[p].source))'
    BY <2>3, <2>4, <2>5 DEF WrapTarget
  <2>7. BackedUp(job[p].backup, Current(p).override, start[p].files, job[p].target)'
    BY <1>1, <1>3, <2>1, <2>3, <2>4 DEF BackedUp
  <2>8. job'[p].store = Put(start'[p].mapping, Key2(p)',
          MappingEntry(job'[p].target, Current(p)'.override, job'[p].backup))
    BY <1>1, <1>3, <2>3, <2>4
  <2> QED BY <1>1, <1>3, <2>1, <2>3, <2>6, <2>7, <2>8 DEF WrapsAlone
<1>12. CASE CutMapping(p)
  <2>1. /\ pc[p] = "cut_mapping" /\ UNCHANGED <<mapping, backups, files, job>>
        /\ Goto(p, "fill_mapping")
    BY <1>12 DEF CutMapping
  <2>2. pc'[p] = "fill_mapping"
    BY <1>2, <2>1, AllLabels, GotoFacts
  <2>3. Current(p)' = Current(p) /\ Key2(p)' = Key2(p)
    BY <2>1 DEF Current, Key2
  <2>4. (job[p].target = WrapTarget(Current(p), job[p].source))'
    BY <1>3, <2>1, <2>3 DEF WrapTarget
  <2>5. BackedUp(job[p].backup, Current(p).override, start[p].files, job[p].target)'
    BY <1>1, <1>3, <2>1, <2>3 DEF BackedUp
  <2>6. job'[p].store = Put(start'[p].mapping, Key2(p)',
          MappingEntry(job'[p].target, Current(p)'.override, job'[p].backup))
    BY <1>1, <1>3, <2>1, <2>3
  <2> QED BY <1>1, <1>3, <2>1, <2>2, <2>4, <2>5, <2>6 DEF WrapsAlone
<1>13. ~ (SuggestDone(p) \/ FillMapping(p) \/ NothingToCopy(p) \/ CallFails(p) \/ Kill(p))
  <2>1. SuggestDone(p) \/ Kill(p) => Goto(p, "idle")
    BY DEF SuggestDone, Kill
  <2>2. ~ (SuggestDone(p) \/ Kill(p))
    BY <1>2, <2>1, GotoFacts
  <2>3. FillMapping(p) \/ NothingToCopy(p) \/ CallFails(p) => \E ok : Ends(p, ok)
    BY Zenon DEF FillMapping, NothingToCopy, CallFails
  <2> QED BY <1>4, <2>2, <2>3, Zenon
<1>14. ~ (LoadForUnwrap(p) \/ RestoreCut(p) \/ Restore(p) \/ RemoveFile(p))
  BY <1>1, <1>5 DEF LoadForUnwrap, RestoreCut, Restore, RemoveFile
<1> QED BY <1>6, <1>7, <1>8, <1>9, <1>10, <1>11, <1>12, <1>13, <1>14 DEF Run

-----------------------------------------------------------------------------
(* What is a function stays one.                                           *)

LEMMA FilesAreFunctions ==
  ASSUME IsFun(files), NEW p \in Processes, Run(p) \/ CallFails(p) \/ Kill(p)
  PROVE  IsFun(files')
<1>1. CASE UNCHANGED files
  BY <1>1
<1>2. CASE Cut(p) \/ Fill(p) \/ RestoreCut(p) \/ Restore(p) \/ RemoveFile(p)
  <2>1. \E new : files' \in {Put(files, job[p].target, new), Filled(job[p].target, new),
                             Without(files, job[p].target)}
    BY <1>2, Zenon DEF Cut, Fill, RestoreCut, Restore, RemoveFile
  <2>2. PICK new : files' \in {Put(files, job[p].target, new), Filled(job[p].target, new),
                               Without(files, job[p].target)}
    BY <2>1
  <2>3. IsFun(Filled(job[p].target, new))
    BY ExceptIsFun DEF Filled
  <2> QED BY <2>2, <2>3, PutIsFun, WithoutIsFun
<1> QED BY <1>1, <1>2, StepKeepsFiles

LEMMA StoreIsFunction ==
  ASSUME SafeInv, Functions, NEW p \in Processes, Run(p) \/ CallFails(p) \/ Kill(p),
         pc'[p] \in {"undo", "restore", "cut_mapping", "fill_mapping"}
  PROVE  IsFun(job'[p].store)
<1>1. Shapes
  BY DEF SafeInv
<1>2. \A ok : ~Ends(p, ok)
  BY <1>1, EndsFacts
<1>3. CASE LoadForWrap(p)
  <2>1. ~Ends(p, FALSE)
    BY <1>2
  <2>2. \E entry : job'[p].store = Put(mapping, Key2(p), entry)
    BY <1>1, <1>3, <2>1, LoadForWrapFacts, Zenon
  <2> QED BY <2>2, PutIsFun
<1>4. CASE LoadForUnwrap(p)
  <2>1. ~Ends(p, FALSE)
    BY <1>2
  <2> QED BY <1>1, <1>4, <2>1, LoadForUnwrapFacts DEF Functions
<1>5. CASE Restore(p) \/ RemoveFile(p)
  BY <1>1, <1>5, UndoesFacts, WithoutIsFun
<1>6. CASE RestoreCut(p) \/ CutMapping(p)
  <2>1. pc[p] \in {"undo", "cut_mapping"} /\ UNCHANGED job
    BY <1>6 DEF RestoreCut, CutMapping
  <2> QED BY <2>1 DEF Functions
<1>7. ~ (FillMapping(p) \/ NothingToCopy(p) \/ CallFails(p))
  <2>1. FillMapping(p) \/ NothingToCopy(p) \/ CallFails(p) => \E ok : Ends(p, ok)
    BY Zenon DEF FillMapping, NothingToCopy, CallFails
  <2> QED BY <1>2, <2>1, Zenon
<1>8. ~ (Begin(p) \/ SuggestDone(p) \/ Kill(p) \/ BackUp(p) \/ Copy(p) \/ Cut(p) \/ Fill(p))
  <2>1. Begin(p) \/ SuggestDone(p) \/ Kill(p) \/ BackUp(p) \/ Copy(p) \/ Cut(p) \/ Fill(p) =>
          \E label \in {"next", "idle", "copy", "fill", "load", "cut"} : Goto(p, label)
    BY Zenon DEF Begin, SuggestDone, Kill, BackUp, Copy, Cut, Fill
  <2>2. \A label \in {"next", "idle", "copy", "fill", "load", "cut"} : Goto(p, label) => pc'[p] = label
    BY <1>1, AllLabels, GotoFacts
  <2> QED BY <2>1, <2>2
<1>9. ~ResolveWrap(p)
  <2>1. ResolveWrap(p) => \E entry, target : WrapTakes(p, entry, target)
    BY <1>2, Zenon DEF ResolveWrap
  <2>2. \A entry, target : WrapTakes(p, entry, target) => pc'[p] \in {"back_up", "cut"}
    BY <1>1, WrapTakesFacts
  <2> QED BY <2>1, <2>2
<1> QED BY <1>3, <1>4, <1>5, <1>6, <1>7, <1>8, <1>9 DEF Run

LEMMA StepKeepsMapping ==
  ASSUME NEW p \in Processes, Run(p) \/ CallFails(p) \/ Kill(p)
  PROVE  UNCHANGED mapping \/ (pc[p] = "fill_mapping" /\ mapping' = job[p].store)
<1>1. Begin(p) \/ ResolveWrap(p) \/ SuggestDone(p) \/ LoadForWrap(p) \/ LoadForUnwrap(p)
      \/ NothingToCopy(p) \/ CallFails(p) \/ Kill(p) => UNCHANGED mapping
  BY Zenon DEF Begin, ResolveWrap, SuggestDone, LoadForWrap, LoadForUnwrap, NothingToCopy, CallFails,
     Kill, shared
<1>2. BackUp(p) \/ Copy(p) \/ Cut(p) \/ Fill(p) \/ RestoreCut(p) \/ Restore(p) \/ RemoveFile(p)
      \/ CutMapping(p) => UNCHANGED mapping
  BY Zenon DEF BackUp, Copy, Cut, Fill, RestoreCut, Restore, RemoveFile, CutMapping
<1>3. FillMapping(p) => pc[p] = "fill_mapping" /\ mapping' = job[p].store
  BY Zenon DEF FillMapping
<1> QED BY <1>1, <1>2, <1>3, Zenon DEF Run

LEMMA FunctionsStep ==
  ASSUME SafeInv, AloneInv, Functions, NEW p \in Processes, Run(p) \/ CallFails(p) \/ Kill(p),
         Begin(p) \/ Proceeds(p), OthersStay(p)
  PROVE  Functions'
<1>1. IsFun(files') /\ IsFun(mapping')
  BY FilesAreFunctions, StepKeepsMapping DEF Functions
<1>2. ASSUME NEW q \in Processes, pc'[q] # "idle"
      PROVE  IsFun(start'[q].files) /\ IsFun(start'[q].mapping)
  <2>1. CASE q # p
    <3>1. start'[q] = start[q] /\ pc'[q] = pc[q]
      BY <2>1, BeginFacts DEF Proceeds, OthersStay
    <3> QED BY <1>2, <3>1 DEF Functions
  <2>2. CASE q = p /\ Begin(p)
    BY <2>2, BeginFacts DEF Functions
  <2>3. CASE q = p /\ Proceeds(p)
    BY <1>2, <2>3 DEF Proceeds, Functions
  <2> QED BY <2>1, <2>2, <2>3
<1>3. ASSUME NEW q \in Processes, pc'[q] \in {"undo", "restore", "cut_mapping", "fill_mapping"}
      PROVE  IsFun(job'[q].store)
  <2>1. CASE q = p
    BY <1>3, <2>1, StoreIsFunction
  <2>2. CASE q # p
    BY <1>3, <2>2 DEF OthersStay, Functions
  <2> QED BY <2>1, <2>2
<1> QED BY <1>1, <1>2, <1>3 DEF Functions

-----------------------------------------------------------------------------
(* There and back.                                                         *)

\* The exit of a wrap that is alone starts a trip.
LEMMA TripStarts ==
  ASSUME SafeInv, AloneInv, Functions, NEW p \in Processes, WrapsAlone(p), OthersStay(p),
         FillMapping(p), trip' = RoundTrip(p), trip' # NoKey
  PROVE  TripInv'
<1>1. /\ ~IsSuggest(job[p].command) /\ Current(p).op = "wrap" /\ alone[p]
      /\ <<job[p].source.id, Current(p).class>> \notin DOMAIN start[p].mapping
      /\ Current(p).override \/ job[p].target \notin DOMAIN start[p].files
      /\ trip' = [id |-> job[p].source.id, class |-> Current(p).class,
                  override |-> Current(p).override,
                  files |-> start[p].files, mapping |-> start[p].mapping]
  BY Zenon DEF RoundTrip
<1>2. PICK ok : ok = (Current(p).op = "wrap" \/ job[p].removed)
  OBVIOUS
<1>3. /\ pc[p] = "fill_mapping" /\ mapping' = job[p].store /\ Ends(p, ok)
      /\ UNCHANGED <<files, backups>>
  BY <1>2, Zenon DEF FillMapping
<1>4. Current(p) = job[p].command
  BY <1>1, <1>3 DEF SafeInv, WorksSafely, Started, Current
<1>5. /\ ChangedAt(files, start[p].files, job[p].target)
      /\ BackedUp(job[p].backup, Current(p).override, start[p].files, job[p].target)
      /\ job[p].target = WrapTarget(Current(p), job[p].source)
      /\ job[p].store = Put(start[p].mapping, Key2(p),
           MappingEntry(job[p].target, Current(p).override, job[p].backup))
  BY <1>1, <1>3, <1>4 DEF WrapsAlone
<1>6. pc'[p] = "idle"
  <2>1. job[p].command.op # "suggest" /\ Shapes
    BY <1>1 DEF IsSuggest, SafeInv
  <2> QED BY <1>3, <2>1, EndsIdle
<1>7. Working' = {}
  <2>1. \A q \in Processes \ {p} : pc[q] = "idle"
    BY <1>1, <1>3 DEF AloneInv, IsAlone
  <2> QED BY <1>6, <2>1 DEF OthersStay, Working
<1>8. /\ trip'.id = job[p].source.id /\ trip'.class = Current(p).class
      /\ trip'.override = Current(p).override
      /\ trip'.files = start[p].files /\ trip'.mapping = start[p].mapping
  BY <1>1
<1>9. TripTarget' = job[p].target
  BY <1>5, <1>8 DEF TripTarget, WrapTarget
<1>10. TripKey' = Key2(p) /\ Key2(p) = <<job[p].source.id, Current(p).class>>
  BY <1>1, <1>8 DEF TripKey, Key2
<1>11. /\ ChangedAt(mapping', trip'.mapping, TripKey')
       /\ mapping'[TripKey'] = MappingEntry(job[p].target, Current(p).override, job[p].backup)
  BY <1>3, <1>5, <1>8, <1>10, PutIsFun
<1>12. mapping'[TripKey'].backup = job[p].backup
  BY <1>11 DEF MappingEntry
<1>13. BackedUp(mapping[TripKey].backup, trip.override, trip.files, TripTarget)'
  BY <1>3, <1>5, <1>8, <1>9, <1>12 DEF BackedUp
<1>14. Wrapped'
  BY <1>1, <1>3, <1>5, <1>8, <1>9, <1>10, <1>11, <1>13 DEF Wrapped
<1>15. IsFun(trip'.files) /\ IsFun(trip'.mapping)
  BY <1>3, <1>8 DEF Functions
<1> QED BY <1>7, <1>14, <1>15 DEF TripInv

\* A trip goes on only with its own unwrap.
LEMMA TripReturns ==
  ASSUME SafeInv, AloneInv, TripInv, NEW p \in Processes, Begin(p), OthersStay(p), trip' # NoKey
  PROVE  TripInv'
<1>1. PICK c : c = job'[p].command
  OBVIOUS
<1>2. /\ pc'[p] = "next" /\ UNCHANGED <<files, backups, mapping>> /\ Begins(p, c)
  BY <1>1, BeginFacts
<1>3. /\ trip' = trip /\ trip # NoKey /\ c.op = "unwrap" /\ Working = {}
      /\ trip.id = c.id /\ trip.class = c.class /\ trip.override = c.override
  BY <1>2, Zenon DEF Begins
<1>4. Working' = {p}
  BY <1>2, <1>3 DEF Working, OthersStay
<1>5. TripTarget' = TripTarget /\ TripKey' = TripKey
  BY <1>3 DEF TripTarget, TripKey
<1>6. Wrapped'
  BY <1>2, <1>3, <1>5 DEF TripInv, Wrapped, BackedUp
<1>7. Returns(p)'
  BY <1>1, <1>2, <1>3, <1>6 DEF Returns
<1> QED BY <1>3, <1>4, <1>7 DEF TripInv

\* What a process can do while it unwraps.
LEMMA UnwrapSteps ==
  ASSUME SafeInv, AloneInv, NEW p \in Processes, pc[p] # "idle", job[p].command.op = "unwrap",
         Run(p) \/ CallFails(p) \/ Kill(p)
  PROVE  \/ LoadForUnwrap(p) \/ RestoreCut(p) \/ Restore(p) \/ RemoveFile(p) \/ CutMapping(p)
         \/ FillMapping(p) \/ CallFails(p) \/ Kill(p)
<1>1. /\ job[p].queue = <<job[p].command>> /\ Current(p) = job[p].command
      /\ Current(p).op # "wrap" /\ WorksSafely(p)
  BY DEF SafeInv, WorksSafely, Started, IsSuggest, Current
<1>2. ~ResolveWrap(p)
  <2>1. ResolveWrap(p) => Current(p).op = "wrap"
    BY Zenon DEF ResolveWrap
  <2> QED BY <1>1, <2>1
<1>3. ~Begin(p)
  <2>1. Begin(p) => pc[p] = "idle"
    BY Zenon DEF Begin
  <2> QED BY <2>1
<1>4. ~SuggestDone(p)
  BY <1>1 DEF SuggestDone
<1>5. pc[p] \notin {"back_up", "copy", "cut", "fill", "load"}
  BY <1>1 DEF WorksSafely, WrapsSafely
<1>6. BackUp(p) \/ Copy(p) \/ NothingToCopy(p) \/ Cut(p) \/ Fill(p) \/ LoadForWrap(p) =>
        pc[p] \in {"back_up", "copy", "cut", "fill", "load"}
  BY Zenon DEF BackUp, Copy, NothingToCopy, Cut, Fill, LoadForWrap
<1> QED BY <1>2, <1>3, <1>4, <1>5, <1>6 DEF Run

\* On its way back an unwrap goes on, or it ends and with it the trip.
LEMMA ReturnsOn ==
  ASSUME SafeInv, AloneInv, Functions, IsFun(trip.files), IsFun(trip.mapping),
         NEW p \in Processes, pc[p] # "idle", Returns(p), Run(p) \/ CallFails(p) \/ Kill(p)
  PROVE  \/ trip' = NoKey
         \/ trip' = trip /\ pc'[p] # "idle" /\ Returns(p)'
<1>1. Shapes /\ WorksSafely(p)
  BY DEF SafeInv
<1>2. /\ job[p].command.op = "unwrap" /\ job[p].command.id = trip.id
      /\ job[p].command.class = trip.class /\ job[p].command.override = trip.override
  BY DEF Returns
<1>3. Current(p) = job[p].command
  BY <1>1, <1>2 DEF WorksSafely, Started, IsSuggest, Current
<1>4. \A ok : Ends(p, ok) => trip' = NoKey
  <2> SUFFICES ASSUME NEW ok, Ends(p, ok) PROVE trip' = NoKey
    OBVIOUS
  <2>1. trip' \in {NoKey, RoundTrip(p)}
    BY <1>1, <1>2, EndsIdle
  <2>2. RoundTrip(p) = NoKey
    BY <1>2, <1>3 DEF RoundTrip
  <2> QED BY <2>1, <2>2
<1>5. trip' = trip => TripTarget' = TripTarget /\ TripKey' = TripKey
  BY DEF TripTarget, TripKey
<1>6. Key2(p) = TripKey
  BY <1>2, <1>3 DEF Key2, TripKey
<1>7. pc[p] \in {"undo", "restore"} => job[p].target = TripTarget
  <2>1. pc[p] \in {"undo", "restore"} =>
          job[p].target = IF Current(p).override THEN Current(p).id
                          ELSE wrapper_desktop_id(Current(p).id, Current(p).class)
    BY <1>1 DEF WorksSafely, UnwrapsSafely
  <2> HIDE DEF wrapper_desktop_id
  <2> QED BY <1>2, <1>3, <2>1 DEF TripTarget
<1>8. CASE LoadForUnwrap(p)
  <2>1. CASE Ends(p, FALSE)
    BY <1>4, <2>1
  <2>2. CASE ~Ends(p, FALSE)
    <3>1. /\ job'[p].command = job[p].command /\ job'[p].store = mapping /\ pc'[p] = "undo"
      BY <1>1, <1>8, <2>2, LoadForUnwrapFacts
    <3>2. pc[p] = "next" /\ UNCHANGED <<files, backups, mapping>> /\ Continues
      BY <1>8, <2>2, Zenon DEF LoadForUnwrap, shared
    <3>3. trip' = trip
      BY <3>2 DEF Continues, ghosts
    <3>4. Wrapped'
      BY <1>5, <3>2, <3>3 DEF Returns, Wrapped, BackedUp
    <3>5. Returns(p)'
      BY <1>2, <3>1, <3>2, <3>3, <3>4 DEF Returns
    <3> QED BY <3>1, <3>3, <3>5
  <2> QED BY <2>1, <2>2
<1>9. CASE RestoreCut(p)
  <2>1. /\ pc[p] = "undo" /\ files' = Put(files, job[p].target, Torn) /\ Goto(p, "restore")
        /\ UNCHANGED <<backups, mapping, job>> /\ Continues
    BY <1>9 DEF RestoreCut
  <2>2. pc'[p] = "restore" /\ trip' = trip
    BY <1>1, <2>1, AllLabels, GotoFacts DEF Continues, ghosts
  <2>3. ChangedAt(files', trip.files, TripTarget)
    <3>1. ChangedAt(files, trip.files, TripTarget) /\ ChangedAt(files', files, TripTarget)
      BY <1>7, <2>1, PutIsFun DEF Returns, Wrapped
    <3> QED BY <3>1 DEF ChangedAt
  <2>4. Wrapped'
    BY <1>5, <2>1, <2>2, <2>3 DEF Returns, Wrapped, BackedUp
  <2>5. Returns(p)'
    BY <1>2, <2>1, <2>2, <2>4 DEF Returns
  <2> QED BY <2>2, <2>5
<1>10. CASE Restore(p) \/ RemoveFile(p)
  <2>1. /\ job'[p].command = job[p].command /\ pc'[p] = "cut_mapping"
        /\ job'[p].store = Without(job[p].store, TripKey)
    BY <1>1, <1>6, <1>10, UndoesFacts
  <2>2. pc[p] \in {"undo", "restore"} /\ Continues
    BY <1>10, Zenon DEF Restore, RemoveFile
  <2>3. trip' = trip
    BY <2>2 DEF Continues, ghosts
  <2>4. Wrapped /\ job[p].store = mapping /\ job[p].target = TripTarget
    BY <1>7, <2>2 DEF Returns
  <2>5. job'[p].store = trip.mapping
    BY <2>1, <2>4, TakenOut DEF Wrapped
  <2>6. TripKey \in DOMAIN mapping
    BY <2>4 DEF Wrapped, ChangedAt
  <2>7. BackupToRestore(p) = IF trip.override /\ mapping[TripKey].backup \in DOMAIN backups
                             THEN mapping[TripKey].backup ELSE NoKey
    BY <1>2, <1>3, <1>6, <2>4, <2>6 DEF BackupToRestore
  <2>8. CASE Restore(p)
    <3>1. BackupToRestore(p) # NoKey /\ files' = Filled(TripTarget, backups[BackupToRestore(p)])
      BY <1>1, <2>4, <2>8 DEF Restore, WorksSafely, UnwrapsSafely
    <3>2. /\ TripTarget \in DOMAIN trip.files
          /\ backups[BackupToRestore(p)] = trip.files[TripTarget]
      BY <2>4, <2>7, <3>1 DEF Wrapped, BackedUp
    <3>3. TripTarget \in DOMAIN files /\ ChangedAt(files, trip.files, TripTarget) /\ IsFun(files)
      BY <2>4 DEF Wrapped, ChangedAt, Functions
    <3>4. files' = [files EXCEPT ![TripTarget] = trip.files[TripTarget]]
      BY <3>1, <3>2, <3>3 DEF Filled
    <3>5. files' = trip.files
      BY <3>2, <3>3, <3>4, PutBack
    <3> QED BY <1>2, <2>1, <2>3, <2>5, <3>5 DEF Returns
  <2>9. CASE RemoveFile(p)
    <3>1. BackupToRestore(p) = NoKey /\ files' = Without(files, TripTarget)
      BY <2>4, <2>9 DEF RemoveFile
    <3>2. TripTarget \notin DOMAIN trip.files
      BY <2>4, <2>7, <3>1 DEF Wrapped, BackedUp
    <3>3. files' = trip.files
      BY <2>4, <3>1, <3>2, TakenOut DEF Wrapped
    <3> QED BY <1>2, <2>1, <2>3, <2>5, <3>3 DEF Returns
  <2> QED BY <1>10, <2>8, <2>9
<1>11. CASE CutMapping(p)
  <2>1. /\ pc[p] = "cut_mapping" /\ UNCHANGED <<files, job>> /\ Goto(p, "fill_mapping") /\ Continues
    BY <1>11 DEF CutMapping
  <2>2. pc'[p] = "fill_mapping" /\ trip' = trip
    BY <1>1, <2>1, AllLabels, GotoFacts DEF Continues, ghosts
  <2>3. Returns(p)'
    BY <1>2, <2>1, <2>2 DEF Returns
  <2> QED BY <2>2, <2>3
<1>12. CASE FillMapping(p) \/ CallFails(p)
  <2>1. \E ok : Ends(p, ok)
    BY <1>12, Zenon DEF FillMapping, CallFails
  <2> QED BY <1>4, <2>1
<1>13. CASE Kill(p)
  BY <1>13 DEF Kill, Fails
<1> QED BY <1>2, <1>8, <1>9, <1>10, <1>11, <1>12, <1>13, UnwrapSteps

\* Otherwise only the exit of a wrap starts a trip.
LEMMA TripOrigin ==
  ASSUME SafeInv, AloneInv, NEW p \in Processes, Run(p) \/ CallFails(p) \/ Kill(p), ~Begin(p)
  PROVE  \/ trip' \in {trip, NoKey}
         \/ FillMapping(p) /\ trip' = RoundTrip(p)
<1>1. Shapes
  BY DEF SafeInv
<1>2. ASSUME NEW ok, Ends(p, ok) PROVE trip' \in {trip, NoKey, RoundTrip(p)}
  <2>1. CASE IsSuggest(job[p].command)
    BY <1>2, <2>1, Zenon DEF Ends, Continues, ghosts
  <2>2. CASE ~IsSuggest(job[p].command)
    BY <1>1, <1>2, <2>2, EndsIdle DEF IsSuggest
  <2> QED BY <2>1, <2>2
<1>3. ASSUME Ends(p, FALSE) PROVE trip' \in {trip, NoKey}
  <2>1. CASE IsSuggest(job[p].command)
    BY <1>3, <2>1, Zenon DEF Ends, Continues, ghosts
  <2>2. CASE ~IsSuggest(job[p].command)
    BY <1>1, <1>3, <2>2, EndsIdle DEF IsSuggest
  <2> QED BY <2>1, <2>2
<1>4. Continues => trip' = trip
  BY DEF Continues, ghosts
<1>5. CASE ResolveWrap(p)
  <2>1. \/ Ends(p, FALSE) \/ Continues
        \/ Ends(p, TRUE) /\ Current(p).preview # {}
    BY <1>5, Zenon DEF ResolveWrap, WrapTakes
  <2>2. Current(p).preview # {} => RoundTrip(p) = NoKey
    BY Zenon DEF RoundTrip
  <2> QED BY <1>2, <1>3, <1>4, <2>1, <2>2
<1>6. CASE NothingToCopy(p) \/ LoadForWrap(p) \/ LoadForUnwrap(p) \/ CallFails(p)
  <2>1. Ends(p, FALSE) \/ Continues
    BY <1>6, Zenon DEF NothingToCopy, LoadForWrap, LoadForUnwrap, CallFails
  <2> QED BY <1>3, <1>4, <2>1
<1>7. CASE FillMapping(p)
  <2>1. \E ok : Ends(p, ok)
    BY <1>7, Zenon DEF FillMapping
  <2> QED BY <1>2, <1>7, <2>1
<1>8. CASE BackUp(p) \/ Copy(p) \/ Cut(p) \/ Fill(p) \/ RestoreCut(p) \/ Restore(p)
           \/ RemoveFile(p) \/ CutMapping(p)
  <2>1. Continues
    BY <1>8, Zenon DEF BackUp, Copy, Cut, Fill, RestoreCut, Restore, RemoveFile, CutMapping
  <2> QED BY <1>4, <2>1
<1>9. CASE SuggestDone(p) \/ Kill(p)
  BY <1>9 DEF SuggestDone, Kill, Fails
<1> QED BY <1>5, <1>6, <1>7, <1>8, <1>9 DEF Run


LEMMA TripStep ==
  ASSUME SafeInv, AloneInv, TripsInv, NEW p \in Processes, OthersStay(p),
         Run(p) \/ CallFails(p) \/ Kill(p), Begin(p) \/ Proceeds(p)
  PROVE  TripInv'
<1> SUFFICES ASSUME trip' # NoKey PROVE TripInv'
  BY DEF TripInv
<1>1. Functions /\ TripInv /\ WrapsAlone(p)
  BY DEF TripsInv
<1>2. CASE Begin(p)
  BY <1>1, <1>2, TripReturns
<1>3. CASE ~Begin(p) /\ FillMapping(p) /\ trip' = RoundTrip(p)
  BY <1>1, <1>3, TripStarts
<1>4. CASE ~Begin(p) /\ trip' = trip
  <2>1. pc[p] # "idle"
    BY <1>4 DEF Proceeds
  <2>2. /\ IsFun(trip.files) /\ IsFun(trip.mapping) /\ Working = {p} /\ Returns(p)
    BY <1>1, <1>4, <2>1 DEF TripInv, Working
  <2>3. pc'[p] # "idle" /\ Returns(p)'
    BY <1>1, <1>4, <2>1, <2>2, ReturnsOn
  <2>4. Working' = {p}
    BY <2>2, <2>3 DEF Working, OthersStay
  <2> QED BY <1>4, <2>2, <2>3, <2>4 DEF TripInv
<1> QED BY <1>2, <1>3, <1>4, TripOrigin

LEMMA TripsNext == PlainFiles /\ SafeInv /\ AloneInv /\ TripsInv /\ [Next]_vars => TripsInv'
<1> SUFFICES ASSUME PlainFiles, SafeInv, AloneInv, TripsInv, [Next]_vars PROVE TripsInv'
  OBVIOUS
<1>1. ASSUME NEW p \in Processes, Run(p) \/ CallFails(p) \/ Kill(p)
      PROVE  TripsInv'
  <2>1. OthersStay(p)
    BY <1>1, StepAdvances DEF Advances
  <2>2. Begin(p) \/ Proceeds(p)
    BY <1>1, ResolveWrapProceeds, WritesProceed, RecordsProceed, UnwrapsProceed, ExitsProceed
       DEF Run
  <2>3. Functions' /\ TripInv'
    BY <1>1, <2>1, <2>2, FunctionsStep, TripStep DEF TripsInv
  <2>4. ASSUME NEW q \in Processes \ {p} PROVE WrapsAlone(q)'
    BY <2>1, <2>2, OnlyMoverIsAlone DEF WrapsAlone
  <2>5. WrapsAlone(p)'
    <3>1. WrapsAlone(p)
      BY DEF TripsInv
    <3> QED BY <1>1, <2>2, <3>1, WrapsAloneBegins, WrapsAloneStep
  <2> QED BY <2>3, <2>4, <2>5 DEF TripsInv
<1>2. CASE UNCHANGED vars
  <2>1. UNCHANGED <<files, backups, mapping, pc, job, start, alone, trip>>
    BY <1>2 DEF vars, shared, ghosts
  <2>2. Functions'
    BY <2>1 DEF TripsInv, Functions
  <2>3. Wrapped' = Wrapped /\ \A p \in Processes : Returns(p)' = Returns(p)
    BY <2>1 DEF Wrapped, Returns, BackedUp, TripTarget, TripKey
  <2>4. TripInv'
    BY <2>1, <2>3 DEF TripsInv, TripInv, Working
  <2>5. ASSUME NEW p \in Processes PROVE WrapsAlone(p)'
    <3>1. WrapsAlone(p) /\ Current(p)' = Current(p) /\ Key2(p)' = Key2(p)
      BY <2>1 DEF TripsInv, Current, Key2
    <3>2. WrapTarget(Current(p), job[p].source)' = WrapTarget(Current(p), job[p].source)
      BY <2>1, <3>1 DEF WrapTarget
    <3>3. BackedUp(job[p].backup, Current(p).override, start[p].files, job[p].target)' =
          BackedUp(job[p].backup, Current(p).override, start[p].files, job[p].target)
      BY <2>1, <3>1 DEF BackedUp
    <3>4. MappingEntry(job[p].target, Current(p).override, job[p].backup)' =
          MappingEntry(job[p].target, Current(p).override, job[p].backup)
      BY <2>1, <3>1
    <3> HIDE DEF WrapTarget
    <3> QED BY <2>1, <3>1, <3>2, <3>3, <3>4, Zenon DEF WrapsAlone
  <2> QED BY <2>2, <2>4, <2>5 DEF TripsInv
<1> QED BY <1>1, <1>2 DEF Next

LEMMA TripsInit == Init => TripsInv
<1> SUFFICES ASSUME Init PROVE TripsInv
  OBVIOUS
<1>1. /\ files = UserFiles /\ mapping = <<>> /\ trip = NoKey
      /\ pc = [p \in Processes |-> "idle"]
  BY DEF Init
<1>2. IsFun(files) /\ IsFun(mapping)
  BY <1>1, DesktopAssumption DEF IsFun
<1>3. Functions
  BY <1>1, <1>2 DEF Functions
<1> QED BY <1>1, <1>3 DEF TripsInv, TripInv, WrapsAlone

LEMMA FaultsAreCounted == faults \in Nat /\ [Next]_vars => faults' \in Nat
<1>1. ASSUME NEW p \in Processes, Run(p) PROVE faults' = faults
  BY <1>1, Zenon DEF Run, Begin, ResolveWrap, SuggestDone, BackUp, Copy, NothingToCopy, Cut, Fill,
     LoadForWrap, LoadForUnwrap, RestoreCut, Restore, RemoveFile, CutMapping, FillMapping, counts
<1>2. ASSUME NEW p \in Processes, CallFails(p) \/ Kill(p) PROVE faults' = faults + 1
  BY <1>2, Zenon DEF CallFails, Kill
<1> QED BY <1>1, <1>2 DEF Next, vars, counts

\* An unwrap that comes right after its wrap brings every file and every entry
\* of the mapping back, whatever happened before the wrap.
THEOREM UnwrapUndoesWrapHolds ==
  ASSUME PlainFiles
  PROVE  Spec => UnwrapUndoesWrap
<1> DEFINE Inv == SafeInv /\ AloneInv /\ TripsInv /\ faults \in Nat
<1>1. Init => Inv
  BY SafeInit, AloneInit, TripsInit DEF Init
<1>2. Inv /\ [Next]_vars => Inv'
  BY FaultsAreCounted, SafeNext, AloneNext, TripsNext
<1>3. Inv /\ [Next]_vars =>
        [ \A p \in Processes :
            ( /\ pc[p] = "fill_mapping" /\ pc'[p] = "idle" /\ Current(p).op = "unwrap"
              /\ trip # NoKey /\ alone[p] /\ faults' = faults )
            => /\ files' = trip.files
               /\ mapping' = trip.mapping /\ ~mapping_torn' ]_vars
  <2> SUFFICES ASSUME Inv, Next, NEW p \in Processes, pc[p] = "fill_mapping", pc'[p] = "idle",
                      Current(p).op = "unwrap", trip # NoKey, faults' = faults
               PROVE  files' = trip.files /\ mapping' = trip.mapping /\ ~mapping_torn'
    OBVIOUS
  <2>1. PICK q \in Processes : Run(q) \/ CallFails(q) \/ Kill(q)
    BY DEF Next
  <2>2. q = p
    BY <2>1, StepAdvances DEF Advances, OthersStay
  <2>3. ~ (CallFails(p) \/ Kill(p))
    <3>1. CallFails(p) \/ Kill(p) => faults' = faults + 1
      BY Zenon DEF CallFails, Kill
    <3> QED BY <3>1
  <2>4. FillMapping(p)
    <3>1. Begin(p) \/ ResolveWrap(p) \/ SuggestDone(p) \/ BackUp(p) \/ Copy(p) \/ NothingToCopy(p)
          \/ Cut(p) \/ Fill(p) \/ LoadForWrap(p) \/ LoadForUnwrap(p) \/ RestoreCut(p) \/ Restore(p) \/ RemoveFile(p)
          \/ CutMapping(p) =>
            pc[p] \in {"idle", "next", "back_up", "copy", "cut", "fill", "load", "undo", "restore",
                       "cut_mapping"}
      BY Zenon DEF Begin, ResolveWrap, SuggestDone, BackUp, Copy, NothingToCopy, Cut, Fill,
         LoadForWrap, LoadForUnwrap, RestoreCut, Restore, RemoveFile, CutMapping
    <3> QED BY <2>1, <2>2, <2>3, <3>1 DEF Run
  <2>5. Returns(p)
    BY DEF TripsInv, TripInv, Working
  <2>6. files = trip.files /\ job[p].store = trip.mapping
    BY <2>5 DEF Returns
  <2>7. mapping' = job[p].store /\ mapping_torn' = FALSE /\ files' = files
    BY <2>4, Zenon DEF FillMapping
  <2> QED BY <2>6, <2>7
<1> QED BY <1>1, <1>2, <1>3, PTL DEF Spec, UnwrapUndoesWrap


-----------------------------------------------------------------------------
(* What the mapping says of the wrappers.                                  *)

WrapperEnd(class) == <<".", "desktop", ".", "resguard", "-", class>>

LEMMA WrapperEndIs ==
  ASSUME NEW class
  PROVE  IsSeq(WrapperEnd(class)) /\ Len(WrapperEnd(class)) = 6 /\ WrapperEnd(class)[6] = class
<1> DEFINE end == <<".", "desktop", ".", "resguard", "-", class>>
<1>1. end \in Seq({".", "desktop", "resguard", "-", class})
  OBVIOUS
<1>2. IsSeq(end)
  BY <1>1, SeqIsSeq
<1> QED BY <1>2 DEF WrapperEnd

\* Two wrappers have one id only if they are of one id and class.
LEMMA WrapperIdsDiffer ==
  ASSUME NEW id, IsSeq(id), NEW class, NEW other, IsSeq(other), NEW kind,
         wrapper_desktop_id(id, class) = wrapper_desktop_id(other, kind)
  PROVE  id = other /\ class = kind
<1> DEFINE end(c) == WrapperEnd(c)
<1>1. \A c : IsSeq(end(c)) /\ Len(end(c)) = 6 /\ end(c)[6] = c
  BY WrapperEndIs
<1>2. wrapper_desktop_id(id, class) = id \o end(class) /\ wrapper_desktop_id(other, kind) = other \o end(kind)
  BY DEF wrapper_desktop_id, WrapperEnd
<1> HIDE DEF end
<1> DEFINE w == id \o end(class)
<1>3. /\ Len(w) = Len(id) + 6 /\ Len(id) \in Nat
      /\ \A i \in 1..Len(id) : w[i] = id[i]
      /\ w[Len(id) + 6] = class
  <2>1. /\ Len(w) = Len(id) + Len(end(class)) /\ Len(id) \in Nat
        /\ \A i \in 1..Len(id) : w[i] = id[i]
        /\ \A i \in 1..Len(end(class)) : w[Len(id) + i] = end(class)[i]
    BY <1>1, ConcatIsSeq
  <2> HIDE DEF w
  <2> QED BY <1>1, <2>1
<1>4. /\ Len(w) = Len(other) + 6 /\ Len(other) \in Nat
      /\ \A i \in 1..Len(other) : w[i] = other[i]
      /\ w[Len(other) + 6] = kind
  <2> DEFINE v == other \o end(kind)
  <2>1. /\ Len(v) = Len(other) + Len(end(kind)) /\ Len(other) \in Nat
        /\ \A i \in 1..Len(other) : v[i] = other[i]
        /\ \A i \in 1..Len(end(kind)) : v[Len(other) + i] = end(kind)[i]
    BY <1>1, ConcatIsSeq
  <2>2. w = v
    BY <1>2
  <2> HIDE DEF w, v
  <2> QED BY <1>1, <2>1, <2>2
<1> HIDE DEF w
<1>5. Len(id) = Len(other)
  BY <1>3, <1>4
<1>6. \A i \in 1..Len(id) : id[i] = other[i]
  BY <1>3, <1>4, <1>5
<1>7. id = other
  <2> DEFINE S == {id[i] : i \in DOMAIN id} \cup {other[i] : i \in DOMAIN other}
  <2>1. id \in Seq(S) /\ other \in Seq(S)
    BY SeqDef DEF IsSeq
  <2> HIDE DEF S
  <2> QED BY <1>5, <1>6, <2>1, SeqEqual
<1> QED BY <1>3, <1>4, <1>5, <1>7

\* What wrap writes is what desktop doctor takes for a wrapper.
LEMMA WrapperIsValid ==
  ASSUME NEW source, IsSeq(source.exec), NEW class
  PROVE  validate_wrapper_file(render_wrapper(source, class))
<1> DEFINE run0 == <<<<"resguard">>, <<"run">>, <<"-", "-", "class">>, <<class>>, <<"-", "-">>>>
           start0 == <<<<"resguard">>, <<"run">>, <<"-", "-", "class">>>>
<1>1. run0 \in Seq({<<"resguard">>, <<"run">>, <<"-", "-", "class">>, <<class>>, <<"-", "-">>})
  OBVIOUS
<1>2. IsSeq(run0)
  BY <1>1, SeqIsSeq
<1>3. Len(run0) = 5 /\ run0[5] = <<"-", "-">> /\ Len(start0) = 3 /\ \A i \in 1..3 : run0[i] = start0[i]
  OBVIOUS
<1>4. start0 \in Seq({<<"resguard">>, <<"run">>, <<"-", "-", "class">>})
  OBVIOUS
<1>5. IsSeq(start0)
  BY <1>4, SeqIsSeq
<1> DEFINE content == render_wrapper(source, class)
<1>6. content.exec = run0 \o source.exec
  BY DEF render_wrapper, Content, wrap_exec
<1>7. validate_wrapper_file(content) <=> IsPrefix(start0, content.exec) /\ Contains(content.exec, <<"-", "-">>)
  BY DEF validate_wrapper_file
<1> HIDE DEF run0, start0, content
<1> DEFINE exec == content.exec
<1>8. /\ IsSeq(exec) /\ Len(exec) = Len(run0) + Len(source.exec) /\ Len(source.exec) \in Nat
      /\ \A i \in 1..Len(run0) : exec[i] = run0[i]
  BY <1>2, <1>6, ConcatIsSeq
<1> HIDE DEF exec
<1>9. Len(exec) \in Nat /\ Len(exec) >= 5 /\ exec[5] = <<"-", "-">> /\ \A i \in 1..3 : exec[i] = start0[i]
  BY <1>3, <1>8
<1>10. Contains(exec, <<"-", "-">>)
  BY <1>9 DEF Contains
<1>11. SubSeq(exec, 1, 3) = SubSeq(start0, 1, 3)
  BY <1>3, <1>9
<1>12. IsPrefix(start0, exec)
  BY <1>3, <1>9, <1>11 DEF IsPrefix
<1> QED BY <1>7, <1>10, <1>12 DEF exec, content


\* No unwrap --override is of a wrapper: it would remove the file of an entry
\* that stays in the mapping.
WrappersAreNotUnwrapped ==
  \A c \in Commands :
    c.op = "unwrap" /\ c.override =>
      \A id, class : IsSeq(id) => c.id # wrapper_desktop_id(id, class)

IsWrapperFile(id) == id \in DOMAIN files /\ validate_wrapper_file(files[id])

\* An entry that overrides nothing is of the wrapper that its key names ...
Named(k, entry) ==
  entry.override \/ ( /\ IsSeq(k[1]) /\ k = <<k[1], k[2]>>
                      /\ entry.target = wrapper_desktop_id(k[1], k[2]) )

\* ... and that wrapper is there, except at a place that is being written.
ToldBut(store, place) ==
  \A k \in DOMAIN store :
    /\ Named(k, store[k])
    /\ store[k].override \/ store[k].target = place \/ IsWrapperFile(store[k].target)
Told(store) ==
  \A k \in DOMAIN store :
    Named(k, store[k]) /\ (store[k].override \/ IsWrapperFile(store[k].target))

Quiet == faults = 0 /\ ~overlapped

\* The only process at work finds all as the mapping says, but for the file or
\* the entry that it is about to change.
TellsAt(p) ==
  /\ pc[p] \in {"next", "back_up", "copy", "cut", "load", "undo", "restore"} => Told(mapping)
  /\ pc[p] = "fill" => job[p].target \in DOMAIN files /\ ToldBut(mapping, job[p].target)
  /\ pc[p] = "load" => IsWrapperFile(job[p].target)
  /\ pc[p] \in {"undo", "restore"} => job[p].store = mapping
  /\ pc[p] \in {"cut_mapping", "fill_mapping"} => Told(job[p].store)

TellsInv ==
  Quiet =>
    /\ \A p, q \in Working : p = q
    /\ mapping_torn => \E p \in Processes : pc[p] = "fill_mapping"
    /\ Working = {} => Told(mapping)
    /\ \A p \in Processes : TellsAt(p)

\* A step of p that keeps it.
Tells(p) ==
  /\ TellsAt(p)'
  /\ pc'[p] = "idle" => Told(mapping)'
  /\ mapping_torn' => pc'[p] = "fill_mapping"

LEMMA TellsKeeps ==
  ASSUME TellsInv, Quiet, Quiet', NEW p \in Processes, pc[p] # "idle" \/ Working = {}, OthersStay(p),
         Tells(p)
  PROVE  TellsInv'
<1>1. \A q \in Processes \ {p} : pc[q] = "idle" /\ pc'[q] = "idle"
  BY DEF TellsInv, Working, OthersStay
<1>2. \A q \in Processes \ {p} : TellsAt(q)'
  BY <1>1 DEF TellsAt
<1>3. \A q \in Working' : q = p
  BY <1>1 DEF Working
<1>4. Working' = {} => pc'[p] = "idle"
  BY DEF Working
<1> QED BY <1>2, <1>3, <1>4 DEF TellsInv, Tells

LEMMA ToldStays ==
  ASSUME NEW store, Told(store), UNCHANGED files
  PROVE  Told(store)'
  BY DEF Told, IsWrapperFile

LEMMA MappingStays ==
  ASSUME Told(mapping), UNCHANGED <<files, mapping>>
  PROVE  Told(mapping)'
  BY DEF Told, IsWrapperFile

\* A step between commands, or to one that only reads.
LEMMA ReadingTells ==
  ASSUME NEW p \in Processes, Told(mapping), UNCHANGED <<files, mapping>>, ~mapping_torn',
         pc'[p] \in {"idle", "next", "back_up", "copy", "cut"}
  PROVE  Tells(p)
  BY MappingStays DEF Tells, TellsAt

LEMMA EndsTells ==
  ASSUME SafeInv, NEW p \in Processes, NEW ok, Ends(p, ok), Told(mapping), UNCHANGED <<files, mapping>>,
         ~mapping_torn'
  PROVE  Tells(p)
<1>1. pc'[p] \in {"idle", "next"}
  BY EndsFacts DEF SafeInv
<1> QED BY <1>1, ReadingTells

LEMMA NobodyTears ==
  ASSUME TellsInv, Quiet, NEW p \in Processes, pc[p] # "fill_mapping", pc[p] # "idle" \/ Working = {}
  PROVE  ~mapping_torn
  BY DEF TellsInv, Working

LEMMA ResolveTells ==
  ASSUME SafeInv, TellsInv, Quiet, NEW p \in Processes, ResolveWrap(p)
  PROVE  Tells(p)
<1> DEFINE c == Current(p)
           found == resolve_desktop_id(c.id, Entries)
           target == WrapTarget(c, found.entry)
<1>1. pc[p] = "next" /\ UNCHANGED <<files, mapping, mapping_torn>>
  BY Zenon DEF ResolveWrap, shared
<1>2. Told(mapping)
  BY <1>1 DEF TellsInv, TellsAt
<1>3. ~mapping_torn'
  BY <1>1, NobodyTears
<1>4. Ends(p, FALSE) => Tells(p)
  BY <1>1, <1>2, <1>3, EndsTells
<1>5. Ends(p, TRUE) => Tells(p)
  BY <1>1, <1>2, <1>3, EndsTells
<1>6. ASSUME WrapTakes(p, found.entry, target) PROVE Tells(p)
  <2>1. PICK entry : entry = found.entry
    OBVIOUS
  <2>2. PICK place : place = target
    OBVIOUS
  <2>3. WrapTakes(p, entry, place)
    BY <1>6, <2>1, <2>2, Zenon
  <2>4. pc'[p] \in {"back_up", "cut"}
    BY <2>3, WrapTakesFacts DEF SafeInv
  <2> QED BY <1>1, <1>2, <1>3, <2>4, ReadingTells
<1>7. Ends(p, FALSE) \/ Ends(p, TRUE) \/ WrapTakes(p, found.entry, target)
  BY Zenon DEF ResolveWrap
<1> QED BY <1>4, <1>5, <1>6, <1>7, Zenon

LEMMA BacksUpTells ==
  ASSUME SafeInv, TellsInv, Quiet, NEW p \in Processes,
         BackUp(p) \/ Copy(p) \/ NothingToCopy(p)
  PROVE  Tells(p)
<1>1. pc[p] \in {"back_up", "copy"} /\ UNCHANGED <<files, mapping, mapping_torn>>
  BY Zenon DEF BackUp, Copy, NothingToCopy, shared
<1>2. Told(mapping)
  BY <1>1 DEF TellsInv, TellsAt
<1>3. ~mapping_torn'
  BY <1>1, NobodyTears
<1>4. CASE Ends(p, FALSE)
  BY <1>1, <1>2, <1>3, <1>4, EndsTells
<1>5. CASE Goto(p, "copy") \/ Goto(p, "cut")
  <2>1. pc'[p] \in {"copy", "cut"}
    BY <1>5, AllLabels, GotoFacts DEF SafeInv
  <2> QED BY <1>1, <1>2, <1>3, <2>1, ReadingTells
<1>6. Ends(p, FALSE) \/ Goto(p, "copy") \/ Goto(p, "cut")
  BY Zenon DEF BackUp, Copy, NothingToCopy, shared
<1> QED BY <1>4, <1>5, <1>6

LEMMA CutTells ==
  ASSUME SafeInv, TellsInv, Quiet, NEW p \in Processes, Cut(p)
  PROVE  Tells(p)
<1>1. pc[p] = "cut" /\ Goto(p, "fill") /\ UNCHANGED <<mapping, mapping_torn, job>>
      /\ files' = Put(files, job[p].target, Torn)
  BY Zenon DEF Cut
<1>2. Told(mapping)
  BY <1>1 DEF TellsInv, TellsAt
<1>3. ~mapping_torn'
  BY <1>1, NobodyTears
<1>4. pc'[p] = "fill"
  BY <1>1, AllLabels, GotoFacts DEF SafeInv
<1>5. /\ job[p].target \in DOMAIN files'
      /\ \A id : IsWrapperFile(id) /\ id # job[p].target => IsWrapperFile(id)'
  BY <1>1 DEF Put, IsWrapperFile
<1>6. ToldBut(mapping, job[p].target)'
  BY <1>1, <1>2, <1>5 DEF Told, ToldBut
<1> QED BY <1>1, <1>3, <1>4, <1>5, <1>6 DEF Tells, TellsAt

LEMMA FillTells ==
  ASSUME SafeInv, TellsInv, Quiet, NEW p \in Processes, Fill(p)
  PROVE  Tells(p)
<1>1. pc[p] = "fill" /\ Goto(p, "load") /\ UNCHANGED <<mapping, mapping_torn, job>>
      /\ files' = Filled(job[p].target, render_wrapper(job[p].source, Current(p).class))
  BY Zenon DEF Fill
<1>2. job[p].target \in DOMAIN files /\ ToldBut(mapping, job[p].target)
  BY <1>1 DEF TellsInv, TellsAt
<1>3. ~mapping_torn'
  BY <1>1, NobodyTears
<1>4. pc'[p] = "load"
  BY <1>1, AllLabels, GotoFacts DEF SafeInv
<1>5. validate_wrapper_file(render_wrapper(job[p].source, Current(p).class))
  BY <1>1, WrapperIsValid DEF SafeInv, WorksSafely, WrapsSafely
<1>6. IsWrapperFile(job[p].target)' /\ \A id : IsWrapperFile(id) => IsWrapperFile(id)'
  <2>1. PICK content : content = render_wrapper(job[p].source, Current(p).class)
    OBVIOUS
  <2>2. files' = [files EXCEPT ![job[p].target] = content]
    BY <1>1, <1>2, <2>1 DEF Filled
  <2>3. validate_wrapper_file(content)
    BY <1>5, <2>1
  <2> QED BY <1>1, <1>2, <2>2, <2>3 DEF IsWrapperFile
<1>7. Told(mapping)'
  BY <1>1, <1>2, <1>6 DEF Told, ToldBut
<1> QED BY <1>3, <1>4, <1>6, <1>7 DEF Tells, TellsAt


LEMMA LoadForWrapTells ==
  ASSUME SafeInv, TellsInv, Quiet, NEW p \in Processes, LoadForWrap(p)
  PROVE  Tells(p)
<1>1. pc[p] = "load" /\ UNCHANGED <<files, mapping, mapping_torn>>
  BY Zenon DEF LoadForWrap, shared
<1>2. Told(mapping) /\ IsWrapperFile(job[p].target)
  BY <1>1 DEF TellsInv, TellsAt
<1>3. ~mapping_torn'
  BY <1>1, NobodyTears
<1>4. CASE Ends(p, FALSE)
  BY <1>1, <1>2, <1>3, <1>4, EndsTells
<1>5. CASE ~Ends(p, FALSE)
  <2> DEFINE key == Key2(p)
             entry == MappingEntry(job[p].target, Current(p).override, job[p].backup)
  <2>1. pc'[p] = "cut_mapping" /\ job'[p].store = Put(mapping, key, entry)
    BY <1>5, LoadForWrapFacts DEF SafeInv
  <2>2. /\ Current(p).op = "wrap" /\ IsSeq(job[p].source.id)
        /\ job[p].target = WrapTarget(Current(p), job[p].source)
    BY <1>1 DEF SafeInv, WorksSafely, WrapsSafely
  <2>3. key = <<job[p].source.id, Current(p).class>>
    BY <2>2 DEF Key2
  <2>4. entry.override = Current(p).override /\ entry.target = job[p].target
    BY DEF MappingEntry
  <2>5. ~Current(p).override =>
          job[p].target = wrapper_desktop_id(job[p].source.id, Current(p).class)
    BY <2>2 DEF WrapTarget
  <2> HIDE DEF key, entry
  <2>6. Named(key, entry)
    BY <2>2, <2>3, <2>4, <2>5 DEF Named
  <2>7. Told(Put(mapping, key, entry))
    BY <1>2, <2>4, <2>6 DEF Told, Put
  <2>8. Told(job[p].store)'
    <3>1. \A k \in DOMAIN job'[p].store :
            /\ Named(k, job'[p].store[k])
            /\ job'[p].store[k].override \/ IsWrapperFile(job'[p].store[k].target)
      BY <2>1, <2>7 DEF Told
    <3>2. \A id : IsWrapperFile(id)' <=> IsWrapperFile(id)
      BY <1>1 DEF IsWrapperFile
    <3> QED BY <3>1, <3>2 DEF Told
  <2> QED BY <1>3, <2>1, <2>8 DEF Tells, TellsAt
<1> QED BY <1>4, <1>5

LEMMA LoadForUnwrapTells ==
  ASSUME SafeInv, TellsInv, Quiet, NEW p \in Processes, LoadForUnwrap(p)
  PROVE  Tells(p)
<1>1. pc[p] = "next" /\ UNCHANGED <<files, mapping, mapping_torn>>
  BY Zenon DEF LoadForUnwrap, shared
<1>2. Told(mapping)
  BY <1>1 DEF TellsInv, TellsAt
<1>3. ~mapping_torn'
  BY <1>1, NobodyTears
<1>4. CASE Ends(p, FALSE)
  BY <1>1, <1>2, <1>3, <1>4, EndsTells
<1>5. CASE ~Ends(p, FALSE)
  <2>1. pc'[p] = "undo" /\ job'[p].store = mapping
    BY <1>5, LoadForUnwrapFacts DEF SafeInv
  <2>2. Told(mapping)'
    BY <1>1, <1>2, MappingStays
  <2> QED BY <1>1, <1>3, <2>1, <2>2 DEF Tells, TellsAt
<1> QED BY <1>4, <1>5

\* What an unwrap removes or writes over is the wrapper of its own entry, or no
\* wrapper of the mapping at all.
LEMMA OthersAreElsewhere ==
  ASSUME WrappersAreNotUnwrapped, SafeInv, AloneInv, NEW p \in Processes,
         pc[p] \in {"undo", "restore"}, NEW k, NEW entry, Named(k, entry),
         ~entry.override, entry.target = job[p].target
  PROVE  ~Current(p).override /\ k = Key2(p)
<1>1. /\ Current(p).op = "unwrap" /\ IsSeq(Current(p).id)
      /\ job[p].target = IF Current(p).override THEN Current(p).id
                         ELSE wrapper_desktop_id(Current(p).id, Current(p).class)
  BY DEF SafeInv, WorksSafely, UnwrapsSafely
<1>2. Current(p) \in Commands
  BY DEF AloneInv, IsAlone, SafeInv, WorksSafely, Started, IsSuggest, Current
<1>3. IsSeq(k[1]) /\ k = <<k[1], k[2]>> /\ job[p].target = wrapper_desktop_id(k[1], k[2])
  BY DEF Named
<1>4. ~Current(p).override
  BY <1>1, <1>2, <1>3 DEF WrappersAreNotUnwrapped
<1>5. k[1] = Current(p).id /\ k[2] = Current(p).class
  BY <1>1, <1>3, <1>4, WrapperIdsDiffer
<1>6. Key2(p) = <<Current(p).id, Current(p).class>>
  BY <1>1 DEF Key2
<1> QED BY <1>3, <1>4, <1>5, <1>6

LEMMA RestoreCutTells ==
  ASSUME WrappersAreNotUnwrapped, SafeInv, AloneInv, TellsInv, Quiet, NEW p \in Processes, RestoreCut(p)
  PROVE  Tells(p)
<1>1. /\ pc[p] = "undo" /\ Goto(p, "restore") /\ UNCHANGED <<mapping, mapping_torn, job>>
      /\ files' = Put(files, job[p].target, Torn) /\ BackupToRestore(p) # NoKey
  BY Zenon DEF RestoreCut
<1>2. Told(mapping) /\ job[p].store = mapping
  BY <1>1 DEF TellsInv, TellsAt
<1>3. ~mapping_torn'
  BY <1>1, NobodyTears
<1>4. pc'[p] = "restore"
  BY <1>1, AllLabels, GotoFacts DEF SafeInv
<1>5. Current(p).override
  BY <1>1 DEF BackupToRestore
<1>6. \A id : IsWrapperFile(id) /\ id # job[p].target => IsWrapperFile(id)'
  BY <1>1 DEF Put, IsWrapperFile
<1>7. \A k \in DOMAIN mapping : ~mapping[k].override => mapping[k].target # job[p].target
  BY <1>1, <1>2, <1>5, OthersAreElsewhere DEF Told
<1>8. Told(mapping)'
  BY <1>1, <1>2, <1>6, <1>7 DEF Told
<1> QED BY <1>1, <1>2, <1>3, <1>4, <1>8 DEF Tells, TellsAt

LEMMA UndoesTells ==
  ASSUME WrappersAreNotUnwrapped, SafeInv, AloneInv, TellsInv, Quiet, NEW p \in Processes,
         Restore(p) \/ RemoveFile(p)
  PROVE  Tells(p)
<1>1. pc[p] \in {"undo", "restore"} /\ UNCHANGED <<mapping, mapping_torn>>
  BY Zenon DEF Restore, RemoveFile
<1>2. Told(mapping) /\ job[p].store = mapping
  BY <1>1 DEF TellsInv, TellsAt
<1>3. ~mapping_torn'
  BY <1>1, NobodyTears
<1>4. pc'[p] = "cut_mapping" /\ job'[p].store = Without(mapping, Key2(p))
  BY <1>2, UndoesFacts DEF SafeInv
<1>5. \A id : IsWrapperFile(id) /\ id # job[p].target => IsWrapperFile(id)'
  <2>1. ASSUME RemoveFile(p) PROVE files' = Without(files, job[p].target)
    BY <2>1, Zenon DEF RemoveFile
  <2>2. PICK content : content = backups[BackupToRestore(p)]
    OBVIOUS
  <2>3. ASSUME Restore(p) PROVE files' = Filled(job[p].target, content)
    BY <2>2, <2>3, Zenon DEF Restore
  <2>4. files' = Without(files, job[p].target) \/ files' = Filled(job[p].target, content)
    BY <2>1, <2>3
  <2> QED BY <2>4 DEF Without, Filled, IsWrapperFile
<1>6. \A k \in DOMAIN mapping \ {Key2(p)} :
        Named(k, mapping[k]) /\ (mapping[k].override \/ (IsWrapperFile(mapping[k].target))')
  <2> SUFFICES ASSUME NEW k \in DOMAIN mapping \ {Key2(p)}, ~mapping[k].override,
                      NEW place, place = mapping[k].target
               PROVE  IsWrapperFile(place)'
    BY <1>1, <1>2 DEF Told, IsWrapperFile
  <2>1. Named(k, mapping[k]) /\ IsWrapperFile(place)
    BY <1>2 DEF Told
  <2>2. place # job[p].target
    BY <1>1, <2>1, OthersAreElsewhere
  <2> QED BY <1>5, <2>1, <2>2
<1>7. Told(job[p].store)'
  <2>1. PICK store : store = Without(mapping, Key2(p))
    OBVIOUS
  <2>2. DOMAIN store = DOMAIN mapping \ {Key2(p)} /\ \A k \in DOMAIN store : store[k] = mapping[k]
    BY <2>1 DEF Without
  <2>3. \A k \in DOMAIN store : Named(k, store[k]) /\ (store[k].override \/ (IsWrapperFile(mapping[k].target))')
    BY <1>6, <2>2
  <2>4. job'[p].store = store
    BY <1>4, <2>1
  <2> QED BY <1>1, <2>2, <2>3, <2>4 DEF Told, IsWrapperFile
<1> QED BY <1>3, <1>4, <1>7 DEF Tells, TellsAt

LEMMA CutMappingTells ==
  ASSUME SafeInv, TellsInv, Quiet, NEW p \in Processes, CutMapping(p)
  PROVE  Tells(p)
<1>1. pc[p] = "cut_mapping" /\ Goto(p, "fill_mapping") /\ UNCHANGED <<files, job>>
  BY Zenon DEF CutMapping
<1>2. Told(job[p].store)
  BY <1>1 DEF TellsInv, TellsAt
<1>3. pc'[p] = "fill_mapping"
  BY <1>1, AllLabels, GotoFacts DEF SafeInv
<1>4. Told(job[p].store)'
  BY <1>1, <1>2 DEF Told, IsWrapperFile
<1> QED BY <1>3, <1>4 DEF Tells, TellsAt

LEMMA FillMappingTells ==
  ASSUME SafeInv, TellsInv, Quiet, NEW p \in Processes, FillMapping(p)
  PROVE  Tells(p)
<1>1. PICK ok : ok = (Current(p).op = "wrap" \/ job[p].removed)
  OBVIOUS
<1>2. /\ pc[p] = "fill_mapping" /\ Ends(p, ok) /\ UNCHANGED files
      /\ mapping' = job[p].store /\ mapping_torn' = FALSE
  BY <1>1, Zenon DEF FillMapping
<1>3. Told(job[p].store)
  BY <1>2 DEF TellsInv, TellsAt
<1>4. pc'[p] \in {"idle", "next"}
  BY <1>2, EndsFacts DEF SafeInv
<1>5. Told(mapping)'
  BY <1>2, <1>3 DEF Told, IsWrapperFile
<1> QED BY <1>2, <1>4, <1>5 DEF Tells, TellsAt

LEMMA BeginTells ==
  ASSUME SafeInv, TellsInv, Quiet, NEW p \in Processes, Begin(p), Working = {}
  PROVE  Tells(p)
<1>1. Goto(p, "next") /\ UNCHANGED <<files, mapping, mapping_torn>>
  BY Zenon DEF Begin, shared
<1>2. Told(mapping) /\ ~mapping_torn
  BY DEF TellsInv, Working
<1>3. pc'[p] = "next"
  BY <1>1, GotoFacts DEF SafeInv
<1> QED BY <1>1, <1>2, <1>3, ReadingTells

LEMMA SuggestDoneTells ==
  ASSUME SafeInv, TellsInv, Quiet, NEW p \in Processes, SuggestDone(p)
  PROVE  Tells(p)
<1>1. pc[p] = "next" /\ Goto(p, "idle") /\ UNCHANGED <<files, mapping, mapping_torn>>
  BY Zenon DEF SuggestDone, shared
<1>2. Told(mapping)
  BY <1>1 DEF TellsInv, TellsAt
<1>3. ~mapping_torn'
  BY <1>1, NobodyTears
<1>4. pc'[p] = "idle"
  BY <1>1, GotoFacts DEF SafeInv
<1> QED BY <1>1, <1>2, <1>3, <1>4, ReadingTells

\* No fault and no overlap is ever taken back.
LEMMA EndsQuietly ==
  ASSUME NEW p \in Processes, NEW ok, Ends(p, ok) \/ Continues \/ Succeeds(p) \/ Fails(p)
  PROVE  overlapped' = overlapped
<1>1. Ends(p, ok) => Continues \/ Succeeds(p) \/ Fails(p)
  BY Zenon DEF Ends
<1> QED BY <1>1, Zenon DEF Continues, ghosts, Succeeds, Fails

LEMMA StaysLoud ==
  ASSUME faults \in Nat, NEW p \in Processes, Run(p) \/ CallFails(p) \/ Kill(p), Quiet'
  PROVE  Quiet /\ Run(p) /\ (Begin(p) => Working = {})
<1>1. CallFails(p) \/ Kill(p) => faults' = faults + 1
  BY Zenon DEF CallFails, Kill
<1>2. Run(p)
  BY <1>1 DEF Quiet
<1>3. faults' = faults
  BY <1>2, Zenon DEF Run, Begin, ResolveWrap, SuggestDone, BackUp, Copy, NothingToCopy, Cut, Fill,
     LoadForWrap, LoadForUnwrap, RestoreCut, Restore, RemoveFile, CutMapping, FillMapping, counts
<1>4. ASSUME Begin(p) PROVE ~overlapped /\ Working = {}
  <2>1. overlapped' = (overlapped \/ Working # {})
    BY <1>4, Zenon DEF Begin, Begins
  <2>2. ~overlapped'
    BY DEF Quiet
  <2> QED BY <2>1, <2>2, Zenon
<1>5. ASSUME ~Begin(p) PROVE overlapped' = overlapped
  <2>1. \/ Ends(p, TRUE) \/ Ends(p, FALSE) \/ Continues
        \/ FillMapping(p) \/ SuggestDone(p)
    <3>1. ResolveWrap(p) => Ends(p, TRUE) \/ Ends(p, FALSE) \/ Continues
      BY Zenon DEF ResolveWrap, WrapTakes
    <3>2. NothingToCopy(p) \/ LoadForWrap(p) \/ LoadForUnwrap(p) => Ends(p, FALSE) \/ Continues
      BY Zenon DEF NothingToCopy, LoadForWrap, LoadForUnwrap
    <3>3. BackUp(p) \/ Copy(p) \/ Cut(p) \/ Fill(p) \/ RestoreCut(p) \/ Restore(p) \/ RemoveFile(p)
          \/ CutMapping(p) => Continues
      BY Zenon DEF BackUp, Copy, Cut, Fill, RestoreCut, Restore, RemoveFile, CutMapping
    <3> QED BY <1>2, <1>5, <3>1, <3>2, <3>3, Zenon DEF Run
  <2>2. SuggestDone(p) => overlapped' = overlapped
    BY Zenon DEF SuggestDone
  <2>3. PICK ok : ok = (Current(p).op = "wrap" \/ job[p].removed)
    OBVIOUS
  <2>4. FillMapping(p) => Ends(p, ok)
    BY <2>3, Zenon DEF FillMapping
  <2> QED BY <2>1, <2>2, <2>4, EndsQuietly
<1>6. faults = 0 /\ ~overlapped
  <2>1. ~overlapped' /\ faults' = 0
    BY Zenon DEF Quiet
  <2>2. ~overlapped
    BY <1>4, <1>5, <2>1, Zenon
  <2> QED BY <1>3, <2>1, <2>2
<1> QED BY <1>2, <1>4, <1>6, Zenon DEF Quiet

LEMMA TellsNext ==
  PlainFiles /\ WrappersAreNotUnwrapped /\ SafeInv /\ AloneInv /\ TellsInv /\ faults \in Nat
  /\ [Next]_vars => TellsInv'
<1> SUFFICES ASSUME PlainFiles, WrappersAreNotUnwrapped, SafeInv, AloneInv, TellsInv, faults \in Nat,
                    [Next]_vars
             PROVE  TellsInv'
  OBVIOUS
<1> SUFFICES ASSUME Quiet' PROVE TellsInv'
  BY Zenon DEF TellsInv
<1>1. ASSUME NEW p \in Processes, Run(p) \/ CallFails(p) \/ Kill(p)
      PROVE  TellsInv'
  <2>1. Quiet /\ Run(p) /\ (Begin(p) => Working = {})
    BY <1>1, StaysLoud
  <2>2. OthersStay(p)
    BY <1>1, StepAdvances DEF Advances
  <2>3. Tells(p)
    BY <2>1, BeginTells, ResolveTells, SuggestDoneTells, BacksUpTells, CutTells, FillTells,
       LoadForWrapTells, LoadForUnwrapTells, RestoreCutTells, UndoesTells, CutMappingTells,
       FillMappingTells, Zenon DEF Run
  <2>4. pc[p] # "idle" \/ Working = {}
    <3>1. ~Begin(p) => Proceeds(p)
      BY <1>1, ResolveWrapProceeds, WritesProceed, RecordsProceed, UnwrapsProceed, ExitsProceed
         DEF Run
    <3> QED BY <2>1, <3>1 DEF Proceeds
  <2> QED BY <2>1, <2>2, <2>3, <2>4, TellsKeeps
<1>2. CASE UNCHANGED vars
  <2>1. UNCHANGED <<files, mapping, mapping_torn, pc, job, faults, overlapped>>
    BY <1>2 DEF vars, shared, counts, ghosts
  <2>2. Quiet
    BY <2>1, Zenon DEF Quiet
  <2>3. \A id : IsWrapperFile(id)' <=> IsWrapperFile(id)
    BY <2>1 DEF IsWrapperFile
  <2>4. Told(mapping)' <=> Told(mapping)
    BY <2>1, <2>3 DEF Told
  <2>5. ASSUME NEW p \in Processes PROVE TellsAt(p)'
    <3>1. TellsAt(p)
      BY <2>2 DEF TellsInv
    <3>2. Told(job[p].store) => Told(job[p].store)'
      BY <2>1, <2>3 DEF Told
    <3>3. ToldBut(mapping, job[p].target) => ToldBut(mapping, job[p].target)'
      BY <2>1, <2>3 DEF ToldBut
    <3>4. IsWrapperFile(job[p].target) => IsWrapperFile(job[p].target)'
      BY <2>1 DEF IsWrapperFile
    <3> QED BY <2>1, <2>4, <3>1, <3>2, <3>3, <3>4 DEF TellsAt
  <2> QED BY <2>1, <2>2, <2>4, <2>5 DEF TellsInv, Working
<1> QED BY <1>1, <1>2 DEF Next

LEMMA TellsInit == Init => TellsInv
<1> SUFFICES ASSUME Init PROVE TellsInv
  OBVIOUS
<1>1. mapping = <<>> /\ ~mapping_torn /\ \A p \in Processes : pc[p] = "idle"
  BY DEF Init
<1>2. Told(mapping)
  BY <1>1 DEF Told
<1> QED BY <1>1, <1>2 DEF TellsInv, TellsAt, Working

LEMMA TellsIsTruth == TellsInv => MappingTellsTruth
<1> SUFFICES ASSUME TellsInv, Working = {}, Quiet PROVE MappingTellsTruth
  BY DEF MappingTellsTruth, Quiet
<1>1. Told(mapping) /\ ~mapping_torn
  BY DEF TellsInv, Working
<1> DEFINE overridden == {k \in DOMAIN mapping : mapping[k].override}
<1>2. broken_wrappers \subseteq overridden
  BY <1>1 DEF broken_wrappers, Told, IsWrapperFile
<1>3. \A k \in DOMAIN mapping \ overridden : mapping[k].target = wrapper_desktop_id(k[1], k[2])
  BY <1>1 DEF Told, Named
<1>4. overridden = {} => run_desktop_doctor_checks(TRUE, {k[2] : k \in DOMAIN mapping}, FALSE).code = 0
  <2> SUFFICES ASSUME overridden = {}
               PROVE  run_desktop_doctor_checks(TRUE, {k[2] : k \in DOMAIN mapping}, FALSE).code = 0
    OBVIOUS
  <2>1. broken_wrappers = {}
    BY <1>2
  <2>2. PICK slices : slices = {k[2] : k \in DOMAIN mapping}
    OBVIOUS
  <2> QED BY <1>1, <2>1, Zenon DEF run_desktop_doctor_checks
<1> QED BY <1>2, <1>3, <1>4 DEF MappingTellsTruth

\* While no call has failed and no two commands were ever at work at once, the
\* mapping tells what is on disk: every entry that overrides nothing is of the
\* wrapper that its key names, that wrapper is there, and desktop doctor has
\* nothing to report.
THEOREM MappingTellsTruthHolds ==
  ASSUME PlainFiles, WrappersAreNotUnwrapped
  PROVE  Spec => []MappingTellsTruth
<1> DEFINE Inv == SafeInv /\ AloneInv /\ TellsInv /\ faults \in Nat
<1>1. Init => Inv
  BY SafeInit, AloneInit, TellsInit DEF Init
<1>2. Inv /\ [Next]_vars => Inv'
  BY FaultsAreCounted, SafeNext, AloneNext, TellsNext
<1>3. Inv => MappingTellsTruth
  BY TellsIsTruth
<1> QED BY <1>1, <1>2, <1>3, PTL DEF Spec
=============================================================================
