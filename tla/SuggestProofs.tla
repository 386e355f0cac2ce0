---------------------------- MODULE SuggestProofs ---------------------------
(***************************************************************************)
(* Theorems about what desktop wrap, desktop unwrap and suggest find when  *)
(* they look for desktop entries, wrappers among them: the types, what     *)
(* suggest wraps, that wrappers change no resolution, and that suggest     *)
(* converges.                                                              *)
(*                                                                         *)
(* The central notion is a set of good files that every write stays in:    *)
(* whatever is read, backed up, wrapped or restored is good if the entries *)
(* that were there at the beginning are.                                   *)
(***************************************************************************)
EXTENDS DesktopProofs

-----------------------------------------------------------------------------
(* The plan of suggest.                                                    *)

HaveSizes(items) == \A item \in items : item.scope.memory \in Nat
IsOrder(items, order) ==
  /\ order \in [1..Cardinality(items) -> items]
  /\ Range(order) = items
  /\ \A i, j \in DOMAIN order : i < j => order[i].scope.memory >= order[j].scope.memory

LEMMA LastIsAdded ==
  ASSUME NEW items, IsFiniteSet(items), HaveSizes(items), NEW last \in items,
         \A item \in items : last.scope.memory <= item.scope.memory,
         NEW order, IsOrder(items \ {last}, order)
  PROVE  \E longer : IsOrder(items, longer)
<1> DEFINE n == Cardinality(items)
           longer == [i \in 1..n |-> IF i = n THEN last ELSE order[i]]
<1>1. n \in Nat /\ n # 0 /\ Cardinality(items \ {last}) = n - 1
  BY FS_CardinalityType, FS_EmptySet, FS_RemoveElement
<1>2. /\ order \in [1..(n - 1) -> items \ {last}] /\ Range(order) = items \ {last}
      /\ \A i, j \in 1..(n - 1) : i < j => order[i].scope.memory >= order[j].scope.memory
  BY <1>1 DEF IsOrder
<1> HIDE DEF n
<1>3. longer \in [1..n -> items] /\ DOMAIN longer = 1..n
  BY <1>1, <1>2
<1>4. Range(longer) = items
  <2>1. ASSUME NEW item \in items PROVE \E i \in 1..n : longer[i] = item
    <3>1. CASE item = last
      BY <1>1, <3>1
    <3>2. CASE item # last
      <4>1. PICK i \in 1..(n - 1) : order[i] = item
        BY <1>2, <3>2 DEF Range
      <4>2. i \in 1..n /\ i # n
        BY <1>1
      <4> QED BY <4>1, <4>2
    <3> QED BY <3>1, <3>2
  <2> HIDE DEF longer
  <2> QED BY <1>3, <2>1 DEF Range
<1>5. ASSUME NEW i \in 1..n, NEW j \in 1..n, i < j
      PROVE  longer[i].scope.memory >= longer[j].scope.memory
  <2>1. i \in 1..(n - 1) /\ longer[i] = order[i] /\ order[i] \in items
    BY <1>1, <1>2, <1>5
  <2>2. order[i].scope.memory \in Nat /\ last.scope.memory \in Nat
    BY <2>1 DEF HaveSizes
  <2>3. CASE j = n
    BY <2>1, <2>2, <2>3
  <2>4. CASE j # n
    <3>1. j \in 1..(n - 1) /\ longer[j] = order[j]
      BY <1>1, <2>4
    <3> QED BY <1>2, <1>5, <2>1, <3>1
  <2> QED BY <2>3, <2>4
<1> HIDE DEF longer
<1>6. IsOrder(items, longer)
  BY <1>3, <1>4, <1>5 DEF IsOrder, n
<1> QED BY <1>6

\* Every finite set of items has an order with the largest scope first.
LEMMA OrderExists ==
  ASSUME NEW items, IsFiniteSet(items), HaveSizes(items)
  PROVE  \E order : IsOrder(items, order)
<1> DEFINE Bad(S) == IsFiniteSet(S) /\ HaveSizes(S) /\ ~ \E order : IsOrder(S, order)
           T == {n \in Nat : \E S : Bad(S) /\ Cardinality(S) = n}
<1> SUFFICES ASSUME T # {} PROVE FALSE
  BY FS_CardinalityType
<1>1. T \subseteq Nat
  OBVIOUS
<1> HIDE DEF T
<1>2. PICK n \in T : \A m \in T : n <= m
  BY <1>1, NatSmallest
<1>3. PICK S : Bad(S) /\ Cardinality(S) = n /\ n \in Nat
  BY <1>2 DEF T
<1>4. CASE S = {}
  <2>1. IsOrder({}, [i \in 1..0 |-> i])
    BY FS_EmptySet DEF IsOrder, Range
  <2> QED BY <1>3, <1>4, <2>1
<1>5. CASE S # {}
  <2> DEFINE sizes == {item.scope.memory : item \in S}
  <2>1. sizes \subseteq Nat /\ sizes # {}
    BY <1>3, <1>5 DEF HaveSizes
  <2>2. \E size \in sizes : \A other \in sizes : size <= other
    BY <2>1, NatSmallest
  <2>3. PICK last \in S : \A item \in S : last.scope.memory <= item.scope.memory
    BY <2>2
  <2>4. /\ IsFiniteSet(S \ {last}) /\ Cardinality(S \ {last}) = n - 1 /\ n - 1 \in Nat
    <3>1. n # 0
      BY <1>3, <1>5, FS_EmptySet
    <3> QED BY <1>3, <3>1, FS_RemoveElement
  <2>5. HaveSizes(S \ {last})
    BY <1>3 DEF HaveSizes
  <2>6. n - 1 \notin T
    BY <1>2, <1>3, <2>4
  <2>7. \E order : IsOrder(S \ {last}, order)
    BY <2>4, <2>5, <2>6 DEF T
  <2> QED BY <1>3, <2>3, <2>7, LastIsAdded
<1> QED BY <1>4, <1>5

LEMMA LargestFirstIsOrder ==
  ASSUME NEW items, IsFiniteSet(items), HaveSizes(items)
  PROVE  IsOrder(items, LargestFirst(items))
  BY OrderExists DEF IsOrder, LargestFirst

\* The classes that a command or a scope can ask for.
Classes ==
  {c.class : c \in {d \in Commands : ~IsSuggest(d)}} \cup {classify(s, Rules).class : s \in Scopes}

\* What suggest carries out, in no order.
Planned(mode, entries) ==
  Executed(build_plan_items(build_suggestions(Scopes, Rules, entries), Threshold), mode)

LEMMA ImageIsFinite ==
  ASSUME NEW S, IsFiniteSet(S), NEW f, DOMAIN f = S
  PROVE  IsFiniteSet({f[x] : x \in S})
<1> DEFINE g == [x \in S |-> f[x]]
<1>1. g \in Surjection(S, {f[x] : x \in S})
  BY DEF Surjection
<1> QED BY <1>1, FS_Surjection

LEMMA PlannedItems ==
  ASSUME NEW mode, NEW entries
  PROVE  /\ IsFiniteSet(Planned(mode, entries)) /\ HaveSizes(Planned(mode, entries))
         /\ \A item \in Planned(mode, entries) :
              /\ item.desktop_id # None /\ item.class \in Classes
              /\ \E s \in Scopes :
                   item.desktop_id = unique_desktop_id_for_scope_exec(s.scope, s.exec, entries)
<1> DEFINE all == {Suggestion(s, Rules, entries) : s \in Scopes}
           plan == build_plan_items(build_suggestions(Scopes, Rules, entries), Threshold)
<1>1. IsFiniteSet(all)
  <2> DEFINE f == [s \in Scopes |-> Suggestion(s, Rules, entries)]
  <2>1. IsFiniteSet({f[s] : s \in Scopes})
    <3>1. IsFiniteSet(Scopes) /\ DOMAIN f = Scopes
      BY DesktopAssumption
    <3> HIDE DEF f
    <3> QED BY <3>1, ImageIsFinite
  <2>2. {f[s] : s \in Scopes} = all
    OBVIOUS
  <2> QED BY <2>1, <2>2
<1>2. build_suggestions(Scopes, Rules, entries) \subseteq all
  BY DEF build_suggestions
<1>3. IsFiniteSet(build_suggestions(Scopes, Rules, entries))
  BY <1>1, <1>2, FS_Subset
<1>4. IsFiniteSet(plan)
  <2> DEFINE sgs == build_suggestions(Scopes, Rules, entries)
             f == [sg \in sgs |-> PlanItem(sg, Threshold)]
  <2>1. {f[sg] : sg \in sgs} = plan
    BY DEF build_plan_items
  <2> HIDE DEF all, sgs
  <2>2. IsFiniteSet({f[sg] : sg \in sgs})
    BY <1>3, ImageIsFinite DEF sgs
  <2> QED BY <2>1, <2>2
<1>5. Planned(mode, entries) \subseteq plan
  BY Zenon DEF Planned, Executed
<1>6. IsFiniteSet(Planned(mode, entries))
  BY <1>4, <1>5, FS_Subset
<1>7. ASSUME NEW item \in Planned(mode, entries)
      PROVE  \E s \in Scopes :
               /\ item.scope = s /\ item.class = classify(s, Rules).class
               /\ item.desktop_id = unique_desktop_id_for_scope_exec(s.scope, s.exec, entries)
  <2>1. PICK sg \in all : item = PlanItem(sg, Threshold)
    BY <1>2, <1>5 DEF build_plan_items
  <2>2. PICK s \in Scopes : sg = Suggestion(s, Rules, entries)
    BY <2>1
  <2>3. item.scope = sg.scope /\ item.class = sg.class /\ item.desktop_id = sg.desktop_id
    BY <2>1, Zenon DEF PlanItem
  <2>4. /\ sg.scope = s /\ sg.class = classify(s, Rules).class
        /\ sg.desktop_id = unique_desktop_id_for_scope_exec(s.scope, s.exec, entries)
    BY <2>2, Zenon DEF Suggestion
  <2> QED BY <2>3, <2>4
<1>8. ASSUME NEW item \in Planned(mode, entries) PROVE item.desktop_id # None
  <2>1. item.kind = "wrap desktop" /\ item \in plan
    BY Zenon DEF Planned, Executed
  <2>2. PICK sg : item = PlanItem(sg, Threshold)
    BY <2>1, Zenon DEF build_plan_items
  <2>3. /\ item.desktop_id = sg.desktop_id
        /\ item.kind = IF sg.confidence < Threshold THEN "skip low confidence"
                       ELSE IF sg.desktop_id # None THEN "wrap desktop"
                       ELSE "manual wrap"
    BY <2>2, Zenon DEF PlanItem
  <2>4. "skip low confidence" # "wrap desktop" /\ "manual wrap" # "wrap desktop"
    BY Zenon
  <2> QED BY <2>1, <2>3, <2>4, Zenon
<1>9. HaveSizes(Planned(mode, entries))
  BY <1>7, DesktopAssumption DEF HaveSizes
<1>10. \A item \in Planned(mode, entries) : item.class \in Classes
  BY <1>7 DEF Classes
<1> QED BY <1>6, <1>7, <1>8, <1>9, <1>10


-----------------------------------------------------------------------------
(* The job of a process when its command begins and when one is over.      *)

\* A wrap that suggest carries out.
IsPlannedWrap(w) ==
  w.op = "wrap" /\ w.class \in Classes /\ ~w.override /\ ~w.force /\ w.preview = {}

LEMMA WrapOfFacts ==
  ASSUME NEW item
  PROVE  /\ WrapOf(item).op = "wrap" /\ WrapOf(item).id = item.desktop_id
         /\ WrapOf(item).class = item.class /\ ~WrapOf(item).override
         /\ ~WrapOf(item).force /\ WrapOf(item).preview = {}
  BY Zenon DEF WrapOf

LEMMA WrapOfIsWrap ==
  ASSUME NEW item, item.class \in Classes
  PROVE  IsPlannedWrap(WrapOf(item))
  BY WrapOfFacts, Zenon DEF IsPlannedWrap

\* The queue of a suggest that has just begun: the plan, in some order.
IsQueueOf(queue, items) ==
  /\ IsSeq(queue)
  /\ \A i \in DOMAIN queue : \E item \in items : queue[i] = WrapOf(item)
  /\ \A item \in items : \E i \in DOMAIN queue : queue[i] = WrapOf(item)

LEMMA SuggestIsQueue ==
  ASSUME NEW mode, NEW entries
  PROVE  LET plan == suggest(Scopes, Rules, Threshold, mode, entries) IN
         IsQueueOf([i \in DOMAIN plan |-> WrapOf(plan[i])], Planned(mode, entries))
<1> DEFINE plan == suggest(Scopes, Rules, Threshold, mode, entries)
           items == Planned(mode, entries)
<1>1. plan = LargestFirst(items)
  BY DEF suggest, Planned
<1>2. IsFiniteSet(items) /\ HaveSizes(items)
  BY PlannedItems
<1> HIDE DEF items
<1>3. IsOrder(items, plan)
  BY <1>1, <1>2, LargestFirstIsOrder
<1> HIDE DEF plan
<1> DEFINE n == Cardinality(items)
           queue == [i \in DOMAIN plan |-> WrapOf(plan[i])]
<1>4. n \in Nat
  BY <1>2, FS_CardinalityType
<1>5. plan \in [1..n -> items] /\ {plan[i] : i \in 1..n} = items
  BY <1>3 DEF IsOrder, Range
<1> HIDE DEF n
<1>6. IsSeq(queue)
  <2>1. queue \in [1..n -> {queue[i] : i \in DOMAIN queue}]
    BY <1>5
  <2> HIDE DEF queue
  <2> QED BY <1>4, <2>1, SeqDef DEF IsSeq
<1>7. \A i \in DOMAIN queue : \E item \in items : queue[i] = WrapOf(item)
  BY <1>5
<1>8. \A item \in items : \E i \in DOMAIN queue : queue[i] = WrapOf(item)
  BY <1>5
<1> HIDE DEF queue
<1>9. IsQueueOf(queue, items)
  BY <1>6, <1>7, <1>8 DEF IsQueueOf
<1> QED BY <1>9 DEF queue, plan, items

LEMMA BeginJob ==
  ASSUME Shapes, NEW p \in Processes, Begin(p)
  PROVE  /\ job'[p].command \in Commands /\ job'[p].store = <<>> /\ job'[p].backup = NoKey
         /\ ~IsSuggest(job'[p].command) => job'[p].queue = <<job'[p].command>>
         /\ IsSuggest(job'[p].command) =>
              IsQueueOf(job'[p].queue, Planned(job'[p].command.mode, Entries))
<1>1. PICK c \in Commands :
        Set(p, [NoJob EXCEPT
            !.command = c,
            !.queue = IF IsSuggest(c)
                      THEN LET plan == suggest(Scopes, Rules, Threshold, c.mode, Entries)
                           IN  [i \in DOMAIN plan |-> WrapOf(plan[i])]
                      ELSE <<c>>])
  BY Zenon DEF Begin
<1>2. PICK queue : queue = IF IsSuggest(c)
                      THEN LET plan == suggest(Scopes, Rules, Threshold, c.mode, Entries)
                           IN  [i \in DOMAIN plan |-> WrapOf(plan[i])]
                      ELSE <<c>>
  OBVIOUS
<1>3. PICK r : r = [NoJob EXCEPT !.command = c, !.queue = queue]
  OBVIOUS
<1>4. Set(p, r)
  BY <1>1, <1>2, <1>3, Zenon
<1>5. IsJob(NoJob) /\ NoJob.backup = NoKey /\ NoJob.store = <<>>
  BY DEF IsJob, Job, NoJob
<1>6. r = Job(c, queue, NoJob.source, NoJob.target, NoJob.backup, NoJob.store, NoJob.removed)
  BY <1>3, <1>5, CommandAndQueue, Zenon
<1>7. IsJob(r) /\ r.command = c /\ r.queue = queue /\ r.store = <<>> /\ r.backup = NoKey
  BY <1>5, <1>6 DEF IsJob, Job
<1>8. job'[p] = r
  BY <1>4, <1>7, SetFacts
<1>9. IsSuggest(c) => IsQueueOf(queue, Planned(c.mode, Entries))
  BY <1>2, SuggestIsQueue, Zenon
<1>10. ~IsSuggest(c) => queue = <<c>>
  BY <1>2, Zenon
<1> QED BY <1>7, <1>8, <1>9, <1>10

LEMMA EndsJob ==
  ASSUME Shapes, NEW p \in Processes, NEW ok, Ends(p, ok)
  PROVE  /\ IsSuggest(job[p].command) =>
              /\ job'[p].queue = Tail(job[p].queue) /\ job'[p].command = job[p].command
              /\ job'[p].store = job[p].store /\ job'[p].backup = NoKey
              /\ pc'[p] = "next" /\ UNCHANGED <<start, alone, converged>>
         /\ ~IsSuggest(job[p].command) => job'[p] = NoJob /\ pc'[p] = "idle"
         /\ UNCHANGED <<alone, converged>>
<1>1. IsJob(job[p])
  BY DEF Shapes
<1>2. CASE IsSuggest(job[p].command)
  <2>1. PICK r : r = [job[p] EXCEPT !.queue = Tail(job[p].queue), !.backup = NoKey]
    OBVIOUS
  <2>2. Goto(p, "next") /\ Set(p, r) /\ Continues
    BY <1>2, <2>1, Zenon DEF Ends
  <2>3. r = Job(job[p].command, Tail(job[p].queue), job[p].source, job[p].target,
                NoKey, job[p].store, job[p].removed)
    BY <1>1, <2>1, QueueAndBackup, Zenon
  <2>4. /\ IsJob(r) /\ r.backup = NoKey /\ r.store = job[p].store /\ r.command = job[p].command
        /\ r.queue = Tail(job[p].queue)
    BY <2>3 DEF IsJob, Job
  <2>5. job'[p] = r /\ pc'[p] = "next"
    BY <2>2, <2>4, SetFacts, GotoFacts
  <2> QED BY <1>2, <2>2, <2>4, <2>5 DEF Continues, ghosts
<1>3. CASE ~IsSuggest(job[p].command)
  <2>1. Goto(p, "idle") /\ Set(p, NoJob) /\ UNCHANGED <<alone, converged>>
    BY <1>3, Zenon DEF Ends, Succeeds, Fails
  <2>2. IsJob(NoJob)
    BY DEF IsJob, Job, NoJob
  <2>3. job'[p] = NoJob /\ pc'[p] = "idle"
    BY <2>1, <2>2, SetFacts, GotoFacts
  <2> QED BY <1>3, <2>1, <2>3
<1> QED BY <1>2, <1>3

LEMMA TailIsSeq ==
  ASSUME NEW s, IsSeq(s), s # <<>>
  PROVE  /\ IsSeq(Tail(s)) /\ 1 \in DOMAIN s /\ Head(s) = s[1]
         /\ \A i \in DOMAIN Tail(s) : i + 1 \in DOMAIN s /\ Tail(s)[i] = s[i + 1]
         /\ \A i \in DOMAIN s : i # 1 => i - 1 \in DOMAIN Tail(s) /\ Tail(s)[i - 1] = s[i]
<1> DEFINE S == {s[i] : i \in DOMAIN s}
<1>1. s \in Seq(S)
  BY DEF IsSeq
<1> HIDE DEF S
<1>2. Tail(s) \in Seq(S) /\ Len(Tail(s)) = Len(s) - 1 /\ Len(s) \in Nat /\ Len(s) # 0
      /\ DOMAIN s = 1..Len(s) /\ DOMAIN Tail(s) = 1..(Len(s) - 1)
      /\ \A i \in 1..(Len(s) - 1) : Tail(s)[i] = s[i + 1]
  BY <1>1, HeadTailProperties
<1>3. IsSeq(Tail(s))
  BY <1>2, SeqIsSeq
<1>4. Head(s) = s[1]
  OBVIOUS
<1> QED BY <1>2, <1>3, <1>4


-----------------------------------------------------------------------------
(* Good files.                                                             *)

\* A set of pairs of an id and a content that wrapping does not lead out of.
Closed(Good) ==
  /\ \A e \in SystemEntries : <<e.id, Content(e.name, e.exec)>> \in Good
  /\ \A id \in DOMAIN UserFiles : <<id, UserFiles[id]>> \in Good
  /\ \A id, content : <<id, content>> \in Good =>
       /\ id # None /\ <<id, Torn>> \in Good
       /\ \A class \in Classes :
            \A place \in {id, wrapper_desktop_id(id, class)} :
              <<place, render_wrapper(content, class)>> \in Good

\* What is read of an entry is good.
IsGood(Good, entry) ==
  \E content : /\ <<entry.id, content>> \in Good
               /\ content.name = entry.name /\ content.exec = entry.exec

\* A backup that the mapping names is there and is of the file it names it for.
Linked(store) ==
  \A k \in DOMAIN store : store[k].backup # NoKey =>
    store[k].backup \in DOMAIN backups /\ store[k].backup[2] = k[1]

GoodJob(Good, p) ==
  /\ job[p].backup # NoKey => job[p].backup \in DOMAIN backups /\ job[p].backup[2] = job[p].target
  /\ Linked(job[p].store)
  /\ pc[p] \in Writing => job[p].queue # <<>> /\ job[p].target # None
  /\ pc[p] # "idle" /\ IsSuggest(job[p].command) =>
       IsSeq(job[p].queue) /\ \A i \in DOMAIN job[p].queue : IsPlannedWrap(job[p].queue[i])
  /\ pc[p] \in {"back_up", "copy", "cut", "fill"} =>
       Current(p).class \in Classes /\ IsGood(Good, job[p].source)
  /\ pc[p] = "copy" => job[p].backup # NoKey

GoodFiles(Good)   == \A id \in DOMAIN files : <<id, files[id]>> \in Good
GoodBackups(Good) == \A k \in DOMAIN backups : <<k[2], backups[k]>> \in Good

GoodInv(Good) ==
  /\ GoodFiles(Good) /\ GoodBackups(Good) /\ Linked(mapping)
  /\ \A p \in Processes : GoodJob(Good, p)

LEMMA GoodStays ==
  ASSUME NEW Good, GoodInv(Good), NEW p \in Processes, OthersStay(p),
         DOMAIN backups \subseteq DOMAIN backups',
         GoodFiles(Good)', GoodBackups(Good)', Linked(mapping)', GoodJob(Good, p)'
  PROVE  GoodInv(Good)'
<1>1. ASSUME NEW q \in Processes \ {p} PROVE GoodJob(Good, q)'
  <2>1. pc'[q] = pc[q] /\ job'[q] = job[q] /\ GoodJob(Good, q)
    BY <1>1 DEF OthersStay, GoodInv
  <2>2. Current(q)' = Current(q)
    BY <2>1 DEF Current
  <2>3. Linked(job[q].store) => Linked(job[q].store)'
    BY <2>1 DEF Linked
  <2> QED BY <2>1, <2>2, <2>3 DEF GoodJob
<1> QED BY <1>1 DEF GoodInv

\* A step that touches neither files nor backups and leaves the mapping.
LEMMA NothingIsWritten ==
  ASSUME NEW Good, GoodInv(Good), UNCHANGED <<files, backups>>
  PROVE  /\ GoodFiles(Good)' /\ GoodBackups(Good)' /\ (mapping' = mapping => Linked(mapping)')
         /\ \A store : Linked(store) => Linked(store)'
<1>1. \A store : Linked(store) => Linked(store)'
  BY DEF Linked
<1> QED BY <1>1 DEF GoodInv, GoodFiles, GoodBackups, Linked

LEMMA EntriesAreGood ==
  ASSUME NEW Good, Closed(Good), GoodInv(Good), NEW e \in Entries
  PROVE  IsGood(Good, e) /\ e.id # None
<1>1. CASE e \in SystemEntries
  <2>1. <<e.id, Content(e.name, e.exec)>> \in Good
    BY <1>1 DEF Closed
  <2>2. Content(e.name, e.exec).name = e.name /\ Content(e.name, e.exec).exec = e.exec
    BY DEF Content
  <2> QED BY <2>1, <2>2 DEF IsGood, Closed
<1>2. CASE e \notin SystemEntries
  <2>1. PICK id \in DOMAIN files : e = DesktopEntry(id, UserDir, files[id].name, files[id].exec)
    BY <1>2 DEF Entries
  <2>2. e.id = id /\ e.name = files[id].name /\ e.exec = files[id].exec
    BY <2>1 DEF DesktopEntry
  <2>3. <<id, files[id]>> \in Good
    BY DEF GoodInv, GoodFiles
  <2> QED BY <2>2, <2>3 DEF IsGood, Closed
<1> QED BY <1>1, <1>2

\* The ends of a command leave nothing to answer for but the rest of a plan.
LEMMA EndsAreGood ==
  ASSUME SafeInv, NEW Good, GoodInv(Good), NEW p \in Processes, pc[p] # "idle",
         pc[p] = "next" => job[p].queue # <<>>,
         NEW ok, Ends(p, ok), UNCHANGED <<files, backups>>, mapping' \in {mapping, job[p].store}
  PROVE  GoodFiles(Good)' /\ GoodBackups(Good)' /\ Linked(mapping)' /\ GoodJob(Good, p)'
<1>1. /\ pc'[p] \in {"idle", "next"} /\ job'[p].backup = NoKey
      /\ job'[p].store \in {job[p].store, <<>>}
  BY EndsFacts DEF SafeInv
<1>2. /\ GoodFiles(Good)' /\ GoodBackups(Good)'
      /\ \A store : Linked(store) => Linked(store)'
  BY NothingIsWritten
<1>3. Linked(mapping) /\ Linked(job[p].store) /\ Linked(<<>>) /\ GoodJob(Good, p)
  BY DEF GoodInv, GoodJob, Linked
<1>4. Linked(mapping)' /\ Linked(job[p].store)'
  <2>1. \A store : Linked(store)' => (store = mapping' => Linked(mapping)')
                                     /\ (store = job'[p].store => Linked(job[p].store)')
    BY DEF Linked
  <2> QED BY <1>1, <1>2, <1>3, <2>1
<1>5. pc[p] \in Writing \/ pc[p] = "next"
  BY DEF SafeInv, Shapes
<1>6. pc'[p] \notin Writing /\ pc'[p] \notin {"back_up", "copy", "cut", "fill"}
  BY <1>1 DEF Writing
<1>7. pc'[p] # "idle" /\ IsSuggest(job'[p].command) =>
        IsSeq(job'[p].queue) /\ \A i \in DOMAIN job'[p].queue : IsPlannedWrap(job'[p].queue[i])
  <2>1. CASE IsSuggest(job[p].command)
    <3>1. job'[p].queue = Tail(job[p].queue)
      BY <2>1, EndsJob DEF SafeInv
    <3>2. IsSeq(job[p].queue) /\ \A i \in DOMAIN job[p].queue : IsPlannedWrap(job[p].queue[i])
      BY <1>3, <2>1 DEF GoodJob
    <3>3. job[p].queue # <<>>
      BY <1>3, <1>5 DEF GoodJob
    <3> QED BY <3>1, <3>2, <3>3, TailIsSeq
  <2>2. CASE ~IsSuggest(job[p].command)
    BY <2>2, EndsJob DEF SafeInv
  <2> QED BY <2>1, <2>2
<1>8. GoodJob(Good, p)'
  BY <1>1, <1>4, <1>6, <1>7, Zenon DEF GoodJob
<1> QED BY <1>2, <1>4, <1>8


LEMMA BeginIsGood ==
  ASSUME SafeInv, NEW Good, GoodInv(Good), NEW p \in Processes, Begin(p)
  PROVE  GoodFiles(Good)' /\ GoodBackups(Good)' /\ Linked(mapping)' /\ GoodJob(Good, p)'
<1>1. UNCHANGED <<files, backups, mapping>> /\ pc'[p] = "next"
  <2>1. UNCHANGED <<files, backups, mapping>> /\ Goto(p, "next")
    BY Zenon DEF Begin, shared
  <2> QED BY <2>1, GotoFacts DEF SafeInv
<1>2. /\ job'[p].store = <<>> /\ job'[p].backup = NoKey
      /\ IsSuggest(job'[p].command) =>
           IsQueueOf(job'[p].queue, Planned(job'[p].command.mode, Entries))
  BY BeginJob DEF SafeInv
<1>3. GoodFiles(Good)' /\ GoodBackups(Good)' /\ Linked(mapping)'
  BY <1>1, NothingIsWritten
<1>4. Linked(job[p].store)'
  BY <1>2 DEF Linked
<1>5. IsSuggest(job'[p].command) =>
        IsSeq(job'[p].queue) /\ \A i \in DOMAIN job'[p].queue : IsPlannedWrap(job'[p].queue[i])
  <2> SUFFICES ASSUME IsSuggest(job'[p].command)
               PROVE  IsSeq(job'[p].queue)
                      /\ \A i \in DOMAIN job'[p].queue : IsPlannedWrap(job'[p].queue[i])
    OBVIOUS
  <2>1. \A item \in Planned(job'[p].command.mode, Entries) : IsPlannedWrap(WrapOf(item))
    BY PlannedItems, WrapOfIsWrap
  <2> QED BY <1>2, <2>1 DEF IsQueueOf
<1>6. pc'[p] \notin Writing /\ pc'[p] \notin {"back_up", "copy", "cut", "fill"}
  BY <1>1 DEF Writing
<1>7. GoodJob(Good, p)'
  BY <1>2, <1>4, <1>5, <1>6, Zenon DEF GoodJob
<1> QED BY <1>3, <1>7

LEMMA SuggestDoneIsGood ==
  ASSUME SafeInv, NEW Good, GoodInv(Good), NEW p \in Processes, SuggestDone(p) \/ Kill(p)
  PROVE  GoodFiles(Good)' /\ GoodBackups(Good)' /\ Linked(mapping)' /\ GoodJob(Good, p)'
<1>1. UNCHANGED <<files, backups, mapping>> /\ Goto(p, "idle") /\ Set(p, NoJob)
  BY DEF SuggestDone, Kill, shared
<1>2. IsJob(NoJob) /\ NoJob.store = <<>> /\ NoJob.backup = NoKey
  BY DEF IsJob, Job, NoJob
<1>3. pc'[p] = "idle" /\ job'[p] = NoJob
  BY <1>1, <1>2, GotoFacts, SetFacts DEF SafeInv
<1>4. GoodFiles(Good)' /\ GoodBackups(Good)' /\ Linked(mapping)'
  BY <1>1, NothingIsWritten
<1>5. Linked(job[p].store)'
  BY <1>2, <1>3 DEF Linked
<1>6. pc'[p] \notin Writing /\ pc'[p] \notin {"back_up", "copy", "cut", "fill"}
  BY <1>3 DEF Writing
<1>7. GoodJob(Good, p)'
  BY <1>2, <1>3, <1>5, <1>6, Zenon DEF GoodJob
<1> QED BY <1>4, <1>7

\* What Current(p) is while a process is at work.
LEMMA CurrentIs ==
  ASSUME SafeInv, NEW Good, GoodInv(Good), NEW p \in Processes, pc[p] # "idle", job[p].queue # <<>>
  PROVE  /\ ~IsSuggest(job[p].command) => Current(p) = job[p].command /\ job[p].command \in Commands
         /\ IsSuggest(job[p].command) =>
              1 \in DOMAIN job[p].queue /\ Current(p) = job[p].queue[1] /\ IsPlannedWrap(Current(p))
         /\ Current(p).op = "wrap" => Current(p).class \in Classes
<1>1. CASE ~IsSuggest(job[p].command)
  <2>1. Current(p) = job[p].command /\ job[p].command \in Commands
    BY <1>1 DEF SafeInv, WorksSafely, Started, Current
  <2> QED BY <1>1, <2>1 DEF Classes
<1>2. CASE IsSuggest(job[p].command)
  <2>1. IsSeq(job[p].queue) /\ \A i \in DOMAIN job[p].queue : IsPlannedWrap(job[p].queue[i])
    BY <1>2 DEF GoodInv, GoodJob
  <2>2. 1 \in DOMAIN job[p].queue /\ Current(p) = job[p].queue[1]
    BY <2>1, TailIsSeq DEF Current
  <2> QED BY <1>2, <2>1, <2>2 DEF IsPlannedWrap
<1> QED BY <1>1, <1>2

LEMMA TargetIsGood ==
  ASSUME NEW Good, Closed(Good), NEW p \in Processes, NEW source, IsGood(Good, source),
         Current(p).class \in Classes
  PROVE  /\ WrapTarget(Current(p), source) # None
         /\ <<WrapTarget(Current(p), source), Torn>> \in Good
         /\ <<WrapTarget(Current(p), source), render_wrapper(source, Current(p).class)>> \in Good
<1>1. PICK content : /\ <<source.id, content>> \in Good
                     /\ content.name = source.name /\ content.exec = source.exec
  BY DEF IsGood
<1>2. render_wrapper(content, Current(p).class) = render_wrapper(source, Current(p).class)
  BY <1>1 DEF render_wrapper
<1>3. WrapTarget(Current(p), source) \in
        {source.id, wrapper_desktop_id(source.id, Current(p).class)}
  BY DEF WrapTarget
<1>4. <<WrapTarget(Current(p), source), render_wrapper(source, Current(p).class)>> \in Good
  <2> HIDE DEF WrapTarget, wrapper_desktop_id, render_wrapper
  <2> QED BY <1>1, <1>2, <1>3 DEF Closed
<1> QED BY <1>4 DEF Closed

LEMMA ResolveWrapIsGood ==
  ASSUME SafeInv, NEW Good, Closed(Good), GoodInv(Good), NEW p \in Processes, ResolveWrap(p)
  PROVE  GoodFiles(Good)' /\ GoodBackups(Good)' /\ Linked(mapping)' /\ GoodJob(Good, p)'
<1> DEFINE c == Current(p)
           found == resolve_desktop_id(c.id, Entries)
           target == WrapTarget(c, found.entry)
<1>1. /\ pc[p] = "next" /\ job[p].queue # <<>> /\ c.op = "wrap"
      /\ UNCHANGED <<files, backups, mapping>>
  BY Zenon DEF ResolveWrap, shared
<1>2. CASE \E ok \in {TRUE, FALSE} : Ends(p, ok)
  BY <1>1, <1>2, EndsAreGood
<1>3. CASE WrapTakes(p, found.entry, target) /\ IsFound(found)
  <2>1. PICK entry : entry = found.entry
    OBVIOUS
  <2>2. entry \in Entries
    <3>1. Shapes
      BY DEF SafeInv
    <3> HIDE DEF c
    <3> QED BY <1>3, <2>1, <3>1, EntriesAreEntries, FoundIsEntry
  <2>3. PICK place : place = WrapTarget(Current(p), entry)
    OBVIOUS
  <2>4. WrapTakes(p, entry, place)
    BY <1>3, <2>1, <2>3
  <2> HIDE DEF c, found, target
  <2>5. /\ job'[p].command = job[p].command /\ job'[p].queue = job[p].queue
        /\ job'[p].source = entry /\ job'[p].target = place /\ job'[p].backup = job[p].backup
    BY <2>4, WrapTakesFacts DEF SafeInv
  <2>6. job'[p].store = job[p].store
    <3>1. PICK r : r = [job[p] EXCEPT !.source = entry, !.target = place]
      OBVIOUS
    <3>2. Set(p, r) /\ IsJob(job[p])
      BY <2>4, <3>1, Zenon DEF WrapTakes, SafeInv, Shapes
    <3>3. r = Job(job[p].command, job[p].queue, entry, place, job[p].backup, job[p].store,
                  job[p].removed)
      BY <3>1, <3>2, SourceAndTarget, Zenon
    <3>4. IsJob(r) /\ r.store = job[p].store
      BY <3>3 DEF IsJob, Job
    <3> QED BY <3>2, <3>4, SetFacts DEF SafeInv
  <2>7. /\ GoodFiles(Good)' /\ GoodBackups(Good)' /\ Linked(mapping)'
        /\ Linked(job[p].store)'
    <3>1. Linked(job[p].store)
      BY DEF GoodInv, GoodJob
    <3>2. GoodFiles(Good)' /\ GoodBackups(Good)' /\ Linked(mapping)'
          /\ \A store : Linked(store) => Linked(store)'
      BY <1>1, NothingIsWritten
    <3>3. Linked(job[p].store)'
      BY <2>6, <3>1, <3>2 DEF Linked
    <3> QED BY <3>2, <3>3
  <2>8. job[p].backup = NoKey /\ Current(p)' = Current(p) /\ Current(p).class \in Classes
    <3>1. job[p].backup = NoKey
      BY <1>1 DEF SafeInv, WorksSafely, BackupIsOwn
    <3> QED BY <1>1, <2>5, <3>1, CurrentIs DEF Current, c
  <2>9. IsGood(Good, entry) /\ place # None
    BY <2>2, <2>3, <2>8, EntriesAreGood, TargetIsGood
  <2>10. IsSuggest(job[p].command) =>
           IsSeq(job[p].queue) /\ \A i \in DOMAIN job[p].queue : IsPlannedWrap(job[p].queue[i])
    BY <1>1 DEF GoodInv, GoodJob
  <2>11. IsSuggest(job'[p].command) =>
           IsSeq(job'[p].queue) /\ \A i \in DOMAIN job'[p].queue : IsPlannedWrap(job'[p].queue[i])
    BY <2>5, <2>10 DEF IsSuggest
  <2>12. pc'[p] # "copy"
    BY <2>4, WrapTakesFacts DEF SafeInv
  <2>13. GoodJob(Good, p)'
    BY <1>1, <2>5, <2>7, <2>8, <2>9, <2>11, <2>12, Zenon DEF GoodJob
  <2> QED BY <2>7, <2>13
<1>4. (\E ok \in {TRUE, FALSE} : Ends(p, ok)) \/ (WrapTakes(p, found.entry, target) /\ IsFound(found))
  BY Zenon DEF ResolveWrap
<1> QED BY <1>2, <1>3, <1>4, Zenon


\* The place that a wrap writes to may be a file, a torn one or a wrapper.
LEMMA WrapWritesGood ==
  ASSUME SafeInv, NEW Good, Closed(Good), GoodInv(Good), NEW p \in Processes,
         pc[p] \in {"back_up", "copy", "cut", "fill"}
  PROVE  /\ <<job[p].target, Torn>> \in Good
         /\ <<job[p].target, render_wrapper(job[p].source, Current(p).class)>> \in Good
<1>1. Current(p).class \in Classes /\ IsGood(Good, job[p].source)
  BY DEF GoodInv, GoodJob
<1>2. job[p].target = WrapTarget(Current(p), job[p].source)
  BY DEF SafeInv, WorksSafely, WrapsSafely
<1> QED BY <1>1, <1>2, TargetIsGood

\* A step inside of a command that stays at its place.
LEMMA WorksOn ==
  ASSUME SafeInv, NEW Good, GoodInv(Good), NEW p \in Processes, pc[p] \in Writing,
         pc'[p] \in Writing \ {"back_up"}, DOMAIN backups \subseteq DOMAIN backups',
         job'[p].command = job[p].command, job'[p].queue = job[p].queue,
         job'[p].target = job[p].target, Linked(job[p].store)',
         \/ job'[p].backup = job[p].backup
         \/ job'[p].backup = <<clock', job[p].target>> /\ job'[p].backup \in DOMAIN backups',
         pc'[p] = "copy" => job'[p].backup # NoKey,
         pc'[p] \in {"copy", "cut", "fill"} =>
           pc[p] \in {"back_up", "copy", "cut"} /\ job'[p].source = job[p].source
  PROVE  GoodJob(Good, p)'
<1>1. GoodJob(Good, p) /\ pc[p] # "idle"
  BY DEF GoodInv, Writing
<1>2. Current(p)' = Current(p)
  BY DEF Current
<1>3. job'[p].backup # NoKey =>
        job'[p].backup \in DOMAIN backups' /\ job'[p].backup[2] = job'[p].target
  BY <1>1 DEF GoodJob
<1>4. job'[p].queue # <<>> /\ job'[p].target # None
  BY <1>1 DEF GoodJob
<1>5. IsSuggest(job'[p].command) =>
        IsSeq(job'[p].queue) /\ \A i \in DOMAIN job'[p].queue : IsPlannedWrap(job'[p].queue[i])
  <2>1. IsSuggest(job'[p].command) => IsSuggest(job[p].command)
    BY DEF IsSuggest
  <2> QED BY <1>1, <2>1 DEF GoodJob
<1>6. pc'[p] \in {"back_up", "copy", "cut", "fill"} =>
        Current(p)'.class \in Classes /\ IsGood(Good, job'[p].source)
  BY <1>1, <1>2 DEF GoodJob
<1> QED BY <1>3, <1>4, <1>5, <1>6, Zenon DEF GoodJob

LEMMA BackUpIsGood ==
  ASSUME SafeInv, NEW Good, Closed(Good), GoodInv(Good), NEW p \in Processes, BackUp(p)
  PROVE  GoodFiles(Good)' /\ GoodBackups(Good)' /\ Linked(mapping)' /\ GoodJob(Good, p)'
<1>1. /\ pc[p] = "back_up" /\ backups' = Put(backups, <<clock', job[p].target>>, Torn)
      /\ UNCHANGED <<files, mapping>>
  BY Zenon DEF BackUp
<1>2. /\ job'[p].command = job[p].command /\ job'[p].queue = job[p].queue
      /\ job'[p].source = job[p].source /\ job'[p].target = job[p].target
      /\ job'[p].backup = <<clock', job[p].target>> /\ pc'[p] = "copy"
  BY BackUpFacts DEF SafeInv
<1>3. job'[p].store = job[p].store
  <2>1. PICK key : key = <<clock', job[p].target>>
    OBVIOUS
  <2>2. PICK r : r = [job[p] EXCEPT !.backup = key]
    OBVIOUS
  <2>3. Set(p, r) /\ IsJob(job[p])
    BY <2>1, <2>2, Zenon DEF BackUp, SafeInv, Shapes
  <2>4. r = Job(job[p].command, job[p].queue, job[p].source, job[p].target, key, job[p].store,
                job[p].removed)
    BY <2>2, <2>3, OneField, Zenon
  <2>5. IsJob(r) /\ r.store = job[p].store
    BY <2>4 DEF IsJob, Job
  <2> QED BY <2>3, <2>5, SetFacts DEF SafeInv
<1>4. /\ DOMAIN backups' = DOMAIN backups \cup {<<clock', job[p].target>>}
      /\ \A k \in DOMAIN backups' :
           IF k = <<clock', job[p].target>> THEN backups'[k] = Torn
           ELSE k \in DOMAIN backups /\ backups'[k] = backups[k]
  BY <1>1 DEF Put
<1>5. <<job[p].target, Torn>> \in Good
  BY <1>1, WrapWritesGood
<1>6. ASSUME NEW k \in DOMAIN backups' PROVE <<k[2], backups'[k]>> \in Good
  <2>1. CASE k = <<clock', job[p].target>>
    BY <1>4, <1>5, <2>1
  <2>2. CASE k # <<clock', job[p].target>>
    BY <1>4, <2>2 DEF GoodInv, GoodBackups
  <2> QED BY <2>1, <2>2
<1>7. GoodFiles(Good)' /\ GoodBackups(Good)'
  BY <1>1, <1>6 DEF GoodInv, GoodFiles, GoodBackups
<1>8. Linked(mapping)' /\ Linked(job[p].store)'
  BY <1>1, <1>3, <1>4 DEF GoodInv, GoodJob, Linked
<1>9. GoodJob(Good, p)'
  <2>1. pc[p] \in Writing /\ pc'[p] \in Writing \ {"back_up"}
    BY <1>1, <1>2, AllLabels
  <2>2. <<clock', job[p].target>> # NoKey
    BY DEF NoKey
  <2> QED BY <1>1, <1>2, <1>4, <1>8, <2>1, <2>2, WorksOn
<1> QED BY <1>7, <1>8, <1>9

LEMMA CopyIsGood ==
  ASSUME SafeInv, NEW Good, Closed(Good), GoodInv(Good), NEW p \in Processes, Copy(p)
  PROVE  GoodFiles(Good)' /\ GoodBackups(Good)' /\ Linked(mapping)' /\ GoodJob(Good, p)'
<1>1. /\ pc[p] = "copy" /\ job[p].target \in DOMAIN files
      /\ backups' = [backups EXCEPT ![job[p].backup] = files[job[p].target]]
      /\ Goto(p, "cut") /\ UNCHANGED <<files, mapping, job>>
  BY DEF Copy
<1>2. pc'[p] = "cut"
  BY <1>1, AllLabels, GotoFacts DEF SafeInv
<1>3. job[p].backup[2] = job[p].target
  BY <1>1 DEF GoodInv, GoodJob
<1>4. /\ DOMAIN backups' = DOMAIN backups
      /\ \A k \in DOMAIN backups : backups'[k] =
           IF k = job[p].backup THEN files[job[p].target] ELSE backups[k]
  BY <1>1
<1>5. ASSUME NEW k \in DOMAIN backups' PROVE <<k[2], backups'[k]>> \in Good
  <2>1. <<job[p].target, files[job[p].target]>> \in Good
    BY <1>1 DEF GoodInv, GoodFiles
  <2>2. CASE k = job[p].backup
    BY <1>3, <1>4, <2>1, <2>2
  <2>3. CASE k # job[p].backup
    BY <1>4, <2>3 DEF GoodInv, GoodBackups
  <2> QED BY <2>2, <2>3
<1>6. GoodFiles(Good)' /\ GoodBackups(Good)'
  BY <1>1, <1>5 DEF GoodInv, GoodFiles, GoodBackups
<1>7. Linked(mapping)' /\ Linked(job[p].store)'
  BY <1>1, <1>4 DEF GoodInv, GoodJob, Linked
<1>8. pc[p] \in Writing /\ pc'[p] \in Writing \ {"back_up"}
  BY <1>1, <1>2, AllLabels
<1>9. GoodJob(Good, p)'
  BY <1>1, <1>2, <1>4, <1>7, <1>8, WorksOn
<1> QED BY <1>6, <1>7, <1>9

\* A step that writes a good content to the place of its job and keeps the
\* record of the job.
LEMMA WriteIsGood ==
  ASSUME SafeInv, NEW Good, GoodInv(Good), NEW p \in Processes, UNCHANGED <<backups, mapping, job>>,
         NEW content, <<job[p].target, content>> \in Good,
         files' \in {Put(files, job[p].target, content), Filled(job[p].target, content)},
         pc[p] \in Writing, pc'[p] \in Writing \ {"back_up", "copy"},
         pc'[p] \in {"cut", "fill"} => pc[p] \in {"back_up", "copy", "cut"}
  PROVE  GoodFiles(Good)' /\ GoodBackups(Good)' /\ Linked(mapping)' /\ GoodJob(Good, p)'
<1>1. GoodFiles(Good)'
  BY DEF GoodInv, GoodFiles, Put, Filled
<1>2. GoodBackups(Good)' /\ Linked(mapping)' /\ Linked(job[p].store)'
  BY DEF GoodInv, GoodBackups, GoodJob, Linked
<1>3. GoodJob(Good, p)'
  BY <1>2, WorksOn
<1> QED BY <1>1, <1>2, <1>3

LEMMA WrapIsGood ==
  ASSUME SafeInv, NEW Good, Closed(Good), GoodInv(Good), NEW p \in Processes, Cut(p) \/ Fill(p)
  PROVE  GoodFiles(Good)' /\ GoodBackups(Good)' /\ Linked(mapping)' /\ GoodJob(Good, p)'
<1>1. PICK content : content = render_wrapper(job[p].source, Current(p).class)
  OBVIOUS
<1>2. PICK torn : torn = Torn
  OBVIOUS
<1>3. CASE Cut(p)
  <2>1. /\ pc[p] = "cut" /\ files' = Put(files, job[p].target, torn) /\ Goto(p, "fill")
        /\ UNCHANGED <<backups, mapping, job>>
    BY <1>2, <1>3 DEF Cut
  <2>2. pc'[p] = "fill" /\ pc'[p] \in Writing /\ pc[p] \in Writing
    BY <2>1, AllLabels, GotoFacts DEF SafeInv
  <2>3. <<job[p].target, torn>> \in Good
    BY <1>2, <2>1, WrapWritesGood
  <2> QED BY <2>1, <2>2, <2>3, WriteIsGood
<1>4. CASE Fill(p)
  <2>1. /\ pc[p] = "fill" /\ files' = Filled(job[p].target, content) /\ Goto(p, "load")
        /\ UNCHANGED <<backups, mapping, job>>
    BY <1>1, <1>4 DEF Fill
  <2>2. pc'[p] = "load" /\ pc'[p] \in Writing /\ pc[p] \in Writing
    BY <2>1, AllLabels, GotoFacts DEF SafeInv
  <2>3. <<job[p].target, content>> \in Good
    BY <1>1, <2>1, WrapWritesGood
  <2> QED BY <2>1, <2>2, <2>3, WriteIsGood
<1> QED BY <1>3, <1>4


LEMMA LoadForWrapIsGood ==
  ASSUME SafeInv, NEW Good, GoodInv(Good), NEW p \in Processes, LoadForWrap(p)
  PROVE  GoodFiles(Good)' /\ GoodBackups(Good)' /\ Linked(mapping)' /\ GoodJob(Good, p)'
<1>1. pc[p] = "load" /\ UNCHANGED <<files, backups, mapping>>
  BY Zenon DEF LoadForWrap, shared
<1>2. CASE Ends(p, FALSE)
  <2>1. pc[p] # "idle" /\ pc[p] # "next"
    BY <1>1
  <2> QED BY <1>1, <1>2, <2>1, EndsAreGood
<1>3. CASE ~Ends(p, FALSE)
  <2>1. PICK entry : entry = MappingEntry(job[p].target, Current(p).override, job[p].backup)
    OBVIOUS
  <2>2. /\ job'[p].command = job[p].command /\ job'[p].queue = job[p].queue
        /\ job'[p].source = job[p].source /\ job'[p].target = job[p].target
        /\ job'[p].backup = job[p].backup /\ pc'[p] = "cut_mapping"
        /\ job'[p].store = Put(mapping, Key2(p), entry)
    BY <1>3, <2>1, LoadForWrapFacts DEF SafeInv
  <2>3. entry.backup = job[p].backup
    BY <2>1, Zenon DEF MappingEntry
  <2>4. entry.backup # NoKey =>
          entry.backup \in DOMAIN backups /\ entry.backup[2] = Key2(p)[1]
    <3>1. WorksSafely(p) /\ GoodJob(Good, p)
      BY DEF SafeInv, GoodInv
    <3>2. job[p].backup # NoKey => Current(p).op = "wrap" /\ job[p].target = job[p].source.id
      BY <1>1, <3>1 DEF WorksSafely, WrapsSafely, WrapTarget
    <3> QED BY <2>3, <3>1, <3>2 DEF GoodJob, Key2
  <2>5. /\ DOMAIN job'[p].store = DOMAIN mapping \cup {Key2(p)}
        /\ \A k \in DOMAIN job'[p].store :
             job'[p].store[k] = IF k = Key2(p) THEN entry ELSE mapping[k]
    BY <2>2 DEF Put
  <2>6. Linked(job[p].store)'
    <3>1. Linked(mapping) /\ DOMAIN backups' = DOMAIN backups
      BY <1>1 DEF GoodInv
    <3>2. ASSUME NEW k \in DOMAIN job'[p].store, job'[p].store[k].backup # NoKey
          PROVE  job'[p].store[k].backup \in DOMAIN backups /\ job'[p].store[k].backup[2] = k[1]
      BY <2>4, <2>5, <3>1, <3>2 DEF Linked
    <3> QED BY <3>1, <3>2 DEF Linked
  <2>7. GoodFiles(Good)' /\ GoodBackups(Good)' /\ Linked(mapping)'
    BY <1>1, NothingIsWritten
  <2>8. pc[p] \in Writing /\ pc'[p] \in Writing \ {"back_up"}
    BY <1>1, <2>2, AllLabels
  <2>9. GoodJob(Good, p)'
    BY <1>1, <2>2, <2>6, <2>8, WorksOn
  <2> QED BY <2>7, <2>9
<1> QED BY <1>2, <1>3

\* An unwrap is the only item of its queue.
LEMMA UnwrapIsAlone ==
  ASSUME SafeInv, NEW p \in Processes, pc[p] # "idle", job[p].command.op = "unwrap"
  PROVE  /\ Current(p) = job[p].command /\ job[p].queue # <<>> /\ ~IsSuggest(job[p].command)
         /\ Current(p).id \in Text /\ IsSeq(Current(p).id)
<1>1. /\ ~IsSuggest(job[p].command) /\ job[p].command \in Commands
      /\ job[p].queue = <<job[p].command>>
  BY DEF SafeInv, WorksSafely, Started, IsSuggest
<1>2. Current(p) = job[p].command /\ job[p].queue # <<>>
  BY <1>1 DEF Current
<1>3. job[p].command.id \in Text
  BY <1>1, DesktopAssumption DEF IsSuggest
<1> QED BY <1>1, <1>2, <1>3, SeqIsSeq DEF Text

LEMMA WrapperIdIsSome ==
  ASSUME NEW id, IsSeq(id), NEW class
  PROVE  wrapper_desktop_id(id, class) # None
<1> DEFINE wrapper == wrapper_desktop_id(id, class)
<1>1. Len(wrapper) >= 3
  BY WrapperId
<1>2. Len(<<>>) = 0
  OBVIOUS
<1> HIDE DEF wrapper
<1>3. wrapper # <<>>
  BY <1>1, <1>2
<1> QED BY <1>3 DEF None, wrapper

LEMMA LoadForUnwrapIsGood ==
  ASSUME SafeInv, NEW Good, GoodInv(Good), NEW p \in Processes, LoadForUnwrap(p)
  PROVE  GoodFiles(Good)' /\ GoodBackups(Good)' /\ Linked(mapping)' /\ GoodJob(Good, p)'
<1>1. pc[p] = "next" /\ job[p].command.op = "unwrap" /\ UNCHANGED <<files, backups, mapping>>
  BY Zenon DEF LoadForUnwrap, shared
<1>2. /\ Current(p) = job[p].command /\ job[p].queue # <<>> /\ ~IsSuggest(job[p].command)
      /\ IsSeq(Current(p).id)
  BY <1>1, UnwrapIsAlone
<1>3. CASE Ends(p, FALSE)
  BY <1>1, <1>2, <1>3, EndsAreGood
<1>4. CASE ~Ends(p, FALSE)
  <2>1. /\ job'[p].command = job[p].command /\ job'[p].queue = job[p].queue
        /\ job'[p].target = IF Current(p).override THEN Current(p).id
                            ELSE wrapper_desktop_id(Current(p).id, Current(p).class)
        /\ job'[p].store = mapping /\ pc'[p] = "undo"
    BY <1>4, LoadForUnwrapFacts DEF SafeInv
  <2>2. validate_desktop_id(Current(p).id)
    BY <1>4, Zenon DEF LoadForUnwrap
  <2>3. job'[p].target # None
    <3>1. Current(p).id # None
      BY <2>2 DEF validate_desktop_id
    <3>2. wrapper_desktop_id(Current(p).id, Current(p).class) # None
      BY <1>2, WrapperIdIsSome
    <3> HIDE DEF wrapper_desktop_id
    <3> QED BY <2>1, <3>1, <3>2
  <2>4. GoodFiles(Good)' /\ GoodBackups(Good)' /\ Linked(mapping)'
    BY <1>1, NothingIsWritten
  <2>5. Linked(job[p].store)'
    BY <1>1, <2>1 DEF GoodInv, Linked
  <2>6. WorksSafely(p)'
    <3>1. Advances(p)
      BY LoadForUnwrapKeeps
    <3> QED BY <3>1 DEF Advances
  <2>7. job'[p].backup = NoKey
    BY <2>1, <2>6 DEF WorksSafely, BackupIsOwn
  <2>8. ~IsSuggest(job'[p].command)
    BY <1>2, <2>1 DEF IsSuggest
  <2>9. job'[p].queue # <<>> /\ pc'[p] \notin {"back_up", "copy", "cut", "fill"} /\ pc'[p] # "copy"
    BY <1>2, <2>1
  <2>10. GoodJob(Good, p)'
    BY <2>3, <2>5, <2>7, <2>8, <2>9, Zenon DEF GoodJob
  <2> QED BY <2>4, <2>10
<1> QED BY <1>3, <1>4

\* The backup that is put back is of the file that it is put back for.
LEMMA RestoredIsGood ==
  ASSUME SafeInv, NEW Good, Closed(Good), GoodInv(Good), NEW p \in Processes,
         pc[p] \in {"undo", "restore"}, BackupToRestore(p) # NoKey
  PROVE  /\ <<job[p].target, backups[BackupToRestore(p)]>> \in Good
         /\ <<job[p].target, Torn>> \in Good
<1> DEFINE b == BackupToRestore(p)
<1>1. /\ Current(p).override /\ Key2(p) \in DOMAIN job[p].store
      /\ b = job[p].store[Key2(p)].backup /\ b \in DOMAIN backups
  BY DEF BackupToRestore
<1>2. Current(p).op = "unwrap" /\ job[p].target = Current(p).id
  BY <1>1 DEF SafeInv, WorksSafely, UnwrapsSafely
<1>3. Key2(p)[1] = Current(p).id
  BY <1>2 DEF Key2
<1>4. Linked(job[p].store)
  BY DEF GoodInv, GoodJob
<1> HIDE DEF b
<1>5. b # NoKey
  BY DEF b
<1>6. b[2] = job[p].target
  BY <1>1, <1>2, <1>3, <1>4, <1>5 DEF Linked
<1>7. <<job[p].target, backups[b]>> \in Good
  BY <1>1, <1>6 DEF GoodInv, GoodBackups
<1> QED BY <1>7 DEF b, Closed

LEMMA UnwrapIsGood ==
  ASSUME SafeInv, NEW Good, Closed(Good), GoodInv(Good), NEW p \in Processes,
         RestoreCut(p) \/ Restore(p) \/ RemoveFile(p)
  PROVE  GoodFiles(Good)' /\ GoodBackups(Good)' /\ Linked(mapping)' /\ GoodJob(Good, p)'
<1>1. CASE RestoreCut(p)
  <2>1. PICK torn : torn = Torn
    OBVIOUS
  <2>2. /\ pc[p] = "undo" /\ files' = Put(files, job[p].target, torn) /\ Goto(p, "restore")
        /\ UNCHANGED <<backups, mapping, job>> /\ BackupToRestore(p) # NoKey
    BY <1>1, <2>1 DEF RestoreCut
  <2>3. pc'[p] = "restore" /\ pc'[p] \in Writing /\ pc[p] \in Writing
    BY <2>2, AllLabels, GotoFacts DEF SafeInv
  <2>4. <<job[p].target, torn>> \in Good
    BY <2>1, <2>2, RestoredIsGood
  <2> QED BY <2>2, <2>3, <2>4, WriteIsGood
<1>2. CASE Restore(p) \/ RemoveFile(p)
  <2>1. /\ job'[p].command = job[p].command /\ job'[p].queue = job[p].queue
        /\ job'[p].target = job[p].target
        /\ job'[p].store = Without(job[p].store, Key2(p)) /\ pc'[p] = "cut_mapping"
    BY <1>2, UndoesFacts DEF SafeInv
  <2>2. pc[p] \in {"undo", "restore"} /\ UNCHANGED <<backups, mapping>>
    BY <1>2 DEF Restore, RemoveFile
  <2>3. GoodFiles(Good)'
    <3>1. CASE Restore(p)
      <4>1. PICK content : content = backups[BackupToRestore(p)]
        OBVIOUS
      <4>2. pc[p] = "restore" /\ files' = Filled(job[p].target, content)
        BY <3>1, <4>1 DEF Restore
      <4>3. BackupToRestore(p) # NoKey
        BY <4>2 DEF SafeInv, WorksSafely, UnwrapsSafely
      <4>4. <<job[p].target, content>> \in Good
        BY <4>1, <4>2, <4>3, RestoredIsGood
      <4> QED BY <4>2, <4>4 DEF GoodInv, GoodFiles, Filled
    <3>2. CASE RemoveFile(p)
      <4>1. files' = Without(files, job[p].target)
        BY <3>2 DEF RemoveFile
      <4> QED BY <4>1 DEF GoodInv, GoodFiles, Without
    <3> QED BY <1>2, <3>1, <3>2
  <2>4. GoodBackups(Good)' /\ Linked(mapping)'
    BY <2>2 DEF GoodInv, GoodBackups, Linked
  <2>5. Linked(job[p].store)'
    <3>1. Linked(job[p].store)
      BY DEF GoodInv, GoodJob
    <3> QED BY <2>1, <2>2, <3>1 DEF Linked, Without
  <2>6. job'[p].backup = job[p].backup
    <3>1. PICK store : store = Without(job[p].store, Key2(p))
      OBVIOUS
    <3>2. PICK gone : gone = (job[p].target \in DOMAIN files)
      OBVIOUS
    <3>3. \E flag : Set(p, [job[p] EXCEPT !.removed = flag, !.store = Without(@, Key2(p))])
      <4>1. CASE Restore(p)
        BY <4>1, Zenon DEF Restore
      <4>2. CASE RemoveFile(p)
        <5>1. Set(p, [job[p] EXCEPT !.removed = gone, !.store = Without(@, Key2(p))])
          BY <3>2, <4>2, Zenon DEF RemoveFile
        <5> QED BY <5>1, Zenon
      <4> QED BY <1>2, <4>1, <4>2, Zenon
    <3>4. PICK flag : Set(p, [job[p] EXCEPT !.removed = flag, !.store = Without(@, Key2(p))])
      BY <3>3, Zenon
    <3>5. PICK r : r = [job[p] EXCEPT !.removed = flag, !.store = store]
      OBVIOUS
    <3>6. Set(p, r) /\ IsJob(job[p])
      BY <3>1, <3>4, <3>5, Zenon DEF SafeInv, Shapes
    <3>7. r = Job(job[p].command, job[p].queue, job[p].source, job[p].target, job[p].backup, store,
                  flag)
      BY <3>5, <3>6, RemovedAndStore, Zenon
    <3>8. IsJob(r) /\ r.backup = job[p].backup
      BY <3>7 DEF IsJob, Job
    <3> QED BY <3>6, <3>8, SetFacts DEF SafeInv
  <2>7. pc[p] \in Writing /\ pc'[p] \in Writing \ {"back_up"}
    BY <2>1, <2>2, AllLabels
  <2>8. GoodJob(Good, p)'
    BY <2>1, <2>2, <2>5, <2>6, <2>7, WorksOn
  <2> QED BY <2>3, <2>4, <2>5, <2>8
<1> QED BY <1>1, <1>2

LEMMA MappingIsGood ==
  ASSUME SafeInv, NEW Good, GoodInv(Good), NEW p \in Processes,
         CutMapping(p) \/ FillMapping(p) \/ NothingToCopy(p) \/ CallFails(p)
  PROVE  GoodFiles(Good)' /\ GoodBackups(Good)' /\ Linked(mapping)' /\ GoodJob(Good, p)'
<1>1. CASE CutMapping(p)
  <2>1. pc[p] = "cut_mapping" /\ Goto(p, "fill_mapping") /\ UNCHANGED <<files, backups, mapping, job>>
    BY <1>1 DEF CutMapping
  <2>2. pc'[p] = "fill_mapping" /\ pc[p] \in Writing /\ pc'[p] \in Writing
    BY <2>1, AllLabels, GotoFacts DEF SafeInv
  <2>3. GoodFiles(Good)' /\ GoodBackups(Good)' /\ Linked(mapping)' /\ Linked(job[p].store)'
    BY <2>1 DEF GoodInv, GoodFiles, GoodBackups, GoodJob, Linked
  <2>4. GoodJob(Good, p)'
    BY <2>1, <2>2, <2>3, WorksOn
  <2> QED BY <2>3, <2>4
<1>2. CASE FillMapping(p)
  <2>1. PICK ok : ok = (Current(p).op = "wrap" \/ job[p].removed)
    OBVIOUS
  <2>2. /\ pc[p] = "fill_mapping" /\ mapping' = job[p].store /\ Ends(p, ok)
        /\ UNCHANGED <<files, backups>>
    BY <1>2, <2>1, Zenon DEF FillMapping
  <2>3. pc[p] # "idle" /\ pc[p] # "next"
    BY <2>2
  <2> QED BY <2>2, <2>3, EndsAreGood
<1>3. CASE NothingToCopy(p) \/ CallFails(p)
  <2>1. pc[p] \in Writing /\ Ends(p, FALSE) /\ UNCHANGED <<files, backups, mapping>>
    BY <1>3, AllLabels, Zenon DEF NothingToCopy, CallFails, shared
  <2>2. pc[p] # "idle" /\ pc[p] # "next"
    BY <2>1 DEF Writing
  <2> QED BY <2>1, <2>2, EndsAreGood
<1> QED BY <1>1, <1>2, <1>3

LEMMA GoodNext ==
  ASSUME NEW Good, Closed(Good), PlainFiles, SafeInv, GoodInv(Good), [Next]_vars
  PROVE  GoodInv(Good)'
<1>1. ASSUME NEW p \in Processes, Run(p) \/ CallFails(p) \/ Kill(p)
      PROVE  GoodInv(Good)'
  <2>1. OthersStay(p) /\ DOMAIN backups \subseteq DOMAIN backups'
    BY <1>1, StepAdvances DEF Advances, Grows
  <2>2. GoodFiles(Good)' /\ GoodBackups(Good)' /\ Linked(mapping)' /\ GoodJob(Good, p)'
    BY <1>1, BeginIsGood, SuggestDoneIsGood, ResolveWrapIsGood, BackUpIsGood, CopyIsGood, WrapIsGood,
       LoadForWrapIsGood, LoadForUnwrapIsGood, UnwrapIsGood, MappingIsGood DEF Run
  <2> QED BY <2>1, <2>2, GoodStays
<1>2. CASE UNCHANGED vars
  <2>1. UNCHANGED <<files, backups, mapping, pc, job>>
    BY <1>2 DEF vars, shared
  <2> QED BY <2>1 DEF GoodInv, GoodFiles, GoodBackups, GoodJob, Linked, Current
<1> QED BY <1>1, <1>2 DEF Next

LEMMA GoodInit ==
  ASSUME NEW Good, Closed(Good), Init
  PROVE  GoodInv(Good)
<1>1. /\ files = UserFiles /\ backups = <<>> /\ mapping = <<>>
      /\ pc = [p \in Processes |-> "idle"] /\ job = [p \in Processes |-> NoJob]
  BY DEF Init
<1>2. NoJob.backup = NoKey /\ NoJob.store = <<>>
  BY DEF NoJob
<1>3. GoodFiles(Good) /\ GoodBackups(Good) /\ Linked(mapping) /\ Linked(<<>>)
  BY <1>1 DEF GoodFiles, GoodBackups, Linked, Closed
<1>4. ASSUME NEW p \in Processes PROVE GoodJob(Good, p)
  <2>1. job[p].backup = NoKey /\ job[p].store = <<>> /\ pc[p] = "idle" /\ "idle" \notin Writing
    BY <1>1, <1>2 DEF Writing
  <2> QED BY <1>3, <2>1 DEF GoodJob
<1> QED BY <1>3, <1>4 DEF GoodInv


-----------------------------------------------------------------------------
(* The types.                                                              *)

TypedFiles == (Text \ {None}) \X [name : Text, exec : Exec]

LEMMA OwnWordsAreWords ==
  /\ "resguard" \in Words /\ "run" \in Words /\ "class" \in Words /\ "desktop" \in Words
  /\ "-" \in Words /\ "." \in Words /\ "(" \in Words /\ ":" \in Words /\ ")" \in Words
  /\ "heavy" \in Words /\ "ide" \in Words /\ "browsers" \in Words /\ NoClass \in Words
  BY DesktopAssumption DEF OwnWords

LEMMA Tuples ==
  ASSUME NEW S, NEW a \in S, NEW b \in S, NEW c \in S, NEW d \in S, NEW e \in S, NEW f \in S
  PROVE  /\ <<a>> \in Seq(S) /\ <<a, b>> \in Seq(S) /\ <<a, b, c>> \in Seq(S)
         /\ <<a, b, c, d, e>> \in Seq(S) /\ <<a, b, c, d, e, f>> \in Seq(S)
  OBVIOUS

LEMMA SeqOfSeqs ==
  ASSUME NEW S, NEW s \in Seq(S), NEW t \in Seq(S)
  PROVE  s \o t \in Seq(S)
  OBVIOUS

LEMMA ClassesAreWords == Classes \subseteq Words
<1>1. \A c \in Commands : ~IsSuggest(c) => c.class \in Words
  BY DesktopAssumption DEF IsSuggest
<1>2. ASSUME NEW s \in Scopes PROVE classify(s, Rules).class \in Words
  <2> DEFINE matching == {i \in DOMAIN Rules : simple_pattern_match(Rules[i].pattern, Hay(s))}
             first == CHOOSE i \in matching : \A j \in matching : i <= j
  <2>1. CASE matching # {}
    <3> DEFINE Recs == [class : Words, pattern : SUBSET Text]
    <3>1. Rules \in Seq(Recs) /\ \A r \in Recs : r.class \in Words
      BY DesktopAssumption
    <3> HIDE DEF Recs
    <3>2. DOMAIN Rules \subseteq Nat /\ \A i \in DOMAIN Rules : Rules[i] \in Recs
      BY <3>1
    <3>3. matching \subseteq Nat /\ matching \subseteq DOMAIN Rules
      BY <3>2
    <3>4. \E yes, no : classify(s, Rules) = ClassMatch(Rules[first].class, yes, no)
      BY <2>1, Zenon DEF classify
    <3> HIDE DEF matching
    <3>5. first \in matching
      BY <2>1, <3>3, NatSmallest
    <3> HIDE DEF first
    <3>6. Rules[first].class \in Words
      BY <3>1, <3>2, <3>3, <3>5
    <3>7. \A class, pattern, memory : ClassMatch(class, pattern, memory).class = class
      BY Zenon DEF ClassMatch
    <3>8. classify(s, Rules).class = Rules[first].class
      BY <3>4, <3>7
    <3> QED BY <3>6, <3>8
  <2>2. CASE matching = {}
    <3>1. classify(s, Rules) = ClassifyBuiltin(s)
      BY <2>2, Zenon DEF classify
    <3>2. \A class, pattern, memory : ClassMatch(class, pattern, memory).class = class
      BY Zenon DEF ClassMatch
    <3>3. \E yes, no : \/ ClassifyBuiltin(s) = ClassMatch("heavy", yes, no)
                       \/ ClassifyBuiltin(s) = ClassMatch("ide", yes, no)
                       \/ ClassifyBuiltin(s) = ClassMatch("browsers", yes, no)
                       \/ ClassifyBuiltin(s) = ClassMatch(NoClass, yes, no)
      BY Zenon DEF ClassifyBuiltin, NoMatch
    <3>4. \/ ClassifyBuiltin(s).class = "heavy" \/ ClassifyBuiltin(s).class = "ide"
          \/ ClassifyBuiltin(s).class = "browsers" \/ ClassifyBuiltin(s).class = NoClass
      BY <3>2, <3>3
    <3> HIDE DEF matching, first
    <3> QED BY <3>1, <3>4, OwnWordsAreWords
  <2> QED BY <2>1, <2>2
<1> QED BY <1>1, <1>2 DEF Classes

LEMMA TypedFilesAreClosed == Closed(TypedFiles)
<1>1. ASSUME NEW e \in SystemEntries PROVE <<e.id, Content(e.name, e.exec)>> \in TypedFiles
  <2>1. e \in [id : Text \ {None}, dir : Nat \ {UserDir}, name : Text, exec : Exec]
    BY DesktopAssumption
  <2> QED BY <2>1 DEF TypedFiles, Content, Exec
<1>2. ASSUME NEW id \in DOMAIN UserFiles PROVE <<id, UserFiles[id]>> \in TypedFiles
  <2>1. id \in Text \ {None} /\ UserFiles[id] \in [name : Text, exec : Exec]
    BY DesktopAssumption
  <2> QED BY <2>1 DEF TypedFiles, Exec
<1>3. ASSUME NEW id, NEW content, <<id, content>> \in TypedFiles
      PROVE  /\ id # None /\ <<id, Torn>> \in TypedFiles
             /\ \A class \in Classes :
                  \A place \in {id, wrapper_desktop_id(id, class)} :
                    <<place, render_wrapper(content, class)>> \in TypedFiles
  <2>1. /\ id \in Text /\ id # None
        /\ content \in [name : Text, exec : Exec]
    BY <1>3 DEF TypedFiles
  <2>2. <<id, Torn>> \in TypedFiles
    <3>1. <<>> \in Text /\ <<>> \in Exec
      BY DEF Text, Exec
    <3> QED BY <2>1, <3>1 DEF TypedFiles, Torn, Content, None
  <2>3. ASSUME NEW class \in Classes
        PROVE  /\ wrapper_desktop_id(id, class) \in Text \ {None}
               /\ render_wrapper(content, class) \in [name : Text, exec : Exec]
    <3>1. class \in Words
      BY ClassesAreWords
    <3>2. wrapper_desktop_id(id, class) \in Text
      <4>1. <<".", "desktop", ".", "resguard", "-", class>> \in Seq(Words)
        BY <3>1, OwnWordsAreWords, Tuples, Zenon
      <4> QED BY <2>1, <4>1, SeqOfSeqs DEF wrapper_desktop_id, Text
    <3>3. wrapper_desktop_id(id, class) # None
      <4>1. IsSeq(id)
        BY <2>1, SeqIsSeq DEF Text
      <4> QED BY <4>1, WrapperIdIsSome
    <3>4. content.name \in Text /\ content.exec \in Exec
      BY <2>1
    <3>5. content.name \o <<"(", "resguard", ":", class, ")">> \in Text
      <4>1. <<"(", "resguard", ":", class, ")">> \in Seq(Words)
        BY <3>1, OwnWordsAreWords, Tuples, Zenon
      <4> QED BY <3>4, <4>1, SeqOfSeqs DEF Text
    <3>6. wrap_exec(content.exec, class) \in Exec
      <4> DEFINE run0 == <<<<"resguard">>, <<"run">>, <<"-", "-", "class">>, <<class>>, <<"-", "-">>>>
      <4>1. /\ <<class>> \in Text /\ <<"resguard">> \in Text /\ <<"run">> \in Text
            /\ <<"-", "-", "class">> \in Text /\ <<"-", "-">> \in Text
        BY <3>1, OwnWordsAreWords, Tuples, Zenon DEF Text
      <4>2. run0 \in Seq(Text)
        BY <4>1, Tuples, Zenon
      <4> HIDE DEF run0
      <4>3. run0 \o content.exec \in Seq(Text)
        BY <3>4, <4>2, SeqOfSeqs DEF Exec
      <4> QED BY <4>3 DEF wrap_exec, run0, Exec
    <3> QED BY <3>2, <3>3, <3>5, <3>6 DEF render_wrapper, Content
  <2> HIDE DEF wrapper_desktop_id, render_wrapper
  <2> QED BY <2>1, <2>2, <2>3 DEF TypedFiles
<1> QED BY <1>1, <1>2, <1>3 DEF Closed

\* The flags and the counters.
Bounded ==
  /\ mapping_torn \in BOOLEAN /\ converged \in BOOLEAN /\ overlapped \in BOOLEAN
  /\ clashed \in BOOLEAN
  /\ commands \in 0..MaxCommands /\ faults \in 0..MaxFaults

LEMMA BoundedNext == Bounded /\ [Next]_vars => Bounded'
<1> SUFFICES ASSUME Bounded, [Next]_vars PROVE Bounded'
  OBVIOUS
<1>1. MaxCommands \in Nat /\ MaxFaults \in Nat
  BY DesktopAssumption
<1>2. ASSUME NEW p \in Processes, Run(p) \/ CallFails(p) \/ Kill(p)
      PROVE  /\ mapping_torn' \in BOOLEAN /\ converged' \in BOOLEAN /\ overlapped' \in BOOLEAN
             /\ clashed' \in BOOLEAN
             /\ \/ commands' = commands
                \/ commands' = commands + 1 /\ commands < MaxCommands
             /\ faults' = faults \/ (faults' = faults + 1 /\ faults < MaxFaults)
  <2>1. \A ok : Ends(p, ok) => converged' = converged /\ overlapped' = overlapped
    BY Zenon DEF Ends, Continues, Succeeds, Fails, ghosts
  <2>2. \A c : Begins(p, c) => converged' \in BOOLEAN /\ overlapped' \in BOOLEAN
    BY Zenon DEF Begins
  <2>3. Continues => converged' = converged /\ overlapped' = overlapped
    BY DEF Continues, ghosts
  <2>4. CASE Begin(p)
    BY <2>2, <2>4, Zenon DEF Begin, shared, Bounded
  <2>5. CASE SuggestDone(p)
    <3>1. converged' \in BOOLEAN
      BY <2>5, Zenon DEF SuggestDone
    <3> QED BY <2>5, <3>1 DEF SuggestDone, shared, counts, Bounded
  <2>6. CASE ResolveWrap(p)
    <3>1. Ends(p, FALSE) \/ Ends(p, TRUE) \/ Continues
      BY <2>6, Zenon DEF ResolveWrap, WrapTakes
    <3>2. UNCHANGED <<mapping_torn, clashed, commands, faults>>
      BY <2>6, Zenon DEF ResolveWrap, shared, counts
    <3> QED BY <2>1, <2>3, <3>1, <3>2 DEF Bounded
  <2>7. CASE BackUp(p) \/ Copy(p) \/ Cut(p) \/ Fill(p) \/ CutMapping(p) \/ FillMapping(p)
    <3>1. (\E ok : Ends(p, ok)) \/ Continues
      BY <2>7, Zenon DEF BackUp, Copy, Cut, Fill, CutMapping, FillMapping
    <3>2. mapping_torn' \in {mapping_torn, TRUE, FALSE} /\ UNCHANGED <<commands, faults>>
      BY <2>7, Zenon DEF BackUp, Copy, Cut, Fill, CutMapping, FillMapping, counts
    <3>3. clashed' = clashed \/ clashed' = (clashed \/ <<clock', job[p].target>> \in DOMAIN backups)
      BY <2>7, Zenon DEF BackUp, Copy, Cut, Fill, CutMapping, FillMapping
    <3>4. clashed' \in BOOLEAN
      BY <3>3, Zenon DEF Bounded
    <3> QED BY <2>1, <2>3, <3>1, <3>2, <3>4, Zenon DEF Bounded
  <2>8. CASE \/ NothingToCopy(p) \/ LoadForWrap(p) \/ LoadForUnwrap(p)
             \/ RestoreCut(p) \/ Restore(p) \/ RemoveFile(p)
    <3>1. Ends(p, FALSE) \/ Continues
      BY <2>8, Zenon DEF NothingToCopy, LoadForWrap, LoadForUnwrap, RestoreCut, Restore, RemoveFile
    <3>2. UNCHANGED <<mapping_torn, clashed, commands, faults>>
      BY <2>8, Zenon DEF NothingToCopy, LoadForWrap, LoadForUnwrap, RestoreCut, Restore, RemoveFile,
                         shared, counts
    <3> QED BY <2>1, <2>3, <3>1, <3>2 DEF Bounded
  <2>9. CASE CallFails(p) \/ Kill(p)
    <3>1. converged' = converged /\ overlapped' = overlapped
      BY <2>1, <2>9, Zenon DEF CallFails, Kill, Fails
    <3>2. /\ mapping_torn' = mapping_torn /\ clashed' = clashed /\ commands' = commands
          /\ faults' = faults + 1 /\ faults < MaxFaults
      BY <2>9 DEF CallFails, Kill, shared
    <3> QED BY <3>1, <3>2 DEF Bounded
  <2> QED BY <1>2, <2>4, <2>5, <2>6, <2>7, <2>8, <2>9, Zenon DEF Run
<1>3. CASE UNCHANGED vars
  BY <1>3 DEF vars, shared, counts, ghosts, Bounded
<1>4. CASE Next
  <2>1. PICK p \in Processes : Run(p) \/ CallFails(p) \/ Kill(p)
    BY <1>4 DEF Next
  <2>2. /\ mapping_torn' \in BOOLEAN /\ converged' \in BOOLEAN /\ overlapped' \in BOOLEAN
        /\ clashed' \in BOOLEAN
    BY <1>2, <2>1
  <2>3. commands' \in 0..MaxCommands /\ faults' \in 0..MaxFaults
    BY <1>1, <1>2, <2>1 DEF Bounded
  <2> QED BY <2>2, <2>3, Zenon DEF Bounded
<1> QED BY <1>3, <1>4

\* Types; a backup that the mapping names is there, a job has a backup only of
\* its target, and whoever writes has something to do and a place to write to.
THEOREM TypeOKHolds ==
  ASSUME PlainFiles
  PROVE  Spec => []TypeOK
<1>1. Init => SafeInv /\ GoodInv(TypedFiles) /\ Bounded
  <2> SUFFICES ASSUME Init PROVE SafeInv /\ GoodInv(TypedFiles) /\ Bounded
    OBVIOUS
  <2>1. MaxCommands \in Nat /\ MaxFaults \in Nat
    BY DesktopAssumption
  <2>2. commands \in 0..MaxCommands /\ faults \in 0..MaxFaults
    BY <2>1 DEF Init
  <2>3. /\ mapping_torn \in BOOLEAN /\ converged \in BOOLEAN /\ overlapped \in BOOLEAN
        /\ clashed \in BOOLEAN
    BY Zenon DEF Init
  <2>4. Bounded
    BY <2>2, <2>3, Zenon DEF Bounded
  <2> QED BY <2>4, SafeInit, GoodInit, TypedFilesAreClosed
<1>2. SafeInv /\ GoodInv(TypedFiles) /\ Bounded /\ [Next]_vars
      => SafeInv' /\ GoodInv(TypedFiles)' /\ Bounded'
  BY SafeNext, GoodNext, TypedFilesAreClosed, BoundedNext
<1>3. SafeInv /\ GoodInv(TypedFiles) /\ Bounded => TypeOK
  <2> SUFFICES ASSUME SafeInv, GoodInv(TypedFiles), Bounded PROVE TypeOK
    OBVIOUS
  <2>1. \A id \in DOMAIN files : files[id] \in [name : Text, exec : Exec]
    BY DEF GoodInv, GoodFiles, TypedFiles
  <2>2. \A k \in DOMAIN backups : k[1] \in 0..clock
    BY DEF SafeInv, Shapes
  <2>3. \A k \in DOMAIN mapping : mapping[k].backup = NoKey \/ mapping[k].backup \in DOMAIN backups
    BY DEF GoodInv, Linked
  <2>4. {mapping_torn, converged, overlapped, clashed} \subseteq BOOLEAN
    BY Zenon DEF Bounded
  <2>5. pc \in [Processes -> Writing \cup {"idle", "next"}]
    BY DEF SafeInv, Shapes
  <2>6. \A p \in Processes :
          /\ pc[p] \in Writing => job[p].queue # <<>> /\ job[p].target # None
          /\ job[p].backup # NoKey => job[p].backup[2] = job[p].target
    BY DEF GoodInv, GoodJob
  <2>7. commands \in 0..MaxCommands /\ faults \in 0..MaxFaults
    BY DEF Bounded
  <2> QED BY <2>1, <2>2, <2>3, <2>4, <2>5, <2>6, <2>7, Zenon DEF TypeOK
<1> QED BY <1>1, <1>2, <1>3, PTL DEF Spec


-----------------------------------------------------------------------------
(* The steps of a suggest.                                                 *)

\* What every step of a suggest but its first and its last leaves alone.
KeepsOn(p) ==
  /\ job'[p].command = job[p].command
  /\ UNCHANGED <<start, alone, converged, overlapped>>

\* It takes the next item: the source is found and nothing is in the way.
TakesItem(p) ==
  LET found == resolve_desktop_id(Current(p).id, Entries) IN
  /\ KeepsOn(p) /\ pc[p] = "next" /\ pc'[p] = "cut" /\ UNCHANGED <<files, faults>>
  /\ job[p].queue # <<>> /\ job'[p].queue = job[p].queue
  /\ IsFound(found) /\ ~Refuses(Current(p), found.entry, WrapTarget(Current(p), found.entry))
  /\ job'[p].source = found.entry
  /\ job'[p].target = wrapper_desktop_id(found.entry.id, Current(p).class)

\* It cuts and fills the wrapper and records it.
WritesItem(p) ==
  /\ KeepsOn(p) /\ job'[p].source = job[p].source /\ job'[p].target = job[p].target
  /\ job'[p].queue = job[p].queue /\ faults' = faults
  /\ \/ pc[p] = "cut" /\ pc'[p] = "fill" /\ files' = Put(files, job[p].target, Torn)
     \/ /\ pc[p] = "fill" /\ pc'[p] = "load"
        /\ files' = Filled(job[p].target, render_wrapper(job[p].source, Current(p).class))
     \/ pc[p] = "load" /\ pc'[p] = "cut_mapping" /\ files' = files
     \/ pc[p] = "cut_mapping" /\ pc'[p] = "fill_mapping" /\ files' = files

\* It is through with an item.
EndsItem(p) ==
  /\ KeepsOn(p) /\ pc'[p] = "next" /\ job'[p].queue = Tail(job[p].queue) /\ files' = files
  /\ job[p].queue # <<>>
  /\ \/ /\ pc[p] = "next" /\ faults' = faults
        /\ LET found == resolve_desktop_id(Current(p).id, Entries) IN
           \/ ~IsFound(found)
           \/ Refuses(Current(p), found.entry, WrapTarget(Current(p), found.entry))
     \/ pc[p] \in {"load", "fill_mapping"} /\ faults' = faults
     \/ pc[p] \in {"cut", "fill", "load", "cut_mapping", "fill_mapping"} /\ faults' = faults + 1

Exits(p) == pc'[p] = "idle" /\ files' = files /\ alone' = alone

LEMMA SuggestSteps ==
  ASSUME SafeInv, NEW Good, GoodInv(Good), NEW p \in Processes,
         pc[p] # "idle", IsSuggest(job[p].command), Run(p) \/ CallFails(p) \/ Kill(p)
  PROVE  TakesItem(p) \/ WritesItem(p) \/ EndsItem(p) \/ Exits(p)
<1>1. Shapes /\ WorksSafely(p) /\ GoodJob(Good, p)
  BY DEF SafeInv, GoodInv
<1>2. job[p].queue # <<>> => IsPlannedWrap(Current(p))
  BY CurrentIs
<1>3. pc[p] \in Writing => job[p].queue # <<>> /\ pc[p] # "next"
  BY <1>1 DEF GoodJob, Writing
<1>4. pc[p] \notin {"back_up", "copy", "undo", "restore"}
  <2>1. job[p].queue # <<>> => Current(p).op = "wrap" /\ ~Current(p).override /\ "wrap" # "unwrap"
    BY <1>2 DEF IsPlannedWrap
  <2>2. pc[p] \in {"back_up", "copy", "undo", "restore"} => pc[p] \in Writing
    BY AllLabels
  <2>3. pc[p] \in {"back_up", "copy"} => Current(p).override
    BY <1>1 DEF WorksSafely, WrapsSafely
  <2>4. pc[p] \in {"undo", "restore"} => Current(p).op = "unwrap"
    BY <1>1 DEF WorksSafely, UnwrapsSafely
  <2> QED BY <1>3, <2>1, <2>2, <2>3, <2>4
<1>5. ASSUME NEW ok, Ends(p, ok)
      PROVE  KeepsOn(p) /\ pc'[p] = "next" /\ job'[p].queue = Tail(job[p].queue)
  <2>1. /\ job'[p].queue = Tail(job[p].queue) /\ job'[p].command = job[p].command
        /\ pc'[p] = "next" /\ UNCHANGED <<start, alone, converged>>
    BY <1>1, <1>5, EndsJob
  <2>2. UNCHANGED overlapped
    BY <1>5, Zenon DEF Ends, Continues, ghosts
  <2> QED BY <2>1, <2>2 DEF KeepsOn
<1>6. /\ ~Begin(p) /\ ~BackUp(p) /\ ~Copy(p) /\ ~NothingToCopy(p)
      /\ ~RestoreCut(p) /\ ~Restore(p) /\ ~RemoveFile(p)
  BY <1>4, Zenon DEF Begin, BackUp, Copy, NothingToCopy, RestoreCut, Restore, RemoveFile
<1>7. ~LoadForUnwrap(p)
  <2>1. job[p].command.op # "unwrap"
    BY DEF IsSuggest
  <2> QED BY <2>1, Zenon DEF LoadForUnwrap
<1>8. CASE ResolveWrap(p)
  <2> DEFINE found == resolve_desktop_id(Current(p).id, Entries)
             target == WrapTarget(Current(p), found.entry)
  <2>1. pc[p] = "next" /\ job[p].queue # <<>> /\ UNCHANGED <<files, faults>>
    BY <1>8, Zenon DEF ResolveWrap, shared, counts
  <2>2. ~Current(p).override /\ Current(p).preview = {}
    BY <1>2, <2>1 DEF IsPlannedWrap
  <2>3. \/ (~IsFound(found) \/ Refuses(Current(p), found.entry, target)) /\ Ends(p, FALSE)
        \/ /\ IsFound(found) /\ ~Refuses(Current(p), found.entry, target)
           /\ WrapTakes(p, found.entry, target)
    BY <1>8, <2>2, Zenon DEF ResolveWrap
  <2>4. CASE (~IsFound(found) \/ Refuses(Current(p), found.entry, target)) /\ Ends(p, FALSE)
    <3>1. KeepsOn(p) /\ pc'[p] = "next" /\ job'[p].queue = Tail(job[p].queue)
      BY <1>5, <2>4
    <3> QED BY <2>1, <2>4, <3>1, Zenon DEF EndsItem
  <2>5. CASE /\ IsFound(found) /\ ~Refuses(Current(p), found.entry, target)
             /\ WrapTakes(p, found.entry, target)
    <3>1. PICK entry : entry = found.entry
      OBVIOUS
    <3>2. PICK place : place = target
      OBVIOUS
    <3>3. WrapTakes(p, entry, place)
      BY <2>5, <3>1, <3>2
    <3>4. /\ job'[p].command = job[p].command /\ job'[p].queue = job[p].queue
          /\ job'[p].source = entry /\ job'[p].target = place
          /\ pc'[p] = IF Current(p).override /\ place \in DOMAIN files THEN "back_up" ELSE "cut"
      BY <1>1, <3>3, WrapTakesFacts
    <3>5. pc'[p] = "cut"
      BY <2>2, <3>4
    <3>6. place = wrapper_desktop_id(entry.id, Current(p).class)
      BY <2>2, <3>1, <3>2 DEF WrapTarget
    <3>7. KeepsOn(p)
      BY <3>3, <3>4 DEF WrapTakes, Continues, ghosts, KeepsOn
    <3> QED BY <2>1, <2>5, <3>1, <3>2, <3>4, <3>5, <3>6, <3>7, Zenon DEF TakesItem
  <2> QED BY <2>3, <2>4, <2>5
<1>9. CASE Cut(p) \/ Fill(p) \/ CutMapping(p)
  <2>1. /\ UNCHANGED <<job, faults>> /\ Continues
        /\ \/ pc[p] = "cut" /\ Goto(p, "fill") /\ files' = Put(files, job[p].target, Torn)
           \/ /\ pc[p] = "fill" /\ Goto(p, "load")
              /\ files' = Filled(job[p].target, render_wrapper(job[p].source, Current(p).class))
           \/ pc[p] = "cut_mapping" /\ Goto(p, "fill_mapping") /\ files' = files
    BY <1>9 DEF Cut, Fill, CutMapping, counts
  <2>2. \A label \in Writing : Goto(p, label) => pc'[p] = label
    BY <1>1, GotoFacts
  <2>3. KeepsOn(p)
    BY <2>1 DEF Continues, ghosts, KeepsOn
  <2> QED BY <2>1, <2>2, <2>3, AllLabels DEF WritesItem
<1>10. CASE LoadForWrap(p)
  <2>1. pc[p] = "load" /\ UNCHANGED <<files, faults>>
    BY <1>10, Zenon DEF LoadForWrap, shared, counts
  <2>2. CASE Ends(p, FALSE)
    BY <1>3, <1>5, <2>1, <2>2, AllLabels DEF EndsItem
  <2>3. CASE ~Ends(p, FALSE)
    <3>1. /\ job'[p].command = job[p].command /\ job'[p].queue = job[p].queue
          /\ job'[p].source = job[p].source /\ job'[p].target = job[p].target
          /\ pc'[p] = "cut_mapping"
      BY <1>1, <1>10, <2>3, LoadForWrapFacts
    <3>2. Continues
      BY <1>10, <2>3, Zenon DEF LoadForWrap
    <3> QED BY <2>1, <3>1, <3>2 DEF WritesItem, KeepsOn, Continues, ghosts
  <2> QED BY <2>2, <2>3
<1>11. CASE FillMapping(p)
  <2>1. PICK ok : ok = (Current(p).op = "wrap" \/ job[p].removed)
    OBVIOUS
  <2>2. pc[p] = "fill_mapping" /\ Ends(p, ok) /\ UNCHANGED <<files, faults>>
    BY <1>11, <2>1, Zenon DEF FillMapping, counts
  <2> QED BY <1>3, <1>5, <2>2, AllLabels DEF EndsItem
<1>12. CASE CallFails(p)
  <2>1. pc[p] \in Writing /\ faults' = faults + 1 /\ Ends(p, FALSE) /\ files' = files
    BY <1>12, Zenon DEF CallFails, shared
  <2>2. pc[p] \in {"cut", "fill", "load", "cut_mapping", "fill_mapping"}
    BY <1>4, <2>1 DEF Writing
  <2> QED BY <1>3, <1>5, <2>1, <2>2 DEF EndsItem
<1>13. CASE SuggestDone(p) \/ Kill(p)
  <2>1. Goto(p, "idle") /\ UNCHANGED <<files, alone>>
    BY <1>13 DEF SuggestDone, Kill, shared, Fails
  <2> QED BY <1>1, <2>1, GotoFacts DEF Exits
<1> QED BY <1>6, <1>7, <1>8, <1>9, <1>10, <1>11, <1>12, <1>13 DEF Run


-----------------------------------------------------------------------------
(* What suggest wraps.                                                     *)

EntriesOf(found) ==
  SystemEntries \cup
  { DesktopEntry(id, UserDir, found[id].name, found[id].exec) :
      id \in {i \in DOMAIN found : found[i] # Torn} }

LEMMA EntriesAreOfFiles == Entries = EntriesOf(files)
  BY DEF Entries, EntriesOf

LEMMA MoreFilesMoreEntries ==
  ASSUME NEW f, NEW g, \A id \in DOMAIN f : id \in DOMAIN g /\ g[id] = f[id]
  PROVE  EntriesOf(f) \subseteq EntriesOf(g)
  BY DEF EntriesOf

\* The id of an entry resolves to it, if it is not the name of a snap.
LEMMA ResolvesToIt ==
  ASSUME NEW bound, NEW S, AreEntries(S, bound), NEW id \in IdsOf(S),
         IsFound(resolve_desktop_id(id, S))
  PROVE  LET e == resolve_desktop_id(id, S).entry IN
         e.id = id \/ snap_app_from_desktop_id(e.id) = id
<1> DEFINE snaps == SnapHits(id, S)
           exact == {e \in S : e.id = id}
<1>1. exact # {} /\ snaps \subseteq S /\ \A e \in snaps : snap_app_from_desktop_id(e.id) = id
  BY DEF IdsOf, SnapHits
<1>2. resolve_desktop_id(id, S) =
        IF ~validate_desktop_id(id) THEN NotFound
        ELSE IF snaps # {} THEN AliasAmong(snaps, LastDir(snaps))
        ELSE Exact(FirstDir(exact))
  BY <1>1 DEF resolve_desktop_id
<1>3. \A hits, picked : IsFound(AliasAmong(hits, picked)) => AliasAmong(hits, picked).entry = picked
  BY DEF AliasAmong, Alias, Ambiguous, IsFound
<1>4. ~IsFound(NotFound) /\ \A e : Exact(e).entry = e
  BY DEF NotFound, IsFound, Exact
<1>5. AreEntries(snaps, bound) /\ AreEntries(exact, bound)
  BY <1>1 DEF AreEntries
<1>6. \A e \in exact : e.id = id
  OBVIOUS
<1> HIDE DEF snaps, exact
<1>7. snaps # {} => LastDir(snaps) \in snaps
  BY <1>5, LastIsOne
<1>8. FirstDir(exact) \in exact
  BY <1>1, <1>5, FirstIsOne
<1> QED BY <1>1, <1>2, <1>3, <1>4, <1>6, <1>7, <1>8

LEMMA UniqueIsOne ==
  ASSUME NEW scope, NEW exec, NEW entries,
         unique_desktop_id_for_scope_exec(scope, exec, entries) # None
  PROVE  unique_desktop_id_for_scope_exec(scope, exec, entries) \in
           IdsOf({e \in entries : index_entry(e) \cap ScopeKeys(scope, exec) # {}})
<1> DEFINE matches == IdsOf({e \in entries : index_entry(e) \cap ScopeKeys(scope, exec) # {}})
           primary == {id \in matches : ~is_secondary_desktop_id(id)}
<1>1. unique_desktop_id_for_scope_exec(scope, exec, entries) =
        IF Cardinality(matches) = 1 THEN TheOnly(matches)
        ELSE IF Cardinality(primary) = 1 THEN TheOnly(primary)
        ELSE None
  BY DEF unique_desktop_id_for_scope_exec, resolve_unique_or_preferred
<1> HIDE DEF matches
<1>2. \A S : Cardinality(S) = 1 => TheOnly(S) \in S
  <2>1. \A S : Cardinality(S) = 1 => S # {}
    BY FS_EmptySet
  <2> QED BY <2>1 DEF TheOnly
<1>3. primary \subseteq matches
  OBVIOUS
<1> HIDE DEF primary
<1>4. unique_desktop_id_for_scope_exec(scope, exec, entries) \in matches
  BY <1>1, <1>2, <1>3
<1> QED BY <1>4 DEF matches

LEMMA PlannedAreEntries ==
  ASSUME NEW mode, NEW entries, NEW item \in Planned(mode, entries)
  PROVE  item.desktop_id \in IdsOf(entries)
<1>1. PICK s \in Scopes :
        item.desktop_id = unique_desktop_id_for_scope_exec(s.scope, s.exec, entries)
  BY PlannedItems
<1>2. item.desktop_id # None
  BY PlannedItems
<1>3. item.desktop_id \in IdsOf({e \in entries : index_entry(e) \cap ScopeKeys(s.scope, s.exec) # {}})
  BY <1>1, <1>2, UniqueIsOne
<1> QED BY <1>3 DEF IdsOf

\* What was there when p began is still there.
Stays(p) == \A id \in DOMAIN start[p].files :
              id \in DOMAIN files /\ files[id] = start[p].files[id]

FoundInv(p) ==
  pc[p] # "idle" /\ IsSuggest(job[p].command) =>
    /\ \A i \in DOMAIN job[p].queue : job[p].queue[i].id \in IdsOf(EntriesOf(start[p].files))
    /\ alone[p] => Stays(p)
    /\ pc[p] \in Writing /\ (alone[p] \/ Current(p).id \in IdsOf(SystemEntries)) =>
         \/ job[p].source.id = Current(p).id
         \/ snap_app_from_desktop_id(job[p].source.id) = Current(p).id

LEMMA StaysOn ==
  ASSUME AloneInv, NEW Good, GoodInv(Good), SafeInv, NEW p \in Processes, pc[p] # "idle",
         IsSuggest(job[p].command), alone[p], Stays(p), start'[p] = start[p],
         files' = files \/ WritesItem(p)
  PROVE  Stays(p)'
<1>1. CASE files' = files
  BY <1>1 DEF Stays
<1>2. CASE WritesItem(p) /\ files' # files
  <2>1. pc[p] \in {"cut", "fill"} /\ \E content : files' \in
          {Put(files, job[p].target, content), Filled(job[p].target, content)}
    BY <1>2 DEF WritesItem
  <2>2. job[p].queue # <<>>
    BY <2>1, AllLabels DEF GoodInv, GoodJob
  <2>3. ~Current(p).force
    BY <2>2, CurrentIs DEF IsPlannedWrap
  <2>4. job[p].target \notin DOMAIN start[p].files
    BY <2>1, <2>3 DEF AloneInv, IsAlone
  <2> QED BY <2>1, <2>4 DEF Stays, Put, Filled
<1> QED BY <1>1, <1>2

LEMMA BeginFinds ==
  ASSUME SafeInv, AloneInv, NEW p \in Processes, Begin(p)
  PROVE  FoundInv(p)'
<1>1. pc'[p] = "next" /\ files' = files /\ start'[p].files = files
  BY BeginFacts
<1>2. IsSuggest(job'[p].command) =>
        IsQueueOf(job'[p].queue, Planned(job'[p].command.mode, Entries))
  BY BeginJob DEF SafeInv
<1>3. ASSUME IsSuggest(job'[p].command), NEW i \in DOMAIN job'[p].queue
      PROVE  job'[p].queue[i].id \in IdsOf(EntriesOf(files))
  <2>1. PICK item \in Planned(job'[p].command.mode, Entries) : job'[p].queue[i] = WrapOf(item)
    BY <1>2, <1>3 DEF IsQueueOf
  <2> QED BY <2>1, WrapOfFacts, PlannedAreEntries, EntriesAreOfFiles
<1>4. Stays(p)'
  BY <1>1 DEF Stays
<1>5. "next" \notin Writing
  BY DEF Writing
<1> QED BY <1>1, <1>3, <1>4, <1>5 DEF FoundInv, IsSuggest

LEMMA TakesWhatItFound ==
  ASSUME SafeInv, NEW p \in Processes, FoundInv(p), pc[p] = "next", IsSuggest(job[p].command),
         NEW entry, entry = resolve_desktop_id(Current(p).id, Entries).entry,
         IsFound(resolve_desktop_id(Current(p).id, Entries)),
         alone[p] \/ Current(p).id \in IdsOf(SystemEntries),
         1 \in DOMAIN job[p].queue, Current(p) = job[p].queue[1]
  PROVE  entry.id = Current(p).id \/ snap_app_from_desktop_id(entry.id) = Current(p).id
<1>1. Current(p).id \in IdsOf(Entries)
  <2>1. CASE alone[p]
    <3>1. Stays(p) /\ Current(p).id \in IdsOf(EntriesOf(start[p].files))
      BY <2>1 DEF FoundInv
    <3>2. EntriesOf(start[p].files) \subseteq Entries
      BY <3>1, MoreFilesMoreEntries, EntriesAreOfFiles DEF Stays
    <3> QED BY <3>1, <3>2 DEF IdsOf
  <2>2. CASE Current(p).id \in IdsOf(SystemEntries)
    BY <2>2 DEF IdsOf, Entries
  <2> QED BY <2>1, <2>2
<1>2. \E bound : AreEntries(Entries, bound)
  BY EntriesAreEntries DEF SafeInv
<1> QED BY <1>1, <1>2, ResolvesToIt

LEMMA StepFinds ==
  ASSUME SafeInv, AloneInv, NEW Good, GoodInv(Good), NEW p \in Processes, FoundInv(p),
         pc[p] # "idle", IsSuggest(job[p].command), Run(p) \/ CallFails(p) \/ Kill(p)
  PROVE  FoundInv(p)'
<1>1. CASE Exits(p)
  BY <1>1 DEF Exits, FoundInv
<1>2. CASE TakesItem(p) \/ WritesItem(p) \/ EndsItem(p)
  <2>1. KeepsOn(p) /\ job[p].queue # <<>> /\ start'[p] = start[p] /\ alone' = alone
    <3>1. WritesItem(p) => pc[p] \in Writing
      BY AllLabels DEF WritesItem
    <3>2. pc[p] \in Writing => job[p].queue # <<>>
      BY DEF GoodInv, GoodJob
    <3> QED BY <1>2, <3>1, <3>2 DEF TakesItem, WritesItem, EndsItem, KeepsOn
  <2>2. IsSeq(job[p].queue)
    BY DEF GoodInv, GoodJob
  <2>3. /\ \A i \in DOMAIN job[p].queue : job[p].queue[i].id \in IdsOf(EntriesOf(start[p].files))
        /\ alone[p] => Stays(p)
    BY DEF FoundInv
  <2>4. \A i \in DOMAIN job'[p].queue :
          job'[p].queue[i].id \in IdsOf(EntriesOf(start[p].files))
    <3>1. job'[p].queue \in {job[p].queue, Tail(job[p].queue)}
      BY <1>2 DEF TakesItem, WritesItem, EndsItem
    <3> QED BY <2>1, <2>2, <2>3, <3>1, TailIsSeq
  <2>5. alone[p] => Stays(p)'
    <3>1. files' = files \/ WritesItem(p)
      BY <1>2 DEF TakesItem, EndsItem
    <3> QED BY <2>1, <2>3, <3>1, StaysOn
  <2>6. pc'[p] \in Writing /\ (alone[p] \/ Current(p)'.id \in IdsOf(SystemEntries)) =>
          \/ job'[p].source.id = Current(p)'.id
          \/ snap_app_from_desktop_id(job'[p].source.id) = Current(p)'.id
    <3>1. CASE TakesItem(p)
      <4>1. Current(p)' = Current(p)
        BY <3>1 DEF TakesItem, Current
      <4>2. 1 \in DOMAIN job[p].queue /\ Current(p) = job[p].queue[1]
        BY <2>1, CurrentIs
      <4>3. PICK entry : entry = resolve_desktop_id(Current(p).id, Entries).entry
        OBVIOUS
      <4>4. /\ IsFound(resolve_desktop_id(Current(p).id, Entries)) /\ pc[p] = "next"
            /\ job'[p].source = entry
        BY <3>1, <4>3 DEF TakesItem
      <4>5. alone[p] \/ Current(p).id \in IdsOf(SystemEntries) =>
              entry.id = Current(p).id \/ snap_app_from_desktop_id(entry.id) = Current(p).id
        BY <4>2, <4>3, <4>4, TakesWhatItFound
      <4> QED BY <4>1, <4>4, <4>5
    <3>2. CASE WritesItem(p)
      <4>1. Current(p)' = Current(p) /\ job'[p].source = job[p].source
        BY <3>2 DEF WritesItem, Current
      <4>2. pc[p] \in Writing
        BY <3>2, AllLabels DEF WritesItem
      <4> QED BY <4>1, <4>2 DEF FoundInv
    <3>3. CASE EndsItem(p)
      BY <3>3 DEF EndsItem, Writing
    <3> QED BY <1>2, <3>1, <3>2, <3>3
  <2> QED BY <2>1, <2>4, <2>5, <2>6 DEF FoundInv
<1> QED BY <1>1, <1>2, SuggestSteps

LEMMA FoundNext ==
  ASSUME PlainFiles, SafeInv, AloneInv, NEW Good, GoodInv(Good),
         \A p \in Processes : FoundInv(p), [Next]_vars
  PROVE  \A p \in Processes : FoundInv(p)'
<1>1. ASSUME NEW p \in Processes, Run(p) \/ CallFails(p) \/ Kill(p)
      PROVE  \A q \in Processes : FoundInv(q)'
  <2>1. OthersStay(p)
    BY <1>1, StepAdvances DEF Advances
  <2>2. Begin(p) \/ Proceeds(p)
    BY <1>1, ResolveWrapProceeds, WritesProceed, RecordsProceed, UnwrapsProceed, ExitsProceed
       DEF Run
  <2>3. ASSUME NEW q \in Processes \ {p} PROVE FoundInv(q)'
    <3>1. pc'[q] = pc[q] /\ job'[q] = job[q] /\ start'[q] = start[q]
      BY <2>1, <2>2, BeginFacts DEF OthersStay, Proceeds
    <3>2. pc'[q] # "idle" => ~alone'[q]
      BY <2>1, <2>2, OnlyMoverIsAlone
    <3>3. Current(q)' = Current(q)
      BY <3>1 DEF Current
    <3> QED BY <3>1, <3>2, <3>3 DEF FoundInv
  <2>4. FoundInv(p)'
    <3>1. CASE Begin(p)
      BY <3>1, BeginFinds
    <3>2. CASE Proceeds(p) /\ IsSuggest(job[p].command)
      BY <1>1, <3>2, StepFinds DEF Proceeds
    <3>3. CASE Proceeds(p) /\ ~IsSuggest(job[p].command)
      BY <3>3 DEF Proceeds, FoundInv, IsSuggest
    <3> QED BY <2>2, <3>1, <3>2, <3>3
  <2> QED BY <2>3, <2>4
<1>2. CASE UNCHANGED vars
  <2>1. UNCHANGED <<files, pc, job, start, alone>>
    BY <1>2 DEF vars, shared, ghosts
  <2> QED BY <2>1 DEF FoundInv, Stays, Current
<1> QED BY <1>1, <1>2 DEF Next

\* suggest wraps the entry that its plan names or the snap application of that
\* name, whatever other processes wrap and unwrap meanwhile: what was there when
\* a suggest that is alone began stays there, and the system's entries always do.
THEOREM SuggestWrapsWhatItFoundHolds ==
  ASSUME PlainFiles
  PROVE  Spec => []SuggestWrapsWhatItFound
<1> DEFINE Inv == /\ SafeInv /\ AloneInv /\ GoodInv(TypedFiles)
                  /\ \A p \in Processes : FoundInv(p)
<1>1. Init => Inv
  <2>1. Init => \A p \in Processes : FoundInv(p)
    BY DEF Init, FoundInv
  <2> QED BY <2>1, SafeInit, AloneInit, GoodInit, TypedFilesAreClosed
<1>2. Inv /\ [Next]_vars => Inv'
  <2> SUFFICES ASSUME Inv, [Next]_vars PROVE Inv'
    OBVIOUS
  <2>1. SafeInv' /\ AloneInv'
    BY SafeNext, AloneNext
  <2>2. GoodInv(TypedFiles)'
    BY GoodNext, TypedFilesAreClosed
  <2>3. \A p \in Processes : FoundInv(p)'
    BY FoundNext
  <2> QED BY <2>1, <2>2, <2>3
<1>3. Inv => SuggestWrapsWhatItFound
  <2>1. "idle" \notin Writing
    BY DEF Writing
  <2> QED BY <2>1 DEF FoundInv, SuggestWrapsWhatItFound
<1> QED BY <1>1, <1>2, <1>3, PTL DEF Spec


-----------------------------------------------------------------------------
(* Places in a text.                                                       *)

LEMMA AtIs ==
  ASSUME NEW text, IsSeq(text), NEW word
  PROVE  \/ At(text, word) = 0 /\ \A i \in DOMAIN text : text[i] # word
         \/ /\ At(text, word) \in DOMAIN text /\ text[At(text, word)] = word
            /\ \A i \in DOMAIN text : text[i] = word => At(text, word) <= i
<1> DEFINE I == {i \in 1..Len(text) : text[i] = word}
<1>1. At(text, word) = IF I # {} THEN Min(I) ELSE 0
  BY DEF At, SelectInSeq
<1>2. I \subseteq Nat /\ DOMAIN text = 1..Len(text)
  BY DEF IsSeq
<1>3. I # {} => Min(I) \in I /\ \A i \in I : Min(I) <= i
  <2> HIDE DEF I
  <2>1. I # {} => \E x \in I : \A y \in I : x =< y
    BY <1>2, NatSmallest
  <2> QED BY <2>1 DEF Min
<1>4. I \subseteq DOMAIN text /\ \A i \in DOMAIN text : text[i] = word <=> i \in I
  BY <1>2
<1> HIDE DEF I
<1> QED BY <1>1, <1>2, <1>3, <1>4

LEMMA LastAtIs ==
  ASSUME NEW text, IsSeq(text), NEW word
  PROVE  \/ LastAt(text, word) = 0 /\ \A i \in DOMAIN text : text[i] # word
         \/ /\ LastAt(text, word) \in DOMAIN text /\ text[LastAt(text, word)] = word
            /\ \A i \in DOMAIN text : text[i] = word => LastAt(text, word) >= i
<1> DEFINE I == {i \in 1..Len(text) : text[i] = word}
<1>1. LastAt(text, word) = IF I # {} THEN Max(I) ELSE 0
  BY DEF LastAt, SelectLastInSeq
<1>2. /\ I \subseteq Nat /\ DOMAIN text = 1..Len(text) /\ Len(text) \in Nat
      /\ \A i \in I : i <= Len(text)
  BY DEF IsSeq
<1>3. I # {} => Max(I) \in I /\ \A i \in I : Max(I) >= i
  <2> HIDE DEF I
  <2>1. I # {} => \E x \in I : \A y \in I : x >= y
    BY <1>2, NatLargest
  <2> QED BY <2>1 DEF Max
<1>4. I \subseteq DOMAIN text /\ \A i \in DOMAIN text : text[i] = word <=> i \in I
  BY <1>2
<1> HIDE DEF I
<1> QED BY <1>1, <1>2, <1>3, <1>4

\* Two texts one after the other, and a part of a text: what the provers need to
\* know of them, in one word.
Joins(u, s, t) ==
  /\ IsSeq(u) /\ Len(u) = Len(s) + Len(t) /\ Len(s) \in Nat /\ Len(t) \in Nat
  /\ \A i \in 1..Len(s) : u[i] = s[i]
  /\ \A i \in 1..Len(t) : u[Len(s) + i] = t[i]

Cuts(part, text, m, n) ==
  /\ IsSeq(part) /\ Len(part) = IF m <= n THEN n - m + 1 ELSE 0
  /\ \A i \in 1..(n - m + 1) : part[i] = text[m + i - 1]

LEMMA ConcatJoins ==
  ASSUME NEW s, IsSeq(s), NEW t, IsSeq(t)
  PROVE  Joins(s \o t, s, t)
<1> DEFINE S == {s[i] : i \in DOMAIN s} \cup {t[i] : i \in DOMAIN t}
<1>1. s \in Seq(S) /\ t \in Seq(S)
  BY SeqDef DEF IsSeq
<1> HIDE DEF S
<1>2. PICK u : u = s \o t
  OBVIOUS
<1>3. u \in Seq(S) /\ Len(u) = Len(s) + Len(t) /\ Len(s) \in Nat /\ Len(t) \in Nat
  BY <1>1, <1>2, ConcatProperties, LenProperties
<1>4. \A i \in 1..(Len(s) + Len(t)) : u[i] = IF i <= Len(s) THEN s[i] ELSE t[i - Len(s)]
  BY <1>1, <1>2, ConcatProperties
<1>5. PICK k, l : k = Len(s) /\ l = Len(t)
  OBVIOUS
<1>6. \A i \in 1..k : u[i] = s[i]
  BY <1>3, <1>4, <1>5
<1>7. ASSUME NEW i \in 1..l PROVE u[k + i] = t[i]
  <2>1. k + i \in 1..(k + l) /\ ~(k + i <= k) /\ k + i - k = i
    BY <1>3, <1>5
  <2> QED BY <1>4, <1>5, <2>1
<1>8. IsSeq(u)
  BY <1>3, SeqIsSeq
<1> QED BY <1>2, <1>3, <1>5, <1>6, <1>7, <1>8 DEF Joins

LEMMA SubSeqIs ==
  ASSUME NEW text, IsSeq(text), NEW m \in Nat \ {0}, NEW n \in Nat, n <= Len(text)
  PROVE  /\ IsSeq(SubSeq(text, m, n)) /\ Len(text) \in Nat /\ DOMAIN text = 1..Len(text)
         /\ Len(SubSeq(text, m, n)) = IF m <= n THEN n - m + 1 ELSE 0
         /\ \A i \in 1..(n - m + 1) : SubSeq(text, m, n)[i] = text[m + i - 1]
<1> DEFINE S == {text[i] : i \in DOMAIN text}
<1>1. text \in Seq(S)
  BY DEF IsSeq
<1> HIDE DEF S
<1>2. /\ SubSeq(text, m, n) \in Seq(S) /\ Len(text) \in Nat /\ DOMAIN text = 1..Len(text)
      /\ Len(SubSeq(text, m, n)) = IF m <= n THEN n - m + 1 ELSE 0
      /\ \A i \in 1..(n - m + 1) : SubSeq(text, m, n)[i] = text[m + i - 1]
  BY <1>1
<1> QED BY <1>2, SeqIsSeq

LEMMA SubSeqCuts ==
  ASSUME NEW text, IsSeq(text), NEW m \in Nat \ {0}, NEW n \in Nat, n <= Len(text)
  PROVE  Cuts(SubSeq(text, m, n), text, m, n)
<1>1. PICK part : part = SubSeq(text, m, n)
  OBVIOUS
<1>2. /\ IsSeq(part) /\ Len(part) = IF m <= n THEN n - m + 1 ELSE 0
      /\ \A i \in 1..(n - m + 1) : part[i] = text[m + i - 1]
  BY <1>1, SubSeqIs
<1> QED BY <1>1, <1>2 DEF Cuts

LEMMA RestIs ==
  ASSUME NEW text, IsSeq(text), NEW at \in 1..Len(text)
  PROVE  LET rest == SubSeq(text, at + 1, Len(text)) IN
         /\ IsSeq(rest) /\ DOMAIN rest = 1..Len(rest)
         /\ Len(rest) = IF at < Len(text) THEN Len(text) - at ELSE 0
         /\ \A i \in 1..(Len(text) - at) : rest[i] = text[at + i]
<1>1. Len(text) \in Nat
  BY DEF IsSeq
<1>2. at + 1 \in Nat \ {0} /\ Len(text) <= Len(text)
  BY <1>1
<1> DEFINE rest == SubSeq(text, at + 1, Len(text))
<1>3. /\ IsSeq(rest) /\ Len(rest) = IF at + 1 <= Len(text) THEN Len(text) - (at + 1) + 1 ELSE 0
      /\ \A i \in 1..(Len(text) - (at + 1) + 1) : rest[i] = text[(at + 1) + i - 1]
  <2>1. Cuts(rest, text, at + 1, Len(text))
    BY <1>1, <1>2, SubSeqCuts
  <2> HIDE DEF rest
  <2> QED BY <2>1 DEF Cuts
<1> HIDE DEF rest
<1>4. DOMAIN rest = 1..Len(rest)
  BY <1>3 DEF IsSeq
<1>5. Len(rest) = IF at < Len(text) THEN Len(text) - at ELSE 0
  BY <1>1, <1>3
<1>6. ASSUME NEW i \in 1..(Len(text) - at) PROVE rest[i] = text[at + i]
  <2>1. i \in 1..(Len(text) - (at + 1) + 1) /\ (at + 1) + i - 1 = at + i
    BY <1>1
  <2> QED BY <1>3, <2>1
<1> QED BY <1>3, <1>4, <1>5, <1>6 DEF rest

LEMMA SuffixEnds ==
  ASSUME NEW end, IsSeq(end), NEW text, IsSeq(text), IsSuffix(end, text)
  PROVE  /\ Len(end) \in Nat /\ Len(text) \in Nat /\ Len(end) <= Len(text)
         /\ \A k \in 0..(Len(end) - 1) : text[Len(text) - k] = end[Len(end) - k]
<1> DEFINE S == {end[i] : i \in DOMAIN end} \cup {text[i] : i \in DOMAIN text}
<1>1. end \in Seq(S) /\ text \in Seq(S)
  BY SeqDef DEF IsSeq
<1> HIDE DEF S
<1>2. Len(end) \in Nat /\ Len(text) \in Nat
  BY <1>1
<1> DEFINE back == Reverse(end)
           other == Reverse(text)
<1>3. /\ back \in Seq(S) /\ Len(back) = Len(end)
      /\ \A i \in 1..Len(end) : back[i] = end[Len(end) - i + 1]
  BY <1>1 DEF Reverse
<1>4. /\ other \in Seq(S) /\ Len(other) = Len(text)
      /\ \A i \in 1..Len(text) : other[i] = text[Len(text) - i + 1]
  BY <1>1 DEF Reverse
<1>5. Len(back) <= Len(other) /\ SubSeq(back, 1, Len(back)) = SubSeq(other, 1, Len(back))
  BY DEF IsSuffix, IsPrefix
<1> HIDE DEF back, other
<1>6. ASSUME NEW i \in 1..Len(end) PROVE back[i] = other[i]
  <2>1. SubSeq(back, 1, Len(back))[i] = back[i] /\ SubSeq(other, 1, Len(back))[i] = other[i]
    BY <1>2, <1>3, <1>4, <1>5
  <2> QED BY <2>1, <1>5
<1>7. ASSUME NEW k \in 0..(Len(end) - 1) PROVE text[Len(text) - k] = end[Len(end) - k]
  <2>1. k + 1 \in 1..Len(end) /\ k + 1 \in 1..Len(text)
    BY <1>2, <1>3, <1>4, <1>5
  <2>2. back[k + 1] = end[Len(end) - k] /\ other[k + 1] = text[Len(text) - k]
    <3>1. Len(end) - (k + 1) + 1 = Len(end) - k /\ Len(text) - (k + 1) + 1 = Len(text) - k
      BY <1>2
    <3> QED BY <1>3, <1>4, <2>1, <3>1
  <2> QED BY <1>6, <2>1, <2>2
<1> QED BY <1>2, <1>3, <1>4, <1>5, <1>7


LEMMA PrefixBegins ==
  ASSUME NEW start0, IsSeq(start0), NEW text, IsSeq(text), IsPrefix(start0, text)
  PROVE  Len(start0) <= Len(text) /\ \A i \in 1..Len(start0) : text[i] = start0[i]
<1>1. Len(start0) <= Len(text) /\ SubSeq(start0, 1, Len(start0)) = SubSeq(text, 1, Len(start0))
  BY DEF IsPrefix
<1>2. Len(start0) \in Nat
  BY DEF IsSeq
<1>3. /\ \A i \in 1..Len(start0) : SubSeq(start0, 1, Len(start0))[i] = start0[i]
      /\ \A i \in 1..Len(start0) : SubSeq(text, 1, Len(start0))[i] = text[i]
  <2>1. PICK n : n = Len(start0)
    OBVIOUS
  <2>2. n \in Nat /\ 1 \in Nat \ {0} /\ n <= Len(start0) /\ n <= Len(text)
    BY <1>1, <1>2, <2>1
  <2>3. PICK a : a = SubSeq(start0, 1, n)
    OBVIOUS
  <2>4. PICK b : b = SubSeq(text, 1, n)
    OBVIOUS
  <2>5. Cuts(a, start0, 1, n) /\ Cuts(b, text, 1, n)
    BY <2>2, <2>3, <2>4, SubSeqCuts
  <2>6. \A i \in 1..n : i \in 1..(n - 1 + 1) /\ 1 + i - 1 = i
    BY <2>2
  <2>7. \A i \in 1..n : a[i] = start0[i] /\ b[i] = text[i]
    BY <2>5, <2>6 DEF Cuts
  <2> QED BY <2>1, <2>3, <2>4, <2>7
<1> QED BY <1>1, <1>3

LEMMA PrefixIs ==
  ASSUME NEW start0, IsSeq(start0), NEW text, IsSeq(text), Len(start0) <= Len(text),
         \A i \in 1..Len(start0) : text[i] = start0[i]
  PROVE  IsPrefix(start0, text)
<1>1. PICK n : n = Len(start0)
  OBVIOUS
<1>2. n \in Nat /\ 1 \in Nat \ {0} /\ n <= Len(start0) /\ n <= Len(text)
  BY <1>1 DEF IsSeq
<1>3. PICK a : a = SubSeq(start0, 1, n)
  OBVIOUS
<1>4. PICK b : b = SubSeq(text, 1, n)
  OBVIOUS
<1>5. Cuts(a, start0, 1, n) /\ Cuts(b, text, 1, n)
  BY <1>2, <1>3, <1>4, SubSeqCuts
<1>6. \A i \in 1..n : i \in 1..(n - 1 + 1) /\ 1 + i - 1 = i
  BY <1>2
<1>7. \A i \in 1..n : a[i] = start0[i] /\ b[i] = text[i]
  BY <1>5, <1>6 DEF Cuts
<1>8. IsSeq(a) /\ IsSeq(b) /\ Len(a) = Len(b) /\ Len(a) = n
  <2>1. 1 <= n => n - 1 + 1 = n
    BY <1>2
  <2>2. ~(1 <= n) => n = 0
    BY <1>2
  <2> QED BY <1>5, <2>1, <2>2 DEF Cuts
<1>9. a = b
  <2>1. PICK S : S = {a[i] : i \in DOMAIN a} \cup {b[i] : i \in DOMAIN b}
    OBVIOUS
  <2>2. a \in Seq(S) /\ b \in Seq(S)
    BY <1>8, <2>1 DEF IsSeq
  <2>3. Len(a) = Len(b) /\ \A i \in 1..Len(a) : a[i] = b[i]
    BY <1>1, <1>7, <1>8, Zenon
  <2> QED BY <2>2, <2>3, SeqEqual
<1> QED BY <1>1, <1>2, <1>3, <1>4, <1>9 DEF IsPrefix

\* What begins with snap, a dot and more begins with snap and a dot.
LEMMA LongerPrefix ==
  ASSUME NEW front, IsSeq(front), NEW id, IsSeq(id), NEW dot, IsSeq(dot), NEW text, IsSeq(text),
         IsPrefix(front \o id \o dot, text)
  PROVE  IsPrefix(front, text)
<1>1. PICK middle : middle = front \o id
  OBVIOUS
<1>2. PICK whole : whole = middle \o dot
  OBVIOUS
<1>3. Joins(middle, front, id)
  BY <1>1, ConcatJoins
<1>4. Joins(whole, middle, dot)
  <2>1. IsSeq(middle)
    BY <1>3 DEF Joins
  <2> QED BY <1>2, <2>1, ConcatJoins
<1>5. PICK f : f = Len(front)
  OBVIOUS
<1>6. PICK m : m = Len(middle)
  OBVIOUS
<1>7. PICK w : w = Len(whole)
  OBVIOUS
<1>8. f \in Nat /\ m \in Nat /\ w \in Nat /\ f <= m /\ m <= w
  BY <1>3, <1>4, <1>5, <1>6, <1>7 DEF Joins
<1>9. \A i \in 1..f : i \in 1..m /\ i \in 1..w
  BY <1>8
<1>10. \A i \in 1..f : whole[i] = front[i]
  BY <1>3, <1>4, <1>5, <1>6, <1>9 DEF Joins
<1>11. w <= Len(text) /\ \A i \in 1..w : text[i] = whole[i]
  <2>1. IsSeq(whole) /\ IsPrefix(whole, text)
    BY <1>1, <1>2, <1>4 DEF Joins
  <2> QED BY <1>7, <2>1, PrefixBegins
<1>12. f <= Len(text)
  <2>1. PICK t : t = Len(text)
    OBVIOUS
  <2>2. t \in Nat
    BY <2>1 DEF IsSeq
  <2> QED BY <1>8, <1>11, <2>1, <2>2
<1>13. \A i \in 1..f : text[i] = front[i]
  BY <1>9, <1>10, <1>11
<1> QED BY <1>5, <1>12, <1>13, PrefixIs

-----------------------------------------------------------------------------
(* Wrappers change no resolution.                                          *)

\* The word that the snaps' ids are split at.
Bar == "_"

LEMMA BarIs ==
  /\ Bar # "-" /\ Bar # "resguard"
  /\ \A id : snap_app_from_desktop_id(id) =
              IF After(id, Bar) # None THEN After(id, Bar)
              ELSE IF IsPrefix(<<"snap", ".">>, id)
                   THEN SecondPart(WithoutPrefix(<<"snap", ".">>, id))
                   ELSE None
  BY Zenon DEF Bar, snap_app_from_desktop_id

\* The last words of the id of a wrapper.
EndsAsWrapper(id) ==
  /\ IsSeq(id) /\ Len(id) \in Nat /\ Len(id) >= 6
  /\ id[Len(id) - 3] = "." /\ id[Len(id) - 2] = "resguard" /\ id[Len(id) - 1] = "-"

LEMMA WrapperIdEnds ==
  ASSUME NEW id, IsSeq(id), NEW class, IsSuffix(wrapper_desktop_id(None, class), id)
  PROVE  EndsAsWrapper(id) /\ Marked(id)
<1> DEFINE end == <<".", "desktop", ".", "resguard", "-", class>>
<1>1. end \in Seq({".", "desktop", "resguard", "-", class})
  OBVIOUS
<1>2. IsSeq(end) /\ IsSeq(None)
  BY <1>1, SeqIsSeq, EmptyIsSeq DEF None
<1>3. Len(end) = 6 /\ end[3] = "." /\ end[4] = "resguard" /\ end[5] = "-" /\ Len(None) = 0
  BY DEF None
<1>4. wrapper_desktop_id(None, class) = None \o end
  BY DEF wrapper_desktop_id
<1> HIDE DEF end
<1> DEFINE w == None \o end
<1>5. IsSeq(w) /\ Len(w) = 6 /\ w[3] = "." /\ w[4] = "resguard" /\ w[5] = "-"
  <2>0. Joins(w, None, end)
    BY <1>2, ConcatJoins
  <2> HIDE DEF w
  <2>1. /\ IsSeq(w) /\ Len(w) = Len(None) + Len(end)
        /\ \A i \in 1..Len(end) : w[Len(None) + i] = end[i]
    BY <2>0 DEF Joins
  <2>2. \A i \in 1..6 : w[i] = end[i]
    BY <1>3, <2>1
  <2> QED BY <1>3, <2>1, <2>2
<1>6. IsSuffix(w, id)
  BY <1>4
<1> HIDE DEF w
<1>7. /\ Len(id) \in Nat /\ 6 <= Len(id)
      /\ \A k \in 0..5 : id[Len(id) - k] = w[6 - k]
  <2>1. /\ Len(id) \in Nat /\ Len(w) <= Len(id)
        /\ \A k \in 0..(Len(w) - 1) : id[Len(id) - k] = w[Len(w) - k]
    BY <1>5, <1>6, SuffixEnds
  <2> QED BY <1>5, <2>1
<1>8. id[Len(id) - 3] = "." /\ id[Len(id) - 2] = "resguard" /\ id[Len(id) - 1] = "-"
  BY <1>5, <1>7
<1>9. Len(id) - 2 \in DOMAIN id
  BY <1>7 DEF IsSeq
<1> QED BY <1>7, <1>8, <1>9 DEF EndsAsWrapper, Marked

LEMMA EndIsMarked ==
  ASSUME NEW id, EndsAsWrapper(id)
  PROVE  IsSeq(id) /\ Marked(id)
<1>1. PICK n : n = Len(id)
  OBVIOUS
<1>2. IsSeq(id) /\ n \in Nat /\ n >= 6 /\ id[n - 2] = "resguard"
  BY <1>1 DEF EndsAsWrapper
<1>3. DOMAIN id = 1..n
  BY <1>1, <1>2 DEF IsSeq
<1>4. n - 2 \in 1..n
  BY <1>2
<1> QED BY <1>2, <1>3, <1>4 DEF Marked

LEMMA NoSnapPrefix ==
  ASSUME NEW id, IsSeq(id), id[1] # "snap"
  PROVE  ~IsPrefix(<<"snap", ".">>, id)
<1>1. <<"snap", ".">> \in Seq({"snap", "."}) /\ Len(<<"snap", ".">>) = 2 /\ <<"snap", ".">>[1] = "snap"
  OBVIOUS
<1>2. IsSeq(<<"snap", ".">>)
  BY <1>1, SeqIsSeq
<1> QED BY <1>1, <1>2, PrefixBegins

LEMMA WrapperIsNoSnap ==
  ASSUME NEW id, EndsAsWrapper(id), ~IsPrefix(<<"snap", ".">>, id)
  PROVE  LET app == snap_app_from_desktop_id(id) IN app = None \/ (IsSeq(app) /\ Marked(app))
<1> DEFINE at == At(id, Bar)
           n == Len(id)
           rest == SubSeq(id, at + 1, n)
<1>1. IsSeq(id) /\ n \in Nat /\ n >= 6 /\ DOMAIN id = 1..n
      /\ id[n - 2] = "resguard" /\ id[n - 1] = "-"
  BY DEF EndsAsWrapper, IsSeq
<1>2. After(id, Bar) = IF at = 0 THEN None ELSE rest
  BY DEF After
<1>4. snap_app_from_desktop_id(id) = IF After(id, Bar) # None THEN After(id, Bar) ELSE None
  BY BarIs
<1>5. at = 0 \/ (at \in 1..n /\ id[at] = Bar)
  BY <1>1, AtIs
<1>6. at \in 1..n =>
        /\ IsSeq(rest) /\ DOMAIN rest = 1..Len(rest)
        /\ Len(rest) = IF at < n THEN n - at ELSE 0
        /\ \A i \in 1..(n - at) : rest[i] = id[at + i]
  BY <1>1, RestIs
<1> HIDE DEF at, n, rest
<1>7. CASE at = 0
  BY <1>2, <1>4, <1>7
<1>8. CASE at \in 1..n /\ id[at] = Bar
  <2>1. at # n - 2 /\ at # n - 1
    BY <1>1, <1>8, BarIs
  <2>2. at <= n - 3 \/ at = n
    BY <1>1, <1>8, <2>1
  <2>3. CASE at <= n - 3
    <3>1. n - 2 - at \in 1..(n - at) /\ at + (n - 2 - at) = n - 2 /\ Len(rest) = n - at
      BY <1>1, <1>6, <1>8, <2>3
    <3>2. rest[n - 2 - at] = "resguard"
      BY <1>1, <1>6, <1>8, <3>1
    <3> QED BY <1>2, <1>4, <1>6, <1>8, <3>1, <3>2 DEF Marked
  <2>4. CASE at = n
    <3>1. Len(rest) = 0 /\ IsSeq(rest)
      BY <1>1, <1>6, <1>8, <2>4
    <3>2. rest = None
      BY <3>1 DEF IsSeq, None
    <3> QED BY <1>2, <1>4, <3>2
  <2> QED BY <2>2, <2>3, <2>4
<1> QED BY <1>5, <1>7, <1>8

LEMMA WrapperIsNoFlatpak ==
  ASSUME NEW id, EndsAsWrapper(id)
  PROVE  flatpak_app_name(id) = None \/ Marked(flatpak_app_name(id))
<1> DEFINE at == LastAt(id, ".")
           n == Len(id)
           rest == SubSeq(id, at + 1, n)
<1>1. IsSeq(id) /\ n \in Nat /\ n >= 6 /\ DOMAIN id = 1..n
      /\ id[n - 3] = "." /\ id[n - 2] = "resguard" /\ id[n - 1] = "-"
  BY DEF EndsAsWrapper, IsSeq
<1>2. flatpak_app_name(id) = rest
  BY DEF flatpak_app_name, AfterLast
<1>3. at \in 1..n /\ id[at] = "." /\ at >= n - 3
  <2>1. n - 3 \in DOMAIN id
    BY <1>1
  <2> QED BY <1>1, <2>1, LastAtIs
<1>4. /\ IsSeq(rest) /\ DOMAIN rest = 1..Len(rest)
      /\ Len(rest) = IF at < n THEN n - at ELSE 0
      /\ \A i \in 1..(n - at) : rest[i] = id[at + i]
  BY <1>1, <1>3, RestIs
<1> HIDE DEF at, n, rest
<1>5. at = n - 3 \/ at = n
  <2>1. at # n - 2 /\ at # n - 1
    BY <1>1, <1>3
  <2> QED BY <1>1, <1>3, <2>1
<1>6. CASE at = n - 3
  <2>1. 1 \in 1..(n - at) /\ at + 1 = n - 2 /\ Len(rest) = 3
    BY <1>1, <1>4, <1>6
  <2>2. rest[1] = id[at + 1] /\ 1 \in DOMAIN rest
    BY <1>4, <2>1
  <2>3. rest[1] = "resguard"
    BY <1>1, <2>1, <2>2
  <2> QED BY <1>2, <2>2, <2>3 DEF Marked
<1>7. CASE at = n
  <2>1. Len(rest) = 0
    BY <1>1, <1>4, <1>7
  <2>2. rest = None
    BY <1>4, <2>1 DEF IsSeq, None
  <2> QED BY <1>2, <2>2
<1> QED BY <1>5, <1>6, <1>7

LEMMA WrapperIsNoEnd ==
  ASSUME NEW id, EndsAsWrapper(id), NEW asked, IsSeq(asked), asked # None, ~Marked(asked)
  PROVE  ~IsSuffix(<<Bar>> \o asked, id)
<1> DEFINE w == <<Bar>> \o asked
           n == Len(asked)
           m == Len(id)
<1>1. IsSeq(id) /\ m \in Nat /\ m >= 6 /\ id[m - 2] = "resguard" /\ id[m - 1] = "-"
  BY DEF EndsAsWrapper
<1>2. IsSeq(<<Bar>>) /\ Len(<<Bar>>) = 1 /\ <<Bar>>[1] = Bar
  <2>1. <<Bar>> \in Seq({Bar})
    OBVIOUS
  <2> QED BY <2>1, SeqIsSeq
<1>3. n \in Nat /\ n # 0 /\ DOMAIN asked = 1..n
  BY DEF IsSeq, None
<1>4. IsSeq(w) /\ Len(w) = n + 1 /\ w[1] = Bar /\ \A i \in 1..n : w[i + 1] = asked[i]
  <2>0. Joins(w, <<Bar>>, asked)
    BY <1>2, ConcatJoins
  <2> HIDE DEF w
  <2>1. /\ IsSeq(w) /\ Len(w) = 1 + n
        /\ \A i \in 1..1 : w[i] = <<Bar>>[i]
        /\ \A i \in 1..n : w[1 + i] = asked[i]
    BY <1>2, <2>0 DEF Joins
  <2> HIDE DEF n
  <2>2. \A i \in 1..n : i + 1 = 1 + i
    BY <1>3
  <2> QED BY <1>2, <1>3, <2>1, <2>2
<1> SUFFICES ASSUME IsSuffix(w, id) PROVE FALSE
  OBVIOUS
<1>5. \A k \in 0..(Len(w) - 1) : id[m - k] = w[Len(w) - k]
  BY <1>1, <1>4, SuffixEnds
<1> HIDE DEF w, n, m
<1>6. \A k \in 0..n : id[m - k] = w[n + 1 - k]
  BY <1>3, <1>4, <1>5
<1>7. CASE n = 1
  <2>1. id[m - 1] = w[1]
    BY <1>6, <1>7
  <2> QED BY <1>1, <1>4, <2>1, BarIs
<1>8. CASE n = 2
  <2>1. id[m - 2] = w[1]
    BY <1>6, <1>8
  <2> QED BY <1>1, <1>4, <2>1, BarIs
<1>9. CASE n >= 3
  <2>1. n - 2 \in 1..n /\ 2 \in 0..n /\ (n - 2) + 1 = n + 1 - 2
    BY <1>3, <1>9
  <2>2. id[m - 2] = w[n + 1 - 2] /\ w[(n - 2) + 1] = asked[n - 2]
    BY <1>4, <1>6, <2>1
  <2> QED BY <1>1, <1>3, <2>1, <2>2 DEF Marked
<1> QED BY <1>3, <1>7, <1>8, <1>9

LEMMA FirstTokenIs ==
  ASSUME NEW exec, IsSeq(exec), exec # <<>>, exec[1] = <<"resguard">>
  PROVE  parse_first_exec_token(exec) = <<"resguard">>
<1>1. DOMAIN exec = 1..Len(exec) /\ Len(exec) \in Nat /\ 1 \in DOMAIN exec
  BY DEF IsSeq
<1>2. ~IsAssignment(<<"resguard">>) /\ <<"resguard">> # <<"env">>
  BY DEF IsAssignment, Contains
<1>3. 1 \in Cleaned(exec) /\ \A i \in Cleaned(exec) : i \in Nat /\ 1 <= i
  BY <1>1, <1>2 DEF Cleaned
<1>4. Least(Cleaned(exec)) = 1
  <2>1. \E i \in Cleaned(exec) : \A j \in Cleaned(exec) : i <= j
    BY <1>3
  <2>2. Least(Cleaned(exec)) \in Cleaned(exec) /\ \A j \in Cleaned(exec) : Least(Cleaned(exec)) <= j
    BY <2>1 DEF Least
  <2> QED BY <1>3, <2>2
<1>5. parse_first_exec_token(exec) = exec[1]
  BY <1>3, <1>4 DEF parse_first_exec_token, FirstOf
<1> QED BY <1>5


\* A content that wrap wrote: neither its name nor its program is asked for.
IsWrap(content) ==
  Marked(content.name) /\ content.exec # <<>> /\ content.exec[1] = <<"resguard">>

LEMMA RenderedIsWrap ==
  ASSUME NEW content, content.name \in Text, content.exec \in Exec, NEW class
  PROVE  IsWrap(render_wrapper(content, class))
<1> DEFINE run0 == <<<<"resguard">>, <<"run">>, <<"-", "-", "class">>, <<class>>, <<"-", "-">>>>
           more == <<"(", "resguard", ":", class, ")">>
<1>1. run0 \in Seq({<<"resguard">>, <<"run">>, <<"-", "-", "class">>, <<class>>, <<"-", "-">>})
      /\ Len(run0) = 5 /\ run0[1] = <<"resguard">>
  OBVIOUS
<1>2. more \in Seq({"(", "resguard", ":", class, ")"}) /\ Len(more) = 5 /\ more[2] = "resguard"
  OBVIOUS
<1>3. /\ render_wrapper(content, class).name = content.name \o more
      /\ render_wrapper(content, class).exec = run0 \o content.exec
  BY DEF render_wrapper, Content, wrap_exec
<1> HIDE DEF run0, more
<1>4. IsSeq(run0) /\ IsSeq(more) /\ IsSeq(content.name) /\ IsSeq(content.exec)
  BY <1>1, <1>2, SeqIsSeq DEF Text, Exec
<1> DEFINE name == content.name \o more
           exec == run0 \o content.exec
<1>5. /\ IsSeq(name) /\ Len(name) = Len(content.name) + Len(more) /\ Len(content.name) \in Nat
      /\ \A i \in 1..Len(more) : name[Len(content.name) + i] = more[i]
  <2>1. Joins(name, content.name, more)
    BY <1>4, ConcatJoins
  <2> HIDE DEF name
  <2> QED BY <2>1 DEF Joins
<1>6. /\ IsSeq(exec) /\ Len(exec) = Len(run0) + Len(content.exec) /\ Len(content.exec) \in Nat
      /\ \A i \in 1..Len(run0) : exec[i] = run0[i]
  <2>1. Joins(exec, run0, content.exec)
    BY <1>4, ConcatJoins
  <2> HIDE DEF exec
  <2> QED BY <2>1 DEF Joins
<1> HIDE DEF name, exec
<1>7. \E i \in DOMAIN name : name[i] = "resguard"
  <2>1. PICK n : n = Len(content.name)
    OBVIOUS
  <2>2. n \in Nat /\ Len(name) = n + 5 /\ \A i \in 1..5 : name[n + i] = more[i]
    BY <1>2, <1>5, <2>1
  <2>3. n + 2 \in 1..Len(name) /\ name[n + 2] = "resguard"
    BY <1>2, <2>2
  <2>4. DOMAIN name = 1..Len(name)
    BY <1>5 DEF IsSeq
  <2> QED BY <2>3, <2>4
<1>8. exec[1] = <<"resguard">> /\ Len(exec) # 0 /\ Len(<<>>) = 0
  BY <1>1, <1>6
<1> QED BY <1>3, <1>7, <1>8 DEF IsWrap, Marked, name, exec

LEMMA WrapperIdBegins ==
  ASSUME NEW id, IsSeq(id), id # None, NEW class
  PROVE  wrapper_desktop_id(id, class)[1] = id[1]
<1>1. IsSeq(WrapperEnd(class)) /\ wrapper_desktop_id(id, class) = id \o WrapperEnd(class)
  BY WrapperEndIs DEF wrapper_desktop_id, WrapperEnd
<1>2. \A i \in 1..Len(id) : wrapper_desktop_id(id, class)[i] = id[i]
  <2>1. PICK end : end = WrapperEnd(class)
    OBVIOUS
  <2>2. PICK w : w = wrapper_desktop_id(id, class)
    OBVIOUS
  <2>3. Joins(w, id, end)
    BY <1>1, <2>1, <2>2, ConcatJoins
  <2> QED BY <2>2, <2>3 DEF Joins
<1>3. 1 \in 1..Len(id)
  BY DEF IsSeq, None
<1> QED BY <1>1, <1>2, <1>3

\* Files as wrapping leaves them.
Fits == {f \in TypedFiles : Marked(f[1]) => f[2] = Torn \/ IsWrap(f[2])}

LEMMA FitsIsClosed ==
  ASSUME PlainIds
  PROVE  Closed(Fits)
<1>1. ASSUME NEW e \in SystemEntries PROVE <<e.id, Content(e.name, e.exec)>> \in Fits
  <2>1. <<e.id, Content(e.name, e.exec)>> \in TypedFiles
    BY TypedFilesAreClosed DEF Closed
  <2>2. ~Marked(e.id)
    BY DEF PlainIds, RequestedIds
  <2> QED BY <2>1, <2>2 DEF Fits
<1>2. ASSUME NEW id \in DOMAIN UserFiles PROVE <<id, UserFiles[id]>> \in Fits
  <2>1. <<id, UserFiles[id]>> \in TypedFiles
    BY TypedFilesAreClosed DEF Closed
  <2>2. ~Marked(id)
    BY DEF PlainIds
  <2> QED BY <2>1, <2>2 DEF Fits
<1>3. ASSUME NEW id, NEW content, <<id, content>> \in Fits
      PROVE  /\ id # None /\ <<id, Torn>> \in Fits
             /\ \A class \in Classes :
                  \A place \in {id, wrapper_desktop_id(id, class)} :
                    <<place, render_wrapper(content, class)>> \in Fits
  <2>1. <<id, content>> \in TypedFiles
    BY <1>3 DEF Fits
  <2>2. /\ id # None /\ <<id, Torn>> \in TypedFiles
        /\ \A class \in Classes :
             \A place \in {id, wrapper_desktop_id(id, class)} :
               <<place, render_wrapper(content, class)>> \in TypedFiles
    <3> HIDE DEF wrapper_desktop_id, render_wrapper
    <3> QED BY <2>1, TypedFilesAreClosed DEF Closed
  <2>3. IsSeq(id) /\ content.name \in Text /\ content.exec \in Exec
    BY <2>1, SeqIsSeq DEF TypedFiles, Text
  <2>4. <<id, Torn>> \in Fits
    BY <2>1, <2>2 DEF Fits
  <2>5. ASSUME NEW class \in Classes, NEW place \in {id, wrapper_desktop_id(id, class)}
        PROVE  <<place, render_wrapper(content, class)>> \in Fits
    <3>1. IsWrap(render_wrapper(content, class))
      BY <2>3, RenderedIsWrap
    <3> HIDE DEF wrapper_desktop_id, render_wrapper
    <3> QED BY <2>2, <2>5, <3>1 DEF Fits
  <2> QED BY <2>2, <2>4, <2>5
<1> HIDE DEF wrapper_desktop_id, render_wrapper
<1> QED BY <1>1, <1>2, <1>3 DEF Closed

LEMMA ConcatBegins ==
  ASSUME NEW s, IsSeq(s), 1 \in 1..Len(s), NEW t, IsSeq(t)
  PROVE  IsSeq(s \o t) /\ 1 \in 1..Len(s \o t) /\ (s \o t)[1] = s[1]
<1>1. PICK u : u = s \o t
  OBVIOUS
<1>2. Joins(u, s, t)
  BY <1>1, ConcatJoins
<1>3. IsSeq(u) /\ 1 \in 1..Len(u) /\ u[1] = s[1]
  BY <1>2 DEF Joins
<1> QED BY <1>1, <1>3

\* A wrapper is found for none of the ids that are asked for, unless it is of a
\* snap application.
LEMMA WrapperIsNoHit ==
  ASSUME NEW e, EndsAsWrapper(e.id), ~IsPrefix(<<"snap", ".">>, e.id), IsSeq(e.exec), IsWrap(e),
         NEW id, IsSeq(id), id # None, ~Marked(id)
  PROVE  e.id # id /\ \A S : e \notin SnapHits(id, S) \cup LooseHits(id, S)
<1>1. EndsAsWrapper(e.id) /\ IsSeq(e.id) /\ Marked(e.id)
  BY EndIsMarked
<1>2. snap_app_from_desktop_id(e.id) # id
  BY <1>1, WrapperIsNoSnap
<1>3. ~IsSuffix(<<Bar>> \o id, e.id)
  BY <1>1, WrapperIsNoEnd
<1>4. ~IsPrefix(<<"snap", ".">> \o id \o <<".">>, e.id)
  <2>1. <<"snap", ".">> \in Seq({"snap", "."}) /\ <<".">> \in Seq({"."})
    OBVIOUS
  <2>2. PICK front : front = <<"snap", ".">>
    OBVIOUS
  <2>3. PICK dot : dot = <<".">>
    OBVIOUS
  <2>4. IsSeq(front) /\ IsSeq(dot)
    BY <2>1, <2>2, <2>3, SeqIsSeq
  <2>5. ~IsPrefix(front \o id \o dot, e.id)
    BY <1>1, <2>2, <2>4, LongerPrefix
  <2> QED BY <2>2, <2>3, <2>5
<1>5. parse_first_exec_token(e.exec) # id
  <2>1. parse_first_exec_token(e.exec) = <<"resguard">>
    BY FirstTokenIs DEF IsWrap
  <2>2. Marked(<<"resguard">>)
    BY DEF Marked
  <2> QED BY <2>1, <2>2
<1>6. e.name # id
  BY DEF IsWrap
<1>7. flatpak_app_name(e.id) # id
  BY <1>1, WrapperIsNoFlatpak
<1>8. \A S : e \notin SnapHits(id, S)
  BY <1>2 DEF SnapHits
<1>9. \A S : e \notin LooseHits(id, S)
  BY <1>3, <1>4, <1>5, <1>6, <1>7, Zenon DEF LooseHits, Bar
<1> QED BY <1>1, <1>8, <1>9

LEMMA SameHits ==
  ASSUME NEW id, NEW S, NEW T, T \subseteq S,
         \A e \in S \ T : e.id # id /\ \A R : e \notin SnapHits(id, R) \cup LooseHits(id, R)
  PROVE  /\ SnapHits(id, T) = SnapHits(id, S) /\ LooseHits(id, T) = LooseHits(id, S)
         /\ {e \in T : e.id = id} = {e \in S : e.id = id}
<1>1. /\ SnapHits(id, T) = {e \in T : e \in SnapHits(id, S)}
      /\ LooseHits(id, T) = {e \in T : e \in LooseHits(id, S)}
      /\ SnapHits(id, S) \subseteq S /\ LooseHits(id, S) \subseteq S
  BY Zenon DEF SnapHits, LooseHits
<1> QED BY <1>1

LEMMA StrongStays ==
  ASSUME NEW id, NEW S, NEW T, T \subseteq S,
         \A e \in S \ T : e.id # id /\ \A R : e \notin SnapHits(id, R) \cup LooseHits(id, R),
         Strong(id, T) # {}
  PROVE  Strong(id, S) = Strong(id, T)
<1> DEFINE hits(R) == {e \in R : e.id = id \/ e \in SnapHits(id, {e}) \cup LooseHits(id, {e})}
<1>1. \A R : Strong(id, R) = IF hits(R) # {} THEN resolve_desktop_id(id, R).ids ELSE {}
  BY Zenon DEF Strong
<1>2. hits(T) # {} /\ T \subseteq S => hits(S) # {}
  OBVIOUS
<1>3. \A e \in hits(T) : e.id = id \/ e \in SnapHits(id, T) \cup LooseHits(id, T)
  BY Zenon DEF SnapHits, LooseHits
<1> DEFINE exact(R) == {e \in R : e.id = id}
<1>4. \A R : resolve_desktop_id(id, R) =
        IF ~validate_desktop_id(id) THEN NotFound
        ELSE IF SnapHits(id, R) # {} THEN AliasAmong(SnapHits(id, R), LastDir(SnapHits(id, R)))
        ELSE IF exact(R) # {} THEN Exact(FirstDir(exact(R)))
        ELSE IF LooseHits(id, R) # {} THEN AliasAmong(LooseHits(id, R), PickHit(LooseHits(id, R)))
        ELSE resolve_alias_candidate(id, R)
  BY Zenon DEF resolve_desktop_id
<1>5. SnapHits(id, T) = SnapHits(id, S) /\ LooseHits(id, T) = LooseHits(id, S) /\ exact(T) = exact(S)
  BY SameHits
<1>6. hits(T) # {}
  BY <1>1
<1>7. SnapHits(id, T) # {} \/ exact(T) # {} \/ LooseHits(id, T) # {}
  BY <1>3, <1>6
<1> HIDE DEF hits, exact
<1>8. resolve_desktop_id(id, S) = resolve_desktop_id(id, T)
  BY <1>4, <1>5, <1>7, Zenon
<1> QED BY <1>1, <1>2, <1>6, <1>8, Zenon

\* Wrappers change nothing in what the ids that are asked for resolve to, unless
\* only a part of an id had matched, whatever was wrapped and by whom: none of
\* them has an id, a name, a snap or a program that is asked for.  Excepted are
\* the ids that name an entry snap.<package>.<application> otherwise than by its
\* own id: the wrapper of such an entry is one of that package too.
THEOREM WrappersKeepResolutionHolds ==
  ASSUME PlainFiles, PlainIds
  PROVE  Spec => []WrappersKeepResolution
<1>1. Init => SafeInv /\ GoodInv(Fits)
  BY SafeInit, GoodInit, FitsIsClosed
<1>2. SafeInv /\ GoodInv(Fits) /\ [Next]_vars => SafeInv' /\ GoodInv(Fits)'
  BY SafeNext, GoodNext, FitsIsClosed
<1>3. SafeInv /\ GoodInv(Fits) => WrappersKeepResolution
  <2> SUFFICES ASSUME SafeInv, GoodInv(Fits) PROVE WrappersKeepResolution
    OBVIOUS
  <2> DEFINE plain == {e \in Entries : ~IsWrapper(e)}
  <2>1. ASSUME NEW id \in RequestedIds, Strong(id, plain) # {}, ~NamesSnapId(id, Entries)
        PROVE  Strong(id, Entries) = Strong(id, plain)
    <3>1. IsSeq(id) /\ ~Marked(id)
      <4>1. /\ \A c \in Commands : ~IsSuggest(c) => c.id \in Seq(Words)
            /\ \A e \in SystemEntries : e.id \in Seq(Words) /\ e.name \in Seq(Words)
        BY DesktopAssumption DEF IsSuggest, Text
      <4>2. id \in Seq(Words)
        BY <4>1 DEF RequestedIds
      <4> QED BY <4>2, SeqIsSeq DEF PlainIds
    <3>2. id # None
      <4>1. ~validate_desktop_id(None)
        BY DEF validate_desktop_id
      <4>2. \A S : ~validate_desktop_id(id) => resolve_desktop_id(id, S) = NotFound
        BY Zenon DEF resolve_desktop_id
      <4>3. NotFound.ids = {}
        BY DEF NotFound
      <4>4. ~validate_desktop_id(id) => Strong(id, plain) = {}
        <5> HIDE DEF plain
        <5> QED BY <4>2, <4>3, Zenon DEF Strong
      <4> QED BY <2>1, <4>1, <4>4
    <3>3. ASSUME NEW e \in Entries, IsWrapper(e)
          PROVE  IsSeq(e.id) /\ IsSeq(e.exec) /\ IsWrap(e)
      <4>1. CASE e \in SystemEntries
        <5>1. e.id \in Seq(Words)
          BY <4>1, DesktopAssumption DEF Text
        <5>2. IsSeq(e.id) /\ ~Marked(e.id)
          BY <4>1, <5>1, SeqIsSeq DEF PlainIds, RequestedIds
        <5> QED BY <3>3, <5>2, WrapperIdEnds DEF IsWrapper
      <4>2. CASE e \notin SystemEntries
        <5>1. PICK i \in DOMAIN files :
                files[i] # Torn /\ e = DesktopEntry(i, UserDir, files[i].name, files[i].exec)
          BY <4>2 DEF Entries
        <5>2. e.id = i /\ e.name = files[i].name /\ e.exec = files[i].exec
          BY <5>1 DEF DesktopEntry
        <5>3. <<i, files[i]>> \in Fits
          BY DEF GoodInv, GoodFiles
        <5>4. i \in Seq(Words) /\ files[i].exec \in Seq(Text)
              /\ (Marked(i) => IsWrap(files[i]))
          BY <5>1, <5>3 DEF Fits, TypedFiles, Text, Exec
        <5>5. IsSeq(i) /\ IsSeq(files[i].exec)
          BY <5>4, SeqIsSeq
        <5>6. Marked(i)
          BY <3>3, <5>2, <5>5, WrapperIdEnds DEF IsWrapper
        <5> QED BY <5>2, <5>4, <5>5, <5>6 DEF IsWrap
      <4> QED BY <4>1, <4>2
    <3>4. ASSUME NEW e \in Entries \ plain
          PROVE  e.id # id /\ \A R : e \notin SnapHits(id, R) \cup LooseHits(id, R)
      <4>1. e \in Entries /\ IsWrapper(e)
        OBVIOUS
      <4>2. EndsAsWrapper(e.id)
        BY <3>3, <4>1, WrapperIdEnds DEF IsWrapper
      <4>3. CASE ~IsPrefix(<<"snap", ".">>, e.id)
        BY <3>1, <3>2, <3>3, <4>1, <4>2, <4>3, WrapperIsNoHit
      <4>4. CASE IsPrefix(<<"snap", ".">>, e.id)
        <5>1. e \notin SnapHits(id, {e}) \cup LooseHits(id, {e})
          BY <2>1, <4>1, <4>4 DEF NamesSnapId
        <5>2. \A R : e \notin SnapHits(id, R) \cup LooseHits(id, R)
          BY <5>1, Zenon DEF SnapHits, LooseHits
        <5>3. e.id # id
          BY <3>1, <4>2, EndIsMarked
        <5> QED BY <5>2, <5>3
      <4> QED BY <4>3, <4>4
    <3>5. plain \subseteq Entries
      OBVIOUS
    <3> HIDE DEF plain
    <3> QED BY <2>1, <3>4, <3>5, StrongStays
  <2> HIDE DEF plain
  <2>2. WrappersKeepResolution <=>
          (Working = {} => \A id \in RequestedIds :
             Strong(id, plain) # {} /\ ~NamesSnapId(id, Entries)
             => Strong(id, Entries) = Strong(id, plain))
    BY DEF WrappersKeepResolution, plain
  <2> QED BY <2>1, <2>2
<1> QED BY <1>1, <1>2, <1>3, PTL DEF Spec


-----------------------------------------------------------------------------
(* The Exec line of a wrapper launches the snap that its source launches.  *)

\* Places of a line in the line of its wrapper, behind the words of resguard.
Behind(S) == {i + 5 : i \in S}

LEMMA LeastIs ==
  ASSUME NEW S, S \subseteq Nat, S # {}
  PROVE  Least(S) \in S /\ \A i \in S : Least(S) <= i
<1>1. \E i \in S : \A j \in S : i <= j
  BY NatSmallest
<1> QED BY <1>1 DEF Least

LEMMA LeastBehind ==
  ASSUME NEW S, S \subseteq Nat, S # {}
  PROVE  Behind(S) # {} /\ Least(Behind(S)) = Least(S) + 5
<1>1. /\ \A i \in S : i \in Nat /\ i + 5 \in Behind(S)
      /\ \A j \in Behind(S) : \E i \in S : j = i + 5
  BY DEF Behind
<1>2. Behind(S) \subseteq Nat
  <2>1. ASSUME NEW j \in Behind(S) PROVE j \in Nat
    <3>1. PICK i \in S : j = i + 5
      BY <1>1
    <3> QED BY <1>1, <3>1
  <2> QED BY <2>1
<1>3. Least(S) \in S /\ \A i \in S : Least(S) <= i
  BY LeastIs
<1>4. PICK first : first = Least(S)
  OBVIOUS
<1>5. PICK least : least = Least(Behind(S))
  OBVIOUS
<1>6. first \in S /\ first \in Nat /\ first + 5 \in Behind(S) /\ Behind(S) # {}
  BY <1>1, <1>3, <1>4
<1>7. least \in Behind(S) /\ least <= first + 5
  BY <1>2, <1>5, <1>6, LeastIs
<1>8. PICK i \in S : least = i + 5
  BY <1>1, <1>7
<1>9. i \in Nat /\ first <= i
  BY <1>1, <1>3, <1>4, <1>8
<1>10. least = first + 5
  BY <1>6, <1>7, <1>8, <1>9
<1> QED BY <1>4, <1>5, <1>6, <1>10

\* A line of five more words in front.
Follows(line, exec) ==
  /\ IsSeq(exec) /\ IsSeq(line) /\ Len(exec) \in Nat /\ Len(line) = Len(exec) + 5
  /\ DOMAIN exec = 1..Len(exec) /\ DOMAIN line = 1..(Len(exec) + 5)
  /\ \A i \in 1..Len(exec) : line[i + 5] = exec[i]

LEMMA CleanedPlaces ==
  ASSUME NEW exec, IsSeq(exec)
  PROVE  /\ Cleaned(exec) \subseteq DOMAIN exec /\ Cleaned(exec) \subseteq Nat
         /\ \A i : Later(exec, i) \subseteq Cleaned(exec)
<1>1. DOMAIN exec \subseteq Nat
  BY DEF IsSeq
<1> QED BY <1>1 DEF Cleaned, Later

LEMMA LaterFollows ==
  ASSUME NEW exec, NEW line, Follows(line, exec)
  PROVE  /\ \A i \in Nat : i + 5 \in Cleaned(line) <=> i \in Cleaned(exec) \/ (i = 0 /\ 5 \in Cleaned(line))
         /\ \A i \in DOMAIN exec : Later(line, i + 5) = Behind(Later(exec, i))
<1> DEFINE n == Len(exec)
<1>1. /\ n \in Nat /\ DOMAIN exec = 1..n /\ DOMAIN line = 1..(n + 5)
      /\ \A i \in 1..n : line[i + 5] = exec[i]
  BY DEF Follows
<1> HIDE DEF n
<1>2. ASSUME NEW i \in 1..n PROVE i + 5 \in Cleaned(line) <=> i \in Cleaned(exec)
  BY <1>1 DEF Cleaned
<1>3. ASSUME NEW i \in Nat PROVE i + 5 \in Cleaned(line) => i = 0 \/ i \in 1..n
  BY <1>1 DEF Cleaned
<1>4. Cleaned(exec) \subseteq 1..n /\ Cleaned(line) \subseteq 1..(n + 5)
  BY <1>1 DEF Cleaned
<1>5. ASSUME NEW i \in 1..n PROVE Later(line, i + 5) = Behind(Later(exec, i))
  <2>1. ASSUME NEW j \in Later(line, i + 5) PROVE j \in Behind(Later(exec, i))
    <3>1. j \in Cleaned(line) /\ j \in 1..(n + 5) /\ j > i + 5
      BY <1>4, <2>1 DEF Later
    <3>2. j - 5 \in 1..n /\ (j - 5) + 5 = j /\ j - 5 > i
      BY <1>1, <3>1
    <3>3. j - 5 \in Later(exec, i)
      BY <1>2, <3>1, <3>2 DEF Later
    <3> QED BY <3>2, <3>3 DEF Behind
  <2>2. ASSUME NEW j \in Later(exec, i) PROVE j + 5 \in Later(line, i + 5)
    <3>1. j \in Cleaned(exec) /\ j \in 1..n /\ j > i
      BY <1>4, <2>2 DEF Later
    <3>2. j + 5 > i + 5
      BY <1>1, <3>1
    <3> QED BY <1>2, <3>1, <3>2 DEF Later
  <2> QED BY <2>1, <2>2 DEF Behind
<1> QED BY <1>1, <1>2, <1>3, <1>4, <1>5

\* The places of launcher in an Exec line where "launcher run" stands.
Runs(exec, launcher) ==
  { i \in Cleaned(exec) :
      /\ exec[i] = <<launcher>> /\ Later(exec, i) # {}
      /\ exec[Least(Later(exec, i))] = <<"run">> /\ Later(exec, Least(Later(exec, i))) # {} }

LEMMA AfterRunIs ==
  ASSUME NEW exec, NEW launcher
  PROVE  AfterRun(exec, launcher) =
           IF Runs(exec, launcher) = {} THEN {}
           ELSE Later(exec, Least(Later(exec, Least(Runs(exec, launcher)))))
  BY DEF AfterRun, Runs

LEMMA RunsFollow ==
  ASSUME NEW exec, NEW line, Follows(line, exec), NEW launcher,
         5 \in Cleaned(line), line[5] # <<"run">>,
         \A i \in {1, 2, 3, 5} : line[i] # <<launcher>>
  PROVE  Runs(line, launcher) = Behind(Runs(exec, launcher))
<1>1. /\ IsSeq(exec) /\ IsSeq(line) /\ DOMAIN exec = 1..Len(exec) /\ Len(exec) \in Nat
      /\ DOMAIN line = 1..(Len(exec) + 5) /\ \A i \in DOMAIN exec : line[i + 5] = exec[i]
  BY DEF Follows
<1>2. /\ Cleaned(line) \subseteq DOMAIN line /\ Cleaned(exec) \subseteq DOMAIN exec
      /\ Cleaned(exec) \subseteq Nat /\ Cleaned(line) \subseteq Nat
      /\ \A i : Later(exec, i) \subseteq Cleaned(exec) /\ Later(line, i) \subseteq Cleaned(line)
  BY <1>1, CleanedPlaces
<1>3. ASSUME NEW i \in DOMAIN exec
      PROVE  i + 5 \in Runs(line, launcher) <=> i \in Runs(exec, launcher)
  <2>1. i + 5 \in Cleaned(line) <=> i \in Cleaned(exec)
    <3>1. i \in Nat /\ i # 0
      BY <1>1, <1>3
    <3> QED BY <3>1, LaterFollows
  <2>2. line[i + 5] = exec[i] /\ Later(line, i + 5) = Behind(Later(exec, i))
    BY <1>1, <1>3, LaterFollows
  <2>3. CASE Later(exec, i) = {}
    BY <2>2, <2>3 DEF Runs, Behind
  <2>4. CASE Later(exec, i) # {}
    <3>1. PICK next : next = Least(Later(exec, i))
      OBVIOUS
    <3>2. next \in DOMAIN exec /\ Later(line, i + 5) # {} /\ Least(Later(line, i + 5)) = next + 5
      BY <1>2, <2>2, <2>4, <3>1, LeastIs, LeastBehind
    <3>3. line[next + 5] = exec[next] /\ Later(line, next + 5) = Behind(Later(exec, next))
      BY <1>1, <3>2, LaterFollows
    <3>4. Later(line, next + 5) # {} <=> Later(exec, next) # {}
      BY <3>3 DEF Behind
    <3> QED BY <2>1, <2>2, <2>4, <3>1, <3>2, <3>3, <3>4 DEF Runs
  <2> QED BY <2>3, <2>4
<1>4. ASSUME NEW i \in Runs(line, launcher) PROVE i - 5 \in DOMAIN exec /\ (i - 5) + 5 = i
  <2>1. i \in 1..(Len(exec) + 5) /\ line[i] = <<launcher>>
    BY <1>1, <1>2, <1>4 DEF Runs
  <2>2. i # 4
    <3> SUFFICES ASSUME i = 4 PROVE FALSE
      OBVIOUS
    <3>1. 5 \in Later(line, 4) /\ \A j \in Later(line, 4) : 5 <= j
      BY <1>2 DEF Later
    <3>2. Later(line, 4) \subseteq Nat
      BY <1>2
    <3>3. Least(Later(line, 4)) = 5
      <4>1. Least(Later(line, 4)) \in Later(line, 4) /\ Least(Later(line, 4)) <= 5
        BY <3>1, <3>2, LeastIs
      <4> QED BY <3>1, <3>2, <4>1
    <3> QED BY <1>4, <3>3 DEF Runs
  <2>3. i > 5
    BY <2>1, <2>2
  <2> QED BY <1>1, <2>1, <2>3
<1>5. \A i \in Runs(exec, launcher) : i \in DOMAIN exec
  BY <1>2 DEF Runs
<1> QED BY <1>3, <1>4, <1>5 DEF Behind


LEMMA RunWords ==
  ASSUME NEW exec, IsSeq(exec), NEW class
  PROVE  LET line == wrap_exec(exec, class) IN
         /\ Follows(line, exec) /\ line[1] = <<"resguard">> /\ line # <<>>
         /\ 5 \in Cleaned(line) /\ line[5] # <<"run">>
         /\ \A i \in {1, 2, 3, 5} : line[i] # <<"snap">>
<1>1. PICK run0 :
        run0 = <<<<"resguard">>, <<"run">>, <<"-", "-", "class">>, <<class>>, <<"-", "-">>>>
  OBVIOUS
<1>2. PICK line : line = wrap_exec(exec, class) /\ line = run0 \o exec
  BY <1>1 DEF wrap_exec
<1>3. /\ IsSeq(run0) /\ Len(run0) = 5 /\ run0[1] = <<"resguard">> /\ run0[2] = <<"run">>
      /\ run0[3] = <<"-", "-", "class">> /\ run0[5] = <<"-", "-">>
  <2>1. run0 \in Seq({<<"resguard">>, <<"run">>, <<"-", "-", "class">>, <<class>>, <<"-", "-">>})
    BY <1>1
  <2>2. IsSeq(run0)
    BY <2>1, SeqIsSeq
  <2> QED BY <1>1, <2>2
<1>4. /\ IsSeq(line) /\ Len(line) = Len(run0) + Len(exec) /\ Len(exec) \in Nat
      /\ \A i \in 1..Len(run0) : line[i] = run0[i]
      /\ \A i \in 1..Len(exec) : line[Len(run0) + i] = exec[i]
  <2>1. Joins(line, run0, exec)
    BY <1>2, <1>3, ConcatJoins
  <2> QED BY <2>1 DEF Joins
<1>5. /\ DOMAIN exec = 1..Len(exec) /\ DOMAIN line = 1..Len(line)
  BY <1>4 DEF IsSeq
<1>6. Len(line) = Len(exec) + 5 /\ \A i \in 1..Len(exec) : line[i + 5] = exec[i]
  BY <1>3, <1>4
<1>7. Follows(line, exec)
  BY <1>4, <1>5, <1>6 DEF Follows
<1>8. /\ line[1] = <<"resguard">> /\ line[2] = <<"run">>
      /\ line[3] = <<"-", "-", "class">> /\ line[5] = <<"-", "-">>
  BY <1>3, <1>4
<1>9. 5 \in DOMAIN line /\ line # <<>>
  BY <1>4, <1>5, <1>6
<1>10. ~IsAssignment(<<"-", "-">>) /\ <<"-", "-">> # <<"env">>
  <2>1. Head(<<"-", "-">>) = "-" /\ Len(<<"-", "-">>) = 2 /\ Len(<<"env">>) = 1
    OBVIOUS
  <2> QED BY <2>1 DEF IsAssignment
<1>11. 5 \in Cleaned(line)
  BY <1>8, <1>9, <1>10 DEF Cleaned
<1>12. /\ <<"-", "-">> # <<"run">> /\ <<"-", "-">> # <<"snap">> /\ <<"resguard">> # <<"snap">>
       /\ <<"run">> # <<"snap">> /\ <<"-", "-", "class">> # <<"snap">>
  OBVIOUS
<1>13. line[5] # <<"run">> /\ \A i \in {1, 2, 3, 5} : line[i] # <<"snap">>
  BY <1>8, <1>12
<1> QED BY <1>2, <1>7, <1>8, <1>9, <1>11, <1>13

\* A wrapper launches the snap that its source launches.
LEMMA WrapLaunchesSameSnap ==
  ASSUME NEW exec, IsSeq(exec), NEW class
  PROVE  parse_snap_run_app(wrap_exec(exec, class)) = parse_snap_run_app(exec)
<1>1. PICK line : line = wrap_exec(exec, class)
  OBVIOUS
<1>2. /\ Follows(line, exec) /\ 5 \in Cleaned(line) /\ line[5] # <<"run">>
      /\ \A i \in {1, 2, 3, 5} : line[i] # <<"snap">>
  BY <1>1, RunWords
<1>3. Runs(line, "snap") = Behind(Runs(exec, "snap"))
  BY <1>2, RunsFollow
<1>4. /\ IsSeq(line) /\ DOMAIN exec \subseteq Nat /\ \A i \in DOMAIN exec : line[i + 5] = exec[i]
  BY <1>2 DEF Follows
<1>5. /\ Cleaned(exec) \subseteq DOMAIN exec /\ \A i : Later(exec, i) \subseteq Cleaned(exec)
  BY CleanedPlaces
<1>6. AfterRun(line, "snap") = Behind(AfterRun(exec, "snap")) /\ AfterRun(exec, "snap") \subseteq DOMAIN exec
  <2>1. CASE Runs(exec, "snap") = {}
    <3>1. Runs(line, "snap") = {}
      BY <1>3, <2>1 DEF Behind
    <3>2. Behind({}) = {}
      BY DEF Behind
    <3> QED BY <2>1, <3>1, <3>2, AfterRunIs
  <2>2. CASE Runs(exec, "snap") # {}
    <3>1. Runs(exec, "snap") \subseteq DOMAIN exec
      BY <1>5 DEF Runs
    <3>2. PICK first : first = Least(Runs(exec, "snap"))
      OBVIOUS
    <3>3. first \in Runs(exec, "snap") /\ Runs(line, "snap") # {}
          /\ Least(Runs(line, "snap")) = first + 5
      BY <1>3, <1>4, <2>2, <3>1, <3>2, LeastIs, LeastBehind
    <3>4. first \in DOMAIN exec /\ Later(exec, first) # {}
      BY <3>1, <3>3 DEF Runs
    <3>5. PICK run : run = Least(Later(exec, first))
      OBVIOUS
    <3>6. Later(line, first + 5) = Behind(Later(exec, first))
      BY <1>2, <3>4, LaterFollows
    <3>7. run \in DOMAIN exec /\ Least(Later(line, first + 5)) = run + 5
      BY <1>4, <1>5, <3>4, <3>5, <3>6, LeastIs, LeastBehind
    <3>8. Later(line, run + 5) = Behind(Later(exec, run))
      BY <1>2, <3>7, LaterFollows
    <3>9. AfterRun(line, "snap") = Later(line, run + 5)
      BY <3>3, <3>7, AfterRunIs
    <3>10. AfterRun(exec, "snap") = Later(exec, run)
      BY <2>2, <3>2, <3>5, AfterRunIs
    <3>11. Later(exec, run) \subseteq DOMAIN exec
      BY <1>5
    <3> QED BY <3>8, <3>9, <3>10, <3>11
  <2> QED BY <2>1, <2>2
<1>7. PICK places : places = {i \in AfterRun(exec, "snap") : ~IsOption(exec[i])}
  OBVIOUS
<1>8. PICK behind : behind = {i \in AfterRun(line, "snap") : ~IsOption(line[i])}
  OBVIOUS
<1>9. behind = Behind(places)
  BY <1>4, <1>6, <1>7, <1>8 DEF Behind
<1>10. places \subseteq DOMAIN exec
  BY <1>6, <1>7
<1>11. FirstOf(line, behind) = FirstOf(exec, places)
  <2>1. CASE places = {}
    BY <1>9, <2>1 DEF FirstOf, Behind
  <2>2. CASE places # {}
    <3>1. PICK least : least = Least(places)
      OBVIOUS
    <3>2. least \in DOMAIN exec /\ behind # {} /\ Least(behind) = least + 5
      BY <1>4, <1>9, <1>10, <2>2, <3>1, LeastIs, LeastBehind
    <3> QED BY <1>4, <2>2, <3>1, <3>2 DEF FirstOf
  <2> QED BY <2>1, <2>2
<1>12. \A run : parse_snap_run_app(run) =
                 FirstOf(run, {i \in AfterRun(run, "snap") : ~IsOption(run[i])})
  BY Zenon DEF parse_snap_run_app
<1>13. parse_snap_run_app(line) = FirstOf(line, behind)
       /\ parse_snap_run_app(exec) = FirstOf(exec, places)
  BY <1>7, <1>8, <1>12, Zenon
<1> QED BY <1>1, <1>11, <1>13

LEMMA NoExecNoSnap == parse_snap_run_app(<<>>) = None
<1>1. Cleaned(<<>>) = {}
  BY DEF Cleaned
<1>2. AfterRun(<<>>, "snap") = {}
  <2>1. Runs(<<>>, "snap") = {}
    BY <1>1 DEF Runs
  <2> QED BY <2>1, AfterRunIs
<1>3. {i \in AfterRun(<<>>, "snap") : ~IsOption(<<>>[i])} = {}
  BY <1>2
<1> QED BY <1>3 DEF parse_snap_run_app, FirstOf

LEMMA SameSeq ==
  ASSUME NEW s, IsSeq(s), NEW t, IsSeq(t), Len(s) = Len(t), \A i \in 1..Len(s) : s[i] = t[i]
  PROVE  s = t
<1> DEFINE S == {s[i] : i \in DOMAIN s}
           T == {t[i] : i \in DOMAIN t}
<1>1. s \in Seq(S) /\ t \in Seq(T)
  BY DEF IsSeq
<1> HIDE DEF S, T
<1>2. s \in Seq(S \cup T) /\ t \in Seq(S \cup T)
  <2>1. Seq(S) \subseteq Seq(S \cup T) /\ Seq(T) \subseteq Seq(S \cup T)
    OBVIOUS
  <2> QED BY <1>1, <2>1
<1> QED BY <1>2, SeqEqual

LEMMA PartIs ==
  ASSUME NEW text, IsSeq(text), NEW i \in Nat, NEW m \in Nat, i + m <= Len(text)
  PROVE  LET part == SubSeq(text, i + 1, i + m) IN
         IsSeq(part) /\ Len(part) = m /\ \A k \in 1..m : part[k] = text[i + k]
<1>1. PICK from : from = i + 1
  OBVIOUS
<1>2. PICK to : to = i + m
  OBVIOUS
<1>3. from \in Nat \ {0} /\ to \in Nat /\ to <= Len(text)
  BY <1>1, <1>2
<1>4. PICK part : part = SubSeq(text, from, to)
  OBVIOUS
<1>5. /\ IsSeq(part) /\ Len(part) = IF from <= to THEN to - from + 1 ELSE 0
      /\ \A k \in 1..(to - from + 1) : part[k] = text[from + k - 1]
  <2>1. Cuts(part, text, from, to)
    BY <1>3, <1>4, SubSeqCuts
  <2> QED BY <2>1 DEF Cuts
<1>6. to - from + 1 = m /\ (from <= to <=> m # 0) /\ \A k \in 1..m : from + k - 1 = i + k
  BY <1>1, <1>2
<1>7. Len(part) = m /\ \A k \in 1..m : part[k] = text[i + k]
  BY <1>5, <1>6
<1> QED BY <1>1, <1>2, <1>4, <1>5, <1>7

\* What occurs in an id occurs in the id of its wrapper.
LEMMA OccursInLonger ==
  ASSUME NEW part, IsSeq(part), NEW text, IsSeq(text), NEW more, IsSeq(more), Occurs(part, text)
  PROVE  Occurs(part, text \o more)
<1>1. PICK n : n = Len(text)
  OBVIOUS
<1>2. PICK m : m = Len(part)
  OBVIOUS
<1>3. PICK longer : longer = text \o more
  OBVIOUS
<1>4. /\ IsSeq(longer) /\ Len(longer) = n + Len(more) /\ n \in Nat /\ Len(more) \in Nat
      /\ \A i \in 1..n : longer[i] = text[i]
  <2>1. Joins(longer, text, more)
    BY <1>3, ConcatJoins
  <2> QED BY <1>1, <2>1 DEF Joins
<1>5. m \in Nat
  BY <1>2 DEF IsSeq
<1>6. PICK i \in 0..(n - m) : SubSeq(text, i + 1, i + m) = part
  BY <1>1, <1>2 DEF Occurs
<1>7. i \in Nat /\ i + 1 \in Nat \ {0} /\ i + m \in Nat /\ i + m <= n /\ i + m <= Len(longer)
      /\ i \in 0..(Len(longer) - m)
  BY <1>4, <1>5, <1>6
<1>8. SubSeq(longer, i + 1, i + m) = SubSeq(text, i + 1, i + m)
  <2>1. PICK a : a = SubSeq(longer, i + 1, i + m)
    OBVIOUS
  <2>2. PICK b : b = SubSeq(text, i + 1, i + m)
    OBVIOUS
  <2>3. IsSeq(a) /\ Len(a) = m /\ \A k \in 1..m : a[k] = longer[i + k]
    <3>1. IsSeq(longer) /\ i \in Nat /\ m \in Nat /\ i + m <= Len(longer)
      BY <1>4, <1>5, <1>7
    <3> QED BY <2>1, <3>1, PartIs
  <2>4. IsSeq(b) /\ Len(b) = m /\ \A k \in 1..m : b[k] = text[i + k]
    <3>1. IsSeq(text) /\ i \in Nat /\ m \in Nat /\ i + m <= Len(text)
      BY <1>1, <1>5, <1>7
    <3> QED BY <2>2, <3>1, PartIs
  <2>5. \A k \in 1..m : longer[i + k] = text[i + k]
    BY <1>4, <1>5, <1>7
  <2>6. a = b
    <3>1. \A k \in 1..m : a[k] = b[k]
      BY <2>3, <2>4, <2>5
    <3>2. IsSeq(a) /\ IsSeq(b) /\ Len(a) = Len(b) /\ \A k \in 1..Len(a) : a[k] = b[k]
      BY <2>3, <2>4, <3>1
    <3> QED BY <3>2, SameSeq
  <2> QED BY <2>1, <2>2, <2>6
<1> QED BY <1>2, <1>3, <1>6, <1>7, <1>8 DEF Occurs

LEMMA SecondaryWrapper ==
  ASSUME NEW id, IsSeq(id), is_secondary_desktop_id(id), NEW class
  PROVE  is_secondary_desktop_id(wrapper_desktop_id(id, class))
<1>1. PICK end : end = <<".", "desktop", ".", "resguard", "-", class>>
  OBVIOUS
<1>2. IsSeq(end)
  <2>1. end \in Seq({".", "desktop", "resguard", "-", class})
    BY <1>1
  <2> QED BY <2>1, SeqIsSeq
<1>3. wrapper_desktop_id(id, class) = id \o end
  BY <1>1 DEF wrapper_desktop_id
<1>4. PICK url : url = <<"url", "-", "handler">>
  OBVIOUS
<1>5. PICK scheme : scheme = <<"x", "-", "scheme", "-", "handler">>
  OBVIOUS
<1>6. IsSeq(url) /\ IsSeq(scheme)
  <2>1. url \in Seq({"url", "-", "handler"}) /\ scheme \in Seq({"x", "-", "scheme", "handler"})
    BY <1>4, <1>5
  <2> QED BY <2>1, SeqIsSeq
<1>7. \A name : is_secondary_desktop_id(name) <=> Occurs(url, name) \/ Occurs(scheme, name)
  BY <1>4, <1>5, Zenon DEF is_secondary_desktop_id
<1> QED BY <1>2, <1>3, <1>6, <1>7, OccursInLonger


-----------------------------------------------------------------------------
(* The keys under which a wrapper is found.                                *)

LEMMA MarkedKey ==
  ASSUME NEW app, IsSeq(app), Marked(app), NEW store
  PROVE  Marked(Key(store, app))
<1>1. PICK front : front = <<store, ":">>
  OBVIOUS
<1>2. IsSeq(front)
  <2>1. front \in Seq({store, ":"})
    BY <1>1
  <2> QED BY <2>1, SeqIsSeq
<1>3. PICK key : key = front \o app
  OBVIOUS
<1>4. /\ IsSeq(key) /\ Len(key) = Len(front) + Len(app) /\ Len(front) \in Nat /\ Len(app) \in Nat
      /\ \A i \in 1..Len(app) : key[Len(front) + i] = app[i]
  <2>1. Joins(key, front, app)
    BY <1>2, <1>3, ConcatJoins
  <2> QED BY <2>1 DEF Joins
<1>5. PICK i \in DOMAIN app : app[i] = "resguard"
  BY DEF Marked
<1>6. DOMAIN app = 1..Len(app) /\ DOMAIN key = 1..Len(key)
  BY <1>4 DEF IsSeq
<1>7. Len(front) + i \in DOMAIN key /\ key[Len(front) + i] = "resguard"
  BY <1>4, <1>5, <1>6
<1>8. Key(store, app) = key
  BY <1>1, <1>3 DEF Key
<1> QED BY <1>7, <1>8 DEF Marked

\* The word resguard is known by no other name.
LEMMA ResguardAliases == known_aliases(<<"resguard">>) = {<<"resguard">>}
<1>1. PICK t : t = <<"resguard">>
  OBVIOUS
<1>2. IsSeq(t) /\ Len(t) = 1 /\ t[1] = "resguard"
  <2>1. t \in Seq({"resguard"})
    BY <1>1
  <2>2. IsSeq(t)
    BY <2>1, SeqIsSeq
  <2> QED BY <1>1, <2>2
<1>3. WithoutSuffix(<<".", "sh">>, t) = t
  <2>1. PICK end : end = <<".", "sh">>
    OBVIOUS
  <2>2. IsSeq(end) /\ Len(end) = 2
    <3>1. end \in Seq({".", "sh"})
      BY <2>1
    <3>2. IsSeq(end)
      BY <3>1, SeqIsSeq
    <3> QED BY <2>1, <3>2
  <2>3. ~IsSuffix(end, t)
    BY <1>2, <2>2, SuffixEnds
  <2> QED BY <2>1, <2>3 DEF WithoutSuffix
<1>4. WithoutSuffix(<<"64">>, t) = t
  <2>1. PICK end : end = <<"64">>
    OBVIOUS
  <2>2. IsSeq(end) /\ Len(end) = 1 /\ end[1] = "64"
    <3>1. end \in Seq({"64"})
      BY <2>1
    <3>2. IsSeq(end)
      BY <3>1, SeqIsSeq
    <3> QED BY <2>1, <3>2
  <2>3. ~IsSuffix(end, t)
    <3> SUFFICES ASSUME IsSuffix(end, t) PROVE FALSE
      OBVIOUS
    <3>1. \A k \in 0..(Len(end) - 1) : t[Len(t) - k] = end[Len(end) - k]
      BY <1>2, <2>2, SuffixEnds
    <3>2. t[1] = end[1]
      BY <1>2, <2>2, <3>1
    <3> QED BY <1>2, <2>2, <3>2
  <2> QED BY <2>1, <2>3 DEF WithoutSuffix
<1>5. normalize_exec_token(t) = t
  BY <1>3, <1>4 DEF normalize_exec_token
<1>6. Chrome[1] = "google" /\ (Chrome \o <<"-", "stable">>)[1] = "google"
  <2>1. PICK end : end = <<"-", "stable">>
    OBVIOUS
  <2>2. Chrome \in Seq({"google", "-", "chrome"}) /\ end \in Seq({"-", "stable"})
        /\ 1 \in 1..Len(Chrome) /\ Chrome[1] = "google"
    BY <2>1 DEF Chrome
  <2>3. IsSeq(Chrome) /\ IsSeq(end)
    BY <2>2, SeqIsSeq
  <2>4. (Chrome \o end)[1] = Chrome[1]
    BY <2>2, <2>3, ConcatBegins
  <2> QED BY <2>1, <2>2, <2>4
<1>7. /\ t # Chrome \o <<"-", "stable">> /\ t # Chrome /\ t # <<"chrome">>
      /\ t # <<"chromium", "-", "browser">> /\ t # <<"vscodium">>
  <2>1. /\ <<"chrome">>[1] = "chrome" /\ <<"chromium", "-", "browser">>[1] = "chromium"
        /\ <<"vscodium">>[1] = "vscodium"
    OBVIOUS
  <2>2. /\ "resguard" # "google" /\ "resguard" # "chrome" /\ "resguard" # "chromium"
        /\ "resguard" # "vscodium"
    OBVIOUS
  <2> QED BY <1>2, <1>6, <2>1, <2>2
<1>8. known_aliases(t) =
        {normalize_exec_token(t)} \cup
        (IF normalize_exec_token(t) \in {Chrome \o <<"-", "stable">>, Chrome, <<"chrome">>}
         THEN {<<"chromium">>}
         ELSE IF normalize_exec_token(t) = <<"chromium", "-", "browser">>
         THEN {<<"chromium">>, <<"chrome">>}
         ELSE IF normalize_exec_token(t) = <<"vscodium">> THEN {<<"codium">>}
         ELSE {})
  BY Zenon DEF known_aliases
<1>9. known_aliases(t) = {t} \cup {}
  BY <1>5, <1>7, <1>8, Zenon
<1> QED BY <1>1, <1>9

\* A key of a wrapper that has not the word of the wrappers is of the snap that
\* it launches.
LEMMA WrapperKeys ==
  ASSUME NEW e, EndsAsWrapper(e.id), e.id[1] # "snap", IsSeq(e.exec), e.exec # <<>>,
         e.exec[1] = <<"resguard">>, NEW k \in index_entry(e), ~Marked(k)
  PROVE  parse_snap_run_app(e.exec) # None /\ k = Key("snap", parse_snap_run_app(e.exec))
<1> DEFINE bin == parse_first_exec_token(e.exec)
           snap == Present({parse_snap_run_app(e.exec), snap_app_from_desktop_id(e.id)})
           flatpak == flatpak_app_id_from_desktop_id(e.id)
<1>1. k # None
  BY DEF index_entry, Present
<1>2. \/ k \in (IF bin = None THEN {} ELSE known_aliases(bin))
      \/ k \in {Key("snap", app) : app \in snap}
      \/ k \in (IF flatpak = None THEN {}
                ELSE {Key("flatpak", flatpak), flatpak_app_name(flatpak)})
  BY Zenon DEF index_entry, Present
<1>3. bin = <<"resguard">>
  BY FirstTokenIs
<1>4. IsSeq(e.id) /\ Marked(e.id)
  BY EndIsMarked
<1>5. k \notin known_aliases(bin)
  <2>1. Marked(<<"resguard">>)
    BY DEF Marked
  <2> QED BY <1>3, <2>1, ResguardAliases
<1>6. flatpak # None => flatpak = e.id
  BY DEF flatpak_app_id_from_desktop_id
<1>7. Marked(Key("flatpak", e.id))
  BY <1>4, MarkedKey
<1>8. flatpak_app_name(e.id) = None \/ Marked(flatpak_app_name(e.id))
  BY WrapperIsNoFlatpak
<1>9. k \in {Key("snap", app) : app \in snap}
  <2> HIDE DEF bin, snap, flatpak
  <2> QED BY <1>1, <1>2, <1>5, <1>6, <1>7, <1>8
<1>10. PICK app \in snap : k = Key("snap", app)
  BY <1>9
<1>11. app # None /\ (app = parse_snap_run_app(e.exec) \/ app = snap_app_from_desktop_id(e.id))
  BY <1>10 DEF Present
<1>12. app # snap_app_from_desktop_id(e.id)
  <2> SUFFICES ASSUME app = snap_app_from_desktop_id(e.id) PROVE FALSE
    OBVIOUS
  <2>1. IsSeq(app) /\ Marked(app)
    BY <1>4, <1>11, NoSnapPrefix, WrapperIsNoSnap
  <2> QED BY <1>10, <2>1, MarkedKey
<1> QED BY <1>10, <1>11, <1>12

LEMMA SnapIsKey ==
  ASSUME NEW e, parse_snap_run_app(e.exec) # None
  PROVE  Key("snap", parse_snap_run_app(e.exec)) \in index_entry(e)
<1>1. PICK app : app = parse_snap_run_app(e.exec)
  OBVIOUS
<1>2. app \in Present({parse_snap_run_app(e.exec), snap_app_from_desktop_id(e.id)})
  BY <1>1 DEF Present
<1>3. Key("snap", app) # None
  <2> SUFFICES ASSUME Key("snap", app) = <<>> PROVE FALSE
    BY DEF None
  <2> QED BY DEF Key
<1> QED BY <1>1, <1>2, <1>3, Zenon DEF index_entry, Present


LEMMA WrapperEnds ==
  ASSUME NEW id, IsSeq(id), NEW class
  PROVE  EndsAsWrapper(wrapper_desktop_id(id, class))
<1>1. PICK end : end = <<".", "desktop", ".", "resguard", "-", class>>
  OBVIOUS
<1>2. IsSeq(end) /\ Len(end) = 6 /\ end[3] = "." /\ end[4] = "resguard" /\ end[5] = "-"
  <2>1. end \in Seq({".", "desktop", "resguard", "-", class})
    BY <1>1
  <2>2. IsSeq(end)
    BY <2>1, SeqIsSeq
  <2> QED BY <1>1, <2>2
<1>3. PICK long : long = id \o end
  OBVIOUS
<1>4. PICK n : n = Len(id)
  OBVIOUS
<1>5. /\ IsSeq(long) /\ Len(long) = n + Len(end) /\ n \in Nat
      /\ \A i \in 1..Len(end) : long[n + i] = end[i]
  <2>1. Joins(long, id, end)
    BY <1>2, <1>3, ConcatJoins
  <2> QED BY <1>4, <2>1 DEF Joins
<1>6. PICK m : m = Len(long)
  OBVIOUS
<1>7. m = n + 6 /\ m \in Nat /\ m >= 6
  BY <1>2, <1>5, <1>6
<1>8. long[m - 3] = "." /\ long[m - 2] = "resguard" /\ long[m - 1] = "-"
  <2>1. m - 3 = n + 3 /\ m - 2 = n + 4 /\ m - 1 = n + 5
    BY <1>5, <1>7
  <2>2. long[n + 3] = end[3] /\ long[n + 4] = end[4] /\ long[n + 5] = end[5]
    BY <1>2, <1>5
  <2> QED BY <1>2, <2>1, <2>2
<1>9. wrapper_desktop_id(id, class) = long
  BY <1>1, <1>3 DEF wrapper_desktop_id
<1> QED BY <1>5, <1>6, <1>7, <1>8, <1>9 DEF EndsAsWrapper

-----------------------------------------------------------------------------
(* What suggest plans does not grow by what it writes.                     *)

Unique(s, entries) == unique_desktop_id_for_scope_exec(s.scope, s.exec, entries)
Hits(s, entries)   == {e \in entries : index_entry(e) \cap ScopeKeys(s.scope, s.exec) # {}}
Primary(ids)       == {id \in ids : ~is_secondary_desktop_id(id)}

\* The id that is found is the only one or the only primary one.
LEMMA PreferredIs ==
  ASSUME NEW ids, IsFiniteSet(ids), NEW id, id # None
  PROVE  resolve_unique_or_preferred(ids) = id <=> ids = {id} \/ Primary(ids) = {id}
<1>1. resolve_unique_or_preferred(ids) =
        IF Cardinality(ids) = 1 THEN TheOnly(ids)
        ELSE IF Cardinality(Primary(ids)) = 1 THEN TheOnly(Primary(ids))
        ELSE None
  BY DEF resolve_unique_or_preferred, Primary
<1>2. Primary(ids) \subseteq ids /\ IsFiniteSet(Primary(ids))
  <2>1. Primary(ids) \subseteq ids
    BY DEF Primary
  <2> QED BY <2>1, FS_Subset
<1>3. \A S : IsFiniteSet(S) => (Cardinality(S) = 1 <=> \E x : S = {x})
  BY FS_Singleton
<1>4. \A x : TheOnly({x}) = x
  BY DEF TheOnly
<1>5. CASE \E x : ids = {x}
  <2>1. PICK x : ids = {x}
    BY <1>5
  <2>2. resolve_unique_or_preferred(ids) = x
    BY <1>1, <1>3, <1>4, <2>1
  <2> QED BY <1>2, <2>1, <2>2
<1>6. CASE ~\E x : ids = {x}
  <2>1. Cardinality(ids) # 1
    BY <1>3, <1>6
  <2>2. CASE \E x : Primary(ids) = {x}
    <3>1. PICK x : Primary(ids) = {x}
      BY <2>2
    <3>2. Cardinality(Primary(ids)) = 1
      BY <1>2, <1>3, <3>1
    <3>3. resolve_unique_or_preferred(ids) = x
      BY <1>1, <1>4, <2>1, <3>1, <3>2
    <3> QED BY <1>6, <3>1, <3>3
  <2>3. CASE ~\E x : Primary(ids) = {x}
    <3>1. Cardinality(Primary(ids)) # 1
      BY <1>2, <1>3, <2>3
    <3>2. resolve_unique_or_preferred(ids) = None
      BY <1>1, <2>1, <3>1
    <3> QED BY <1>6, <2>3, <3>2
  <2> QED BY <2>2, <2>3
<1> QED BY <1>5, <1>6

LEMMA UniqueIs ==
  ASSUME NEW s, NEW entries, IsFiniteSet(entries), NEW id, id # None
  PROVE  LET ids == IdsOf(Hits(s, entries)) IN
         Unique(s, entries) = id <=> ids = {id} \/ Primary(ids) = {id}
<1>1. PICK ids : ids = IdsOf(Hits(s, entries))
  OBVIOUS
<1>2. IsFiniteSet(Hits(s, entries))
  <2>1. Hits(s, entries) \subseteq entries
    BY DEF Hits
  <2> QED BY <2>1, FS_Subset
<1>3. IsFiniteSet(ids)
  <2> DEFINE f == [e \in Hits(s, entries) |-> e.id]
  <2>1. DOMAIN f = Hits(s, entries) /\ {f[e] : e \in Hits(s, entries)} = ids
    BY <1>1 DEF IdsOf
  <2> HIDE DEF f
  <2>2. IsFiniteSet({f[e] : e \in Hits(s, entries)})
    BY <1>2, <2>1, ImageIsFinite
  <2> QED BY <2>1, <2>2
<1>4. Unique(s, entries) = resolve_unique_or_preferred(ids)
  BY <1>1 DEF Unique, unique_desktop_id_for_scope_exec, Hits
<1> QED BY <1>1, <1>3, <1>4, PreferredIs

\* The entry of a wrapper of an entry.
IsWrapperOf(wrapper, e, class) ==
  /\ wrapper.id = wrapper_desktop_id(e.id, class)
  /\ wrapper.exec = wrap_exec(e.exec, class)

LEMMA WrapperOfFacts ==
  ASSUME NEW e, IsSeq(e.id), e.id # None, e.id[1] # "snap", IsSeq(e.exec),
         NEW class, NEW wrapper, IsWrapperOf(wrapper, e, class)
  PROVE  /\ EndsAsWrapper(wrapper.id) /\ Marked(wrapper.id) /\ wrapper.id[1] # "snap"
         /\ IsSeq(wrapper.exec) /\ wrapper.exec # <<>> /\ wrapper.exec[1] = <<"resguard">>
         /\ parse_snap_run_app(wrapper.exec) = parse_snap_run_app(e.exec)
         /\ is_secondary_desktop_id(e.id) => is_secondary_desktop_id(wrapper.id)
<1>1. EndsAsWrapper(wrapper.id) /\ Marked(wrapper.id) /\ wrapper.id[1] # "snap"
  BY WrapperEnds, EndIsMarked, WrapperIdBegins DEF IsWrapperOf
<1>2. IsSeq(wrapper.exec) /\ wrapper.exec # <<>> /\ wrapper.exec[1] = <<"resguard">>
  <2>1. PICK line : line = wrap_exec(e.exec, class)
    OBVIOUS
  <2>2. Follows(line, e.exec) /\ line[1] = <<"resguard">> /\ line # <<>>
    BY <2>1, RunWords
  <2> QED BY <2>1, <2>2 DEF IsWrapperOf, Follows
<1>3. parse_snap_run_app(wrapper.exec) = parse_snap_run_app(e.exec)
  BY WrapLaunchesSameSnap DEF IsWrapperOf
<1>4. is_secondary_desktop_id(e.id) => is_secondary_desktop_id(wrapper.id)
  BY SecondaryWrapper DEF IsWrapperOf
<1> QED BY <1>1, <1>2, <1>3, <1>4

\* A wrapper of a snap is found with an entry of that snap.
LEMMA FoundByItsSnap ==
  ASSUME ForeignScopes, NEW s \in Scopes, NEW wrapper, EndsAsWrapper(wrapper.id),
         wrapper.id[1] # "snap", IsSeq(wrapper.exec), wrapper.exec # <<>>,
         wrapper.exec[1] = <<"resguard">>, NEW e,
         parse_snap_run_app(wrapper.exec) # None =>
           parse_snap_run_app(e.exec) = parse_snap_run_app(wrapper.exec),
         index_entry(wrapper) \cap ScopeKeys(s.scope, s.exec) # {}
  PROVE  index_entry(e) \cap ScopeKeys(s.scope, s.exec) # {}
<1>1. PICK k : k \in index_entry(wrapper) /\ k \in ScopeKeys(s.scope, s.exec)
  OBVIOUS
<1>2. ~Marked(k)
  BY <1>1 DEF ForeignScopes
<1>3. parse_snap_run_app(wrapper.exec) # None /\ k = Key("snap", parse_snap_run_app(wrapper.exec))
  BY <1>1, <1>2, WrapperKeys
<1>4. k \in index_entry(e)
  BY <1>3, SnapIsKey
<1> QED BY <1>1, <1>4

\* A new wrapper may take from a scope the id that it was suggested, it never
\* gives it one.
LEMMA WrapperFindsNoMore ==
  ASSUME ForeignScopes, NEW entries, IsFiniteSet(entries), NEW e \in entries,
         IsSeq(e.id), e.id # None, e.id[1] # "snap", IsSeq(e.exec),
         NEW class, NEW wrapper, IsWrapperOf(wrapper, e, class), NEW s \in Scopes
  PROVE  Unique(s, entries \cup {wrapper}) \in {None, Unique(s, entries)}
<1>1. PICK more : more = entries \cup {wrapper}
  OBVIOUS
<1>2. IsFiniteSet(more)
  BY <1>1, FS_Singleton, FS_Union
<1>3. PICK id : id = Unique(s, more)
  OBVIOUS
<1> SUFFICES ASSUME id # None PROVE Unique(s, entries) = id
  BY <1>1, <1>3
<1>4. PICK old : old = IdsOf(Hits(s, entries))
  OBVIOUS
<1>5. PICK new : new = IdsOf(Hits(s, more))
  OBVIOUS
<1>6. new = {id} \/ Primary(new) = {id}
  BY <1>2, <1>3, <1>5, UniqueIs
<1>7. old \subseteq new /\ new \subseteq old \cup {wrapper.id}
  BY <1>1, <1>4, <1>5 DEF IdsOf, Hits
<1>8. new # old => e.id \in old
  <2> SUFFICES ASSUME new # old PROVE e.id \in old
    OBVIOUS
  <2>1. wrapper \in Hits(s, more)
    BY <1>1, <1>4, <1>5 DEF IdsOf, Hits
  <2>2. index_entry(e) \cap ScopeKeys(s.scope, s.exec) # {}
    <3>1. index_entry(wrapper) \cap ScopeKeys(s.scope, s.exec) # {}
      BY <2>1 DEF Hits
    <3> QED BY <3>1, FoundByItsSnap, WrapperOfFacts
  <2> QED BY <1>4, <2>2 DEF IdsOf, Hits
<1>9. is_secondary_desktop_id(e.id) => is_secondary_desktop_id(wrapper.id)
  BY WrapperOfFacts
<1>10. old = {id} \/ Primary(old) = {id}
  <2>1. CASE new = old
    BY <1>6, <2>1
  <2>2. CASE new # old /\ new = {id}
    BY <1>7, <1>8, <2>2
  <2>3. CASE new # old /\ Primary(new) = {id}
    <3>1. id \in old
      <4> SUFFICES ASSUME id \notin old PROVE FALSE
        OBVIOUS
      <4>1. id = wrapper.id /\ ~is_secondary_desktop_id(wrapper.id)
        BY <1>7, <2>3 DEF Primary
      <4>2. e.id \in Primary(new)
        BY <1>7, <1>8, <1>9, <2>3, <4>1 DEF Primary
      <4> QED BY <1>8, <2>3, <4>2
    <3> QED BY <1>7, <2>3, <3>1 DEF Primary
  <2> QED BY <1>6, <2>1, <2>2, <2>3
<1> QED BY <1>4, <1>10, UniqueIs

\* Then the plan has no item that it had not before.
LEMMA PlanShrinks ==
  ASSUME NEW mode, NEW before, NEW after,
         \A s \in Scopes : Unique(s, after) \in {None, Unique(s, before)}
  PROVE  Planned(mode, after) \subseteq Planned(mode, before)
<1> SUFFICES ASSUME NEW item \in Planned(mode, after) PROVE item \in Planned(mode, before)
  OBVIOUS
<1>1. \A entries : Planned(mode, entries) =
        {x \in build_plan_items(build_suggestions(Scopes, Rules, entries), Threshold) :
           x.kind = "wrap desktop" /\ mode # "preview" /\ ~(mode = "auto" /\ x.class = "heavy")}
  BY Zenon DEF Planned, Executed
<1>2. /\ item \in build_plan_items(build_suggestions(Scopes, Rules, after), Threshold)
      /\ item.kind = "wrap desktop" /\ mode # "preview"
      /\ ~(mode = "auto" /\ item.class = "heavy")
  BY <1>1
<1>3. PICK sg \in build_suggestions(Scopes, Rules, after) : item = PlanItem(sg, Threshold)
  BY <1>2, Zenon DEF build_plan_items
<1>4. sg.class # NoClass /\ \E s \in Scopes : sg = Suggestion(s, Rules, after)
  BY <1>3, Zenon DEF build_suggestions
<1>5. PICK s \in Scopes : sg = Suggestion(s, Rules, after)
  BY <1>4
<1>6. item.desktop_id = Unique(s, after) /\ item.desktop_id # None
  <2>1. item.desktop_id = sg.desktop_id
    BY <1>3, Zenon DEF PlanItem
  <2>2. sg.desktop_id = Unique(s, after)
    BY <1>5, Zenon DEF Suggestion, Unique
  <2> QED BY <2>1, <2>2, PlannedItems
<1>7. Unique(s, after) = Unique(s, before)
  BY <1>6
<1>8. Suggestion(s, Rules, after) = Suggestion(s, Rules, before)
  BY <1>7, Zenon DEF Suggestion, Unique
<1>9. sg \in build_suggestions(Scopes, Rules, before)
  BY <1>4, <1>5, <1>8, Zenon DEF build_suggestions
<1>10. item \in build_plan_items(build_suggestions(Scopes, Rules, before), Threshold)
  BY <1>3, <1>9, Zenon DEF build_plan_items
<1> QED BY <1>1, <1>2, <1>10, Zenon


-----------------------------------------------------------------------------
(* What suggest plans are no wrappers.                                     *)

IsRooted(id, content) ==
  /\ id[1] # "snap" /\ HasRoot(id, content)
  /\ Marked(id) => EndsAsWrapper(id)

Rooted == {f \in Fits : IsRooted(f[1], f[2])}

LEMMA RootedIs ==
  ASSUME NEW id, NEW content
  PROVE  <<id, content>> \in Rooted <=> <<id, content>> \in Fits /\ IsRooted(id, content)
<1>1. PICK f : f = <<id, content>>
  OBVIOUS
<1>2. f[1] = id /\ f[2] = content
  BY <1>1
<1>3. f \in Rooted <=> f \in Fits /\ IsRooted(f[1], f[2])
  BY Zenon DEF Rooted
<1> QED BY <1>1, <1>2, <1>3, Zenon

LEMMA TypesOfEntries ==
  ASSUME NEW e \in SystemEntries
  PROVE  IsSeq(e.id) /\ e.id # None /\ IsSeq(e.exec)
<1>1. e.id \in Seq(Words) /\ e.id # None /\ e.exec \in Seq(Text)
  BY DesktopAssumption DEF Text, Exec
<1> QED BY <1>1, SeqIsSeq

LEMMA RootedIsClosed ==
  ASSUME PlainIds, NoSnapIds, SnapsHaveEntries
  PROVE  Closed(Rooted)
<1>1. ASSUME NEW e \in SystemEntries PROVE <<e.id, Content(e.name, e.exec)>> \in Rooted
  <2>1. <<e.id, Content(e.name, e.exec)>> \in Fits
    BY FitsIsClosed DEF Closed
  <2>2. ~Marked(e.id) /\ e.id[1] # "snap"
    BY DEF PlainIds, NoSnapIds, RequestedIds, IdsOf
  <2>3. Content(e.name, e.exec).exec = e.exec
    BY DEF Content
  <2>4. HasRoot(e.id, Content(e.name, e.exec))
    BY <2>3 DEF HasRoot
  <2> QED BY <2>1, <2>2, <2>4, RootedIs DEF IsRooted
<1>2. ASSUME NEW id \in DOMAIN UserFiles PROVE <<id, UserFiles[id]>> \in Rooted
  <2>1. <<id, UserFiles[id]>> \in Fits
    BY FitsIsClosed DEF Closed
  <2>2. ~Marked(id) /\ id[1] # "snap" /\ HasRoot(id, UserFiles[id])
    BY DEF PlainIds, NoSnapIds, SnapsHaveEntries
  <2> QED BY <2>1, <2>2, RootedIs DEF IsRooted
<1>3. ASSUME NEW id, NEW content, <<id, content>> \in Rooted
      PROVE  /\ id # None /\ <<id, Torn>> \in Rooted
             /\ \A class \in Classes :
                  \A place \in {id, wrapper_desktop_id(id, class)} :
                    <<place, render_wrapper(content, class)>> \in Rooted
  <2>1. /\ <<id, content>> \in Fits /\ id[1] # "snap" /\ HasRoot(id, content)
        /\ Marked(id) => EndsAsWrapper(id)
    BY <1>3, RootedIs DEF IsRooted
  <2>2. /\ id # None /\ <<id, Torn>> \in Fits
        /\ \A class \in Classes :
             \A place \in {id, wrapper_desktop_id(id, class)} :
               <<place, render_wrapper(content, class)>> \in Fits
    <3> HIDE DEF wrapper_desktop_id, render_wrapper
    <3> QED BY <2>1, FitsIsClosed DEF Closed
  <2>3. IsSeq(id) /\ IsSeq(content.exec)
    BY <2>1, SeqIsSeq DEF Fits, TypedFiles, Text, Exec
  <2>4. <<id, Torn>> \in Rooted
    <3>1. Torn.exec = <<>>
      BY DEF Torn, Content
    <3>2. HasRoot(id, Torn)
      BY <3>1, NoExecNoSnap DEF HasRoot
    <3> QED BY <2>1, <2>2, <3>2, RootedIs DEF IsRooted
  <2>5. ASSUME NEW class \in Classes, NEW place \in {id, wrapper_desktop_id(id, class)}
        PROVE  <<place, render_wrapper(content, class)>> \in Rooted
    <3>1. render_wrapper(content, class).exec = wrap_exec(content.exec, class)
      BY DEF render_wrapper, Content
    <3>2. parse_snap_run_app(render_wrapper(content, class).exec) = parse_snap_run_app(content.exec)
      BY <2>3, <3>1, WrapLaunchesSameSnap
    <3>3. is_secondary_desktop_id(id) => is_secondary_desktop_id(place)
      BY <2>3, <2>5, SecondaryWrapper
    <3>4. Marked(place) => EndsAsWrapper(place)
      BY <2>1, <2>3, <2>5, WrapperEnds
    <3>5. place[1] # "snap"
      BY <2>1, <2>2, <2>3, <2>5, WrapperIdBegins
    <3> HIDE DEF wrapper_desktop_id, render_wrapper
    <3>6. HasRoot(place, render_wrapper(content, class))
      BY <2>1, <3>2, <3>3 DEF HasRoot
    <3> QED BY <2>2, <2>5, <3>4, <3>5, <3>6, RootedIs DEF IsRooted
  <2> QED BY <2>2, <2>4, <2>5
<1> HIDE DEF wrapper_desktop_id, render_wrapper
<1> QED BY <1>1, <1>2, <1>3 DEF Closed

\* Entries of the system and of rooted files.
RootedEntry(e) ==
  \/ e \in SystemEntries
  \/ /\ <<e.id, [name |-> e.name, exec |-> e.exec]>> \in Rooted
     /\ [name |-> e.name, exec |-> e.exec] # Torn

LEMMA EntriesAreRooted ==
  ASSUME GoodFiles(Rooted), NEW e \in Entries
  PROVE  RootedEntry(e)
<1>1. CASE e \in SystemEntries
  BY <1>1 DEF RootedEntry
<1>2. CASE e \notin SystemEntries
  <2>1. PICK i \in DOMAIN files :
          files[i] # Torn /\ e = DesktopEntry(i, UserDir, files[i].name, files[i].exec)
    BY <1>2 DEF Entries
  <2>2. e.id = i /\ e.name = files[i].name /\ e.exec = files[i].exec
    BY <2>1 DEF DesktopEntry
  <2>3. <<i, files[i]>> \in Rooted
    BY DEF GoodFiles
  <2>4. files[i] \in [name : Text, exec : Exec]
    BY <2>3 DEF Rooted, Fits, TypedFiles
  <2>5. files[i] = [name |-> files[i].name, exec |-> files[i].exec]
    BY <2>4
  <2> QED BY <2>1, <2>2, <2>3, <2>5 DEF RootedEntry
<1> QED BY <1>1, <1>2

LEMMA RootedEntryFacts ==
  ASSUME PlainIds, NoSnapIds, NEW e, RootedEntry(e)
  PROVE  /\ IsSeq(e.id) /\ e.id # None /\ e.id[1] # "snap" /\ IsSeq(e.exec)
         /\ Marked(e.id) =>
              /\ EndsAsWrapper(e.id) /\ e.exec # <<>> /\ e.exec[1] = <<"resguard">>
              /\ parse_snap_run_app(e.exec) # None =>
                   \E root \in SystemEntries :
                     /\ parse_snap_run_app(root.exec) = parse_snap_run_app(e.exec)
                     /\ is_secondary_desktop_id(root.id) => is_secondary_desktop_id(e.id)
<1>1. CASE e \in SystemEntries
  <2>1. ~Marked(e.id) /\ e.id[1] # "snap"
    BY <1>1 DEF PlainIds, NoSnapIds, RequestedIds, IdsOf
  <2> QED BY <1>1, <2>1, TypesOfEntries
<1>2. CASE e \notin SystemEntries
  <2>1. PICK content : content = [name |-> e.name, exec |-> e.exec]
    OBVIOUS
  <2>2. <<e.id, content>> \in Rooted /\ content # Torn /\ content.exec = e.exec
    BY <1>2, <2>1 DEF RootedEntry
  <2>3. /\ <<e.id, content>> \in TypedFiles /\ e.id[1] # "snap" /\ HasRoot(e.id, content)
        /\ Marked(e.id) => EndsAsWrapper(e.id) /\ IsWrap(content)
    BY <2>2, RootedIs DEF IsRooted, Fits
  <2>4. IsSeq(e.id) /\ e.id # None /\ IsSeq(e.exec)
    BY <2>2, <2>3, SeqIsSeq DEF TypedFiles, Text, Exec
  <2> QED BY <2>2, <2>3, <2>4 DEF IsWrap, HasRoot
<1> QED BY <1>1, <1>2

\* An entry that is suggested is no wrapper: the entry of its snap would be
\* found with it.
LEMMA PlansNoWrapper ==
  ASSUME PlainIds, NoSnapIds, ForeignScopes, NEW entries, IsFiniteSet(entries),
         SystemEntries \subseteq entries, \A e \in entries : RootedEntry(e),
         NEW mode, NEW item \in Planned(mode, entries)
  PROVE  ~Marked(item.desktop_id)
<1>1. PICK s \in Scopes : item.desktop_id = Unique(s, entries)
  BY PlannedItems DEF Unique
<1>2. PICK id : id = item.desktop_id
  OBVIOUS
<1>3. id # None /\ Unique(s, entries) = id
  BY <1>1, <1>2, PlannedItems
<1>4. PICK ids : ids = IdsOf(Hits(s, entries))
  OBVIOUS
<1>5. ids = {id} \/ Primary(ids) = {id}
  BY <1>3, <1>4, UniqueIs
<1> SUFFICES ASSUME Marked(id) PROVE FALSE
  BY <1>2
<1>6. PICK e \in entries :
        e.id = id /\ index_entry(e) \cap ScopeKeys(s.scope, s.exec) # {}
  <2>1. id \in ids
    BY <1>5 DEF Primary
  <2> QED BY <1>4, <2>1 DEF IdsOf, Hits
<1>7. /\ EndsAsWrapper(e.id) /\ e.id[1] # "snap" /\ IsSeq(e.exec) /\ e.exec # <<>>
      /\ e.exec[1] = <<"resguard">>
  BY <1>6, RootedEntryFacts
<1>8. parse_snap_run_app(e.exec) # None
  <2>1. PICK k : k \in index_entry(e) /\ k \in ScopeKeys(s.scope, s.exec)
    BY <1>6
  <2>2. ~Marked(k)
    BY <2>1 DEF ForeignScopes
  <2> QED BY <1>7, <2>1, <2>2, WrapperKeys
<1>9. PICK root \in SystemEntries :
        /\ parse_snap_run_app(root.exec) = parse_snap_run_app(e.exec)
        /\ is_secondary_desktop_id(root.id) => is_secondary_desktop_id(e.id)
  BY <1>6, <1>8, RootedEntryFacts
<1>10. index_entry(root) \cap ScopeKeys(s.scope, s.exec) # {}
  BY <1>6, <1>7, <1>9, FoundByItsSnap
<1>11. root.id \in ids
  BY <1>4, <1>9, <1>10 DEF IdsOf, Hits
<1>12. root.id # id
  BY <1>9 DEF PlainIds, RequestedIds
<1> QED BY <1>5, <1>6, <1>9, <1>11, <1>12 DEF Primary

\* The id of an entry resolves to what it resolved to before a new wrapper.
LEMMA ResolutionStays ==
  ASSUME NEW entries, NEW e, IsSeq(e.id), e.id # None, e.id[1] # "snap", IsSeq(e.exec),
         NEW class, NEW wrapper, IsWrapperOf(wrapper, e, class),
         NEW id \in IdsOf(entries), id # None, ~Marked(id)
  PROVE  resolve_desktop_id(id, entries \cup {wrapper}) = resolve_desktop_id(id, entries)
<1> DEFINE exact(S) == {x \in S : x.id = id}
<1>1. PICK more : more = entries \cup {wrapper}
  OBVIOUS
<1>2. /\ EndsAsWrapper(wrapper.id) /\ Marked(wrapper.id) /\ wrapper.id[1] # "snap"
  BY WrapperOfFacts
<1>3. snap_app_from_desktop_id(wrapper.id) # id
  BY <1>2, EndIsMarked, NoSnapPrefix, WrapperIsNoSnap
<1>4. SnapHits(id, more) = SnapHits(id, entries)
  BY <1>1, <1>3 DEF SnapHits
<1>5. exact(more) = exact(entries)
  BY <1>1, <1>2
<1>6. exact(entries) # {}
  BY DEF IdsOf
<1>7. \A S : resolve_desktop_id(id, S) =
        IF ~validate_desktop_id(id) THEN NotFound
        ELSE IF SnapHits(id, S) # {} THEN AliasAmong(SnapHits(id, S), LastDir(SnapHits(id, S)))
        ELSE IF exact(S) # {} THEN Exact(FirstDir(exact(S)))
        ELSE IF LooseHits(id, S) # {} THEN AliasAmong(LooseHits(id, S), PickHit(LooseHits(id, S)))
        ELSE resolve_alias_candidate(id, S)
  BY Zenon DEF resolve_desktop_id
<1> HIDE DEF exact
<1>8. resolve_desktop_id(id, more) = resolve_desktop_id(id, entries)
  BY <1>4, <1>5, <1>6, <1>7, Zenon
<1> QED BY <1>1, <1>8

\* There are only ever finitely many files.
LEMMA FilesAreFinite ==
  ASSUME IsFiniteSet(DOMAIN files), NEW p \in Processes, Run(p) \/ CallFails(p) \/ Kill(p)
  PROVE  IsFiniteSet(DOMAIN files')
<1>1. CASE UNCHANGED files
  BY <1>1
<1>2. CASE Cut(p) \/ Fill(p) \/ RestoreCut(p) \/ Restore(p) \/ RemoveFile(p)
  <2>1. \E new : files' \in {Put(files, job[p].target, new), Filled(job[p].target, new),
                             Without(files, job[p].target)}
    BY <1>2, Zenon DEF Cut, Fill, RestoreCut, Restore, RemoveFile
  <2>2. PICK new : files' \in {Put(files, job[p].target, new), Filled(job[p].target, new),
                               Without(files, job[p].target)}
    BY <2>1
  <2>3. DOMAIN files' \subseteq DOMAIN files \cup {job[p].target}
    BY <2>2 DEF Put, Filled, Without
  <2>4. IsFiniteSet(DOMAIN files \cup {job[p].target})
    BY FS_Singleton, FS_Union
  <2> QED BY <2>3, <2>4, FS_Subset
<1> QED BY <1>1, <1>2, StepKeepsFiles

LEMMA EntriesAreFinite ==
  ASSUME IsFiniteSet(DOMAIN files)
  PROVE  IsFiniteSet(Entries)
<1> DEFINE whole == {id \in DOMAIN files : files[id] # Torn}
           f == [id \in whole |-> DesktopEntry(id, UserDir, files[id].name, files[id].exec)]
<1>1. IsFiniteSet(whole)
  BY FS_Subset
<1>2. DOMAIN f = whole /\ Entries = SystemEntries \cup {f[id] : id \in whole}
  BY DEF Entries
<1> HIDE DEF f, whole
<1>3. IsFiniteSet({f[id] : id \in whole})
  BY <1>1, <1>2, ImageIsFinite
<1> QED BY <1>2, <1>3, DesktopAssumption, FS_Union


-----------------------------------------------------------------------------
(* suggest converges.                                                      *)

\* A wrap of this id and class would write a wrapper.
WouldWrap(id, class, entries, there) ==
  LET found == resolve_desktop_id(id, entries) IN
  /\ IsFound(found) /\ found.entry.exec # <<>>
  /\ wrapper_desktop_id(found.entry.id, class) \notin there

\* What suggest --apply had planned when p began.
Plan(p) == Planned("apply", EntriesOf(start[p].files))

\* p is at work on an item: it has found its source, and there is a file in the
\* place of the wrapper once p has begun to write it.
Settles(p) ==
  LET found == resolve_desktop_id(Current(p).id, Entries) IN
  /\ pc[p] \in {"cut", "fill", "load", "cut_mapping", "fill_mapping"} /\ job[p].queue # <<>>
  /\ IsFound(found) /\ job[p].source = found.entry /\ job[p].source \in Entries
  /\ job[p].target = wrapper_desktop_id(found.entry.id, Current(p).class)
  /\ pc[p] = "cut" <=> job[p].target \notin DOMAIN files
  /\ pc[p] = "fill" => files[job[p].target] = Torn

\* The wrappers that p has written give no scope a new suggestion, and what
\* would still be written of its plan is in its queue.
OnPlan(p) ==
  /\ \A s \in Scopes : Unique(s, Entries) \in {None, Unique(s, EntriesOf(start[p].files))}
  /\ \A item \in Plan(p) : ~Marked(item.desktop_id)
  /\ \A i \in DOMAIN job[p].queue : \E item \in Plan(p) : job[p].queue[i] = WrapOf(item)
  /\ \A item \in Plan(p) :
       WouldWrap(item.desktop_id, item.class, Entries, DOMAIN files) =>
         \E i \in DOMAIN job[p].queue : job[p].queue[i] = WrapOf(item)
  /\ pc[p] = "next" \/ Settles(p)

\* p carries out a suggest --apply, is alone, and no call has failed.
AppliesAlone(p) ==
  /\ pc[p] # "idle" /\ IsSuggest(job[p].command) /\ job[p].command.mode = "apply"
  /\ alone[p] /\ faults = 0

\* Nothing that would be planned now would be written.
Converged ==
  converged =>
    /\ Working = {}
    /\ \A item \in Planned("apply", Entries) :
         ~WouldWrap(item.desktop_id, item.class, Entries, DOMAIN files)

LEMMA WouldWrapIs ==
  ASSUME NEW c, IsPlannedWrap(c)
  PROVE  LET found == resolve_desktop_id(c.id, Entries) IN
         ( IsFound(found) /\ ~Refuses(c, found.entry, WrapTarget(c, found.entry)) )
           <=> WouldWrap(c.id, c.class, Entries, DOMAIN files)
<1>1. PICK found : found = resolve_desktop_id(c.id, Entries)
  OBVIOUS
<1>2. ~c.override /\ ~c.force /\ c.preview = {} /\ {"print", "dry-run"} # {}
  BY DEF IsPlannedWrap
<1>3. WrapTarget(c, found.entry) = wrapper_desktop_id(found.entry.id, c.class)
  BY <1>2, Zenon DEF WrapTarget
<1>4. Refuses(c, found.entry, WrapTarget(c, found.entry)) <=>
        WrapTarget(c, found.entry) \in DOMAIN files \/ found.entry.exec = <<>>
  BY <1>2, Zenon DEF Refuses
<1> QED BY <1>1, <1>3, <1>4, Zenon DEF WouldWrap

LEMMA PlannedIsWrap ==
  ASSUME NEW entries, NEW item \in Planned("apply", entries)
  PROVE  IsPlannedWrap(WrapOf(item)) /\ item.desktop_id # None
  BY PlannedItems, WrapOfIsWrap

\* A step that adds at most the wrapper of an entry brings no work back.
LEMMA NoWorkComesBack ==
  ASSUME PlainIds, NoSnapIds, ForeignScopes, GoodInv(Rooted), IsFiniteSet(DOMAIN files),
         NEW e \in Entries, NEW class, NEW wrapper, IsWrapperOf(wrapper, e, class),
         Entries' \in {Entries, Entries \cup {wrapper}}, DOMAIN files \subseteq DOMAIN files'
  PROVE  /\ \A s \in Scopes : Unique(s, Entries') \in {None, Unique(s, Entries)}
         /\ \A id, kind : /\ id \in IdsOf(Entries) /\ id # None /\ ~Marked(id)
                          /\ WouldWrap(id, kind, Entries', DOMAIN files')
                          => WouldWrap(id, kind, Entries, DOMAIN files)
         /\ \A id : id \in IdsOf(Entries) /\ id # None /\ ~Marked(id) =>
              resolve_desktop_id(id, Entries') = resolve_desktop_id(id, Entries)
<1>1. IsSeq(e.id) /\ e.id # None /\ e.id[1] # "snap" /\ IsSeq(e.exec)
  <2>1. RootedEntry(e)
    BY EntriesAreRooted DEF GoodInv
  <2> QED BY <2>1, RootedEntryFacts
<1>2. IsFiniteSet(Entries)
  BY EntriesAreFinite
<1>3. PICK now : now = Entries
  OBVIOUS
<1>4. PICK then : then = Entries'
  OBVIOUS
<1>5. then \in {now, now \cup {wrapper}} /\ IsFiniteSet(now) /\ e \in now
  BY <1>2, <1>3, <1>4
<1>6. \A s \in Scopes : Unique(s, then) \in {None, Unique(s, now)}
  BY <1>1, <1>5, WrapperFindsNoMore
<1>7. ASSUME NEW id \in IdsOf(now), id # None, ~Marked(id)
      PROVE  resolve_desktop_id(id, then) = resolve_desktop_id(id, now)
  BY <1>1, <1>5, <1>7, ResolutionStays
<1>8. ASSUME NEW id \in IdsOf(now), id # None, ~Marked(id), NEW kind,
             WouldWrap(id, kind, then, DOMAIN files')
      PROVE  WouldWrap(id, kind, now, DOMAIN files)
  BY <1>7, <1>8 DEF WouldWrap
<1> QED BY <1>3, <1>4, <1>6, <1>7, <1>8

\* The file that p cuts is no entry, and the one that it fills is the wrapper of
\* the source.
LEMMA CutAddsNoEntry ==
  ASSUME NEW target, target \notin DOMAIN files, files' = Put(files, target, Torn)
  PROVE  Entries' = Entries /\ DOMAIN files' = DOMAIN files \cup {target} /\ files'[target] = Torn
<1>1. /\ DOMAIN files' = DOMAIN files \cup {target} /\ files'[target] = Torn
      /\ \A id \in DOMAIN files : files'[id] = files[id]
  BY DEF Put
<1>2. {i \in DOMAIN files' : files'[i] # Torn} = {i \in DOMAIN files : files[i] # Torn}
  BY <1>1
<1> QED BY <1>1, <1>2 DEF Entries

LEMMA FillAddsWrapper ==
  ASSUME NEW target \in DOMAIN files, files[target] = Torn, NEW content, content # Torn,
         files' = Filled(target, content)
  PROVE  /\ Entries' = Entries \cup {DesktopEntry(target, UserDir, content.name, content.exec)}
         /\ DOMAIN files' = DOMAIN files
<1>1. /\ DOMAIN files' = DOMAIN files /\ files'[target] = content
      /\ \A id \in DOMAIN files : id # target => files'[id] = files[id]
  BY DEF Filled
<1>2. {i \in DOMAIN files' : files'[i] # Torn} = {i \in DOMAIN files : files[i] # Torn} \cup {target}
  BY <1>1
<1>3. PICK old : old = {i \in DOMAIN files : files[i] # Torn}
  OBVIOUS
<1>4. \A i \in old : i \in DOMAIN files /\ i # target
  BY <1>3
<1>5. {DesktopEntry(i, UserDir, files'[i].name, files'[i].exec) : i \in old \cup {target}} =
        {DesktopEntry(i, UserDir, files[i].name, files[i].exec) : i \in old}
        \cup {DesktopEntry(target, UserDir, content.name, content.exec)}
  BY <1>1, <1>4
<1> QED BY <1>1, <1>2, <1>3, <1>5 DEF Entries


LEMMA PlanFacts ==
  ASSUME NEW p \in Processes, Stays(p), NEW item \in Plan(p)
  PROVE  /\ item.desktop_id \in IdsOf(Entries) /\ item.desktop_id # None
         /\ IsPlannedWrap(WrapOf(item)) /\ WrapOf(item).id = item.desktop_id
         /\ WrapOf(item).class = item.class
<1>1. item.desktop_id \in IdsOf(EntriesOf(start[p].files))
  BY PlannedAreEntries DEF Plan
<1>2. EntriesOf(start[p].files) \subseteq Entries
  BY MoreFilesMoreEntries, EntriesAreOfFiles DEF Stays
<1>3. item.desktop_id \in IdsOf(Entries)
  BY <1>1, <1>2 DEF IdsOf
<1> QED BY <1>3, PlannedIsWrap, WrapOfFacts DEF Plan

\* What the item that p is at work on resolves to.
LEMMA CurrentFacts ==
  ASSUME NEW p \in Processes, Stays(p), OnPlan(p), IsSeq(job[p].queue), job[p].queue # <<>>
  PROVE  \E item \in Plan(p) :
           /\ Current(p) = WrapOf(item) /\ Current(p).id = item.desktop_id
           /\ Current(p).class = item.class /\ IsPlannedWrap(Current(p))
           /\ item.desktop_id \in IdsOf(Entries) /\ item.desktop_id # None
           /\ ~Marked(item.desktop_id)
<1>1. 1 \in DOMAIN job[p].queue /\ Current(p) = job[p].queue[1]
  BY TailIsSeq DEF Current
<1>2. PICK item \in Plan(p) : job[p].queue[1] = WrapOf(item)
  BY <1>1 DEF OnPlan
<1> QED BY <1>1, <1>2, PlanFacts DEF OnPlan

LEMMA TakesOnPlan ==
  ASSUME SafeInv, NEW p \in Processes, Stays(p), OnPlan(p), IsSeq(job[p].queue), TakesItem(p)
  PROVE  OnPlan(p)'
<1>1. PICK found : found = resolve_desktop_id(Current(p).id, Entries)
  OBVIOUS
<1>2. /\ KeepsOn(p) /\ pc[p] = "next" /\ pc'[p] = "cut" /\ files' = files
      /\ job[p].queue # <<>> /\ job'[p].queue = job[p].queue
      /\ IsFound(found) /\ ~Refuses(Current(p), found.entry, WrapTarget(Current(p), found.entry))
      /\ job'[p].source = found.entry
      /\ job'[p].target = wrapper_desktop_id(found.entry.id, Current(p).class)
  BY <1>1, Zenon DEF TakesItem
<1>3. IsPlannedWrap(Current(p))
  BY <1>2, CurrentFacts
<1>4. WouldWrap(Current(p).id, Current(p).class, Entries, DOMAIN files)
  BY <1>1, <1>2, <1>3, WouldWrapIs
<1>5. job'[p].target \notin DOMAIN files
  BY <1>1, <1>2, <1>4 DEF WouldWrap
<1>6. found.entry \in Entries
  <2>1. \E bound : AreEntries(Entries, bound)
    BY EntriesAreEntries DEF SafeInv
  <2> QED BY <1>1, <1>2, <2>1, FoundIsEntry
<1>7. Entries' = Entries /\ Current(p)' = Current(p) /\ start'[p] = start[p]
  BY <1>2 DEF Entries, Current, KeepsOn
<1>8. Settles(p)'
  BY <1>1, <1>2, <1>5, <1>6, <1>7 DEF Settles
<1> QED BY <1>2, <1>7, <1>8 DEF OnPlan, Plan

\* Every step of a write keeps the plan on, whatever entry it adds.
LEMMA WritesOnPlan ==
  ASSUME PlainIds, NoSnapIds, ForeignScopes, SafeInv, GoodInv(Rooted), IsFiniteSet(DOMAIN files),
         NEW p \in Processes, Stays(p), OnPlan(p), IsSeq(job[p].queue), WritesItem(p)
  PROVE  OnPlan(p)'
<1>1. /\ KeepsOn(p) /\ job'[p].source = job[p].source /\ job'[p].target = job[p].target
      /\ job'[p].queue = job[p].queue
  BY DEF WritesItem
<1>2. Settles(p)
  BY DEF WritesItem, OnPlan
<1>3. PICK found : found = resolve_desktop_id(Current(p).id, Entries)
  OBVIOUS
<1>4. /\ job[p].queue # <<>> /\ IsFound(found) /\ job[p].source = found.entry
      /\ job[p].source \in Entries
      /\ job[p].target = wrapper_desktop_id(found.entry.id, Current(p).class)
      /\ pc[p] = "cut" <=> job[p].target \notin DOMAIN files
      /\ pc[p] = "fill" => files[job[p].target] = Torn
  BY <1>2, <1>3 DEF Settles
<1>5. PICK wrapper :
        /\ IsWrapperOf(wrapper, job[p].source, Current(p).class)
        /\ Entries' \in {Entries, Entries \cup {wrapper}}
        /\ pc[p] = "cut" => DOMAIN files' = DOMAIN files \cup {job[p].target}
                            /\ files'[job[p].target] = Torn
        /\ pc[p] # "cut" => DOMAIN files' = DOMAIN files
  <2>1. PICK content : content = render_wrapper(job[p].source, Current(p).class)
    OBVIOUS
  <2>2. PICK wrapper :
          wrapper = DesktopEntry(job[p].target, UserDir, content.name, content.exec)
    OBVIOUS
  <2>3. content.exec = wrap_exec(job[p].source.exec, Current(p).class)
    BY <2>1 DEF render_wrapper, Content
  <2>4. IsWrapperOf(wrapper, job[p].source, Current(p).class)
    BY <1>4, <2>2, <2>3 DEF IsWrapperOf, DesktopEntry
  <2>5. CASE pc[p] = "cut"
    <3>1. files' = Put(files, job[p].target, Torn)
      BY <2>5 DEF WritesItem
    <3> QED BY <1>4, <2>4, <2>5, <3>1, CutAddsNoEntry
  <2>6. CASE pc[p] = "fill"
    <3>1. files' = Filled(job[p].target, content)
      BY <2>1, <2>6 DEF WritesItem
    <3>2. content # Torn
      <4>1. IsSeq(job[p].source.exec)
        BY <1>4, EntriesAreEntries DEF SafeInv
      <4>2. content.exec # <<>> /\ Torn.exec = <<>>
        BY <2>3, <4>1, RunWords DEF Torn, Content
      <4> QED BY <4>2
    <3> QED BY <1>4, <2>2, <2>4, <2>6, <3>1, <3>2, FillAddsWrapper
  <2>7. CASE pc[p] \notin {"cut", "fill"}
    <3>1. files' = files
      BY <2>7 DEF WritesItem
    <3>2. Entries' = Entries
      BY <3>1 DEF Entries
    <3> QED BY <2>4, <2>7, <3>1, <3>2
  <2> QED BY <2>5, <2>6, <2>7
<1>6. /\ \A s \in Scopes : Unique(s, Entries') \in {None, Unique(s, Entries)}
      /\ \A id, kind : /\ id \in IdsOf(Entries) /\ id # None /\ ~Marked(id)
                       /\ WouldWrap(id, kind, Entries', DOMAIN files')
                       => WouldWrap(id, kind, Entries, DOMAIN files)
      /\ \A id : id \in IdsOf(Entries) /\ id # None /\ ~Marked(id) =>
           resolve_desktop_id(id, Entries') = resolve_desktop_id(id, Entries)
  <2>1. DOMAIN files \subseteq DOMAIN files'
    BY <1>5
  <2> QED BY <1>4, <1>5, <2>1, NoWorkComesBack
<1>7. Current(p)' = Current(p) /\ start'[p] = start[p]
  BY <1>1 DEF Current, KeepsOn
<1>8. Settles(p)'
  <2>1. resolve_desktop_id(Current(p).id, Entries') = found
    BY <1>3, <1>4, <1>6, CurrentFacts
  <2>2. job[p].source \in Entries'
    BY <1>4, <1>5
  <2>3. \/ pc[p] = "cut" /\ pc'[p] = "fill"
        \/ pc[p] = "fill" /\ pc'[p] = "load"
        \/ pc[p] = "load" /\ pc'[p] = "cut_mapping"
        \/ pc[p] = "cut_mapping" /\ pc'[p] = "fill_mapping"
    BY DEF WritesItem
  <2>4. job[p].target \in DOMAIN files'
    BY <1>4, <1>5
  <2>5. pc'[p] = "fill" => files'[job[p].target] = Torn
    BY <1>5, <2>3
  <2> QED BY <1>1, <1>4, <1>7, <2>1, <2>2, <2>3, <2>4, <2>5 DEF Settles
<1>9. \A s \in Scopes : Unique(s, Entries') \in {None, Unique(s, EntriesOf(start[p].files))}
  BY <1>6 DEF OnPlan
<1>10. ASSUME NEW item \in Plan(p),
              WouldWrap(item.desktop_id, item.class, Entries', DOMAIN files')
       PROVE  \E i \in DOMAIN job[p].queue : job[p].queue[i] = WrapOf(item)
  <2>1. WouldWrap(item.desktop_id, item.class, Entries, DOMAIN files)
    BY <1>6, <1>10, PlanFacts DEF OnPlan
  <2> QED BY <2>1 DEF OnPlan
<1>11. Plan(p)' = Plan(p)
  BY <1>7 DEF Plan
<1>12. /\ \A item \in Plan(p) : ~Marked(item.desktop_id)
       /\ \A i \in DOMAIN job[p].queue : \E item \in Plan(p) : job[p].queue[i] = WrapOf(item)
  BY DEF OnPlan
<1> QED BY <1>1, <1>7, <1>8, <1>9, <1>10, <1>11, <1>12 DEF OnPlan

\* Through with an item, p would not write it again.
LEMMA EndsOnPlan ==
  ASSUME SafeInv, NEW p \in Processes, Stays(p), OnPlan(p), IsSeq(job[p].queue), EndsItem(p),
         faults = 0, faults' = 0
  PROVE  OnPlan(p)'
<1>1. /\ KeepsOn(p) /\ pc'[p] = "next" /\ job'[p].queue = Tail(job[p].queue)
      /\ files' = files /\ job[p].queue # <<>>
  BY DEF EndsItem
<1>2. Entries' = Entries /\ start'[p] = start[p] /\ Plan(p)' = Plan(p)
  BY <1>1 DEF Entries, KeepsOn, Plan
<1>3. PICK found : found = resolve_desktop_id(Current(p).id, Entries)
  OBVIOUS
<1>4. IsPlannedWrap(Current(p))
  BY <1>1, CurrentFacts
<1>5. ~WouldWrap(Current(p).id, Current(p).class, Entries, DOMAIN files)
  <2>1. CASE pc[p] = "next"
    <3>1. ~IsFound(found) \/ Refuses(Current(p), found.entry, WrapTarget(Current(p), found.entry))
      BY <1>3, <2>1 DEF EndsItem
    <3> QED BY <1>3, <1>4, <3>1, WouldWrapIs
  <2>2. CASE pc[p] # "next"
    <3>1. pc[p] # "cut" /\ Settles(p)
      BY <2>2 DEF EndsItem, OnPlan
    <3>2. wrapper_desktop_id(found.entry.id, Current(p).class) \in DOMAIN files
      BY <1>3, <3>1 DEF Settles
    <3> QED BY <1>3, <3>2 DEF WouldWrap
  <2> QED BY <2>1, <2>2
<1>6. /\ 1 \in DOMAIN job[p].queue /\ Current(p) = job[p].queue[1]
      /\ \A i \in DOMAIN Tail(job[p].queue) :
           i + 1 \in DOMAIN job[p].queue /\ Tail(job[p].queue)[i] = job[p].queue[i + 1]
      /\ \A i \in DOMAIN job[p].queue :
           i # 1 => i - 1 \in DOMAIN Tail(job[p].queue) /\ Tail(job[p].queue)[i - 1] = job[p].queue[i]
  BY <1>1, TailIsSeq DEF Current
<1>7. ASSUME NEW i \in DOMAIN Tail(job[p].queue)
      PROVE  \E item \in Plan(p) : Tail(job[p].queue)[i] = WrapOf(item)
  BY <1>6 DEF OnPlan
<1>8. ASSUME NEW item \in Plan(p),
             WouldWrap(item.desktop_id, item.class, Entries, DOMAIN files)
      PROVE  \E i \in DOMAIN Tail(job[p].queue) : Tail(job[p].queue)[i] = WrapOf(item)
  <2>1. PICK i \in DOMAIN job[p].queue : job[p].queue[i] = WrapOf(item)
    BY <1>8 DEF OnPlan
  <2>2. i # 1
    BY <1>5, <1>6, <1>8, <2>1, PlanFacts
  <2> QED BY <1>6, <2>1, <2>2
<1> QED BY <1>1, <1>2, <1>7, <1>8 DEF OnPlan


LEMMA BeginOnPlan ==
  ASSUME PlainIds, NoSnapIds, ForeignScopes, SafeInv, AloneInv, GoodInv(Rooted),
         IsFiniteSet(DOMAIN files),
         NEW p \in Processes, Begin(p), IsSuggest(job'[p].command),
         job'[p].command.mode = "apply"
  PROVE  OnPlan(p)'
<1>1. pc'[p] = "next" /\ files' = files /\ start'[p].files = files
  BY BeginFacts
<1>2. IsQueueOf(job'[p].queue, Planned("apply", Entries))
  BY BeginJob DEF SafeInv
<1>3. Entries' = Entries /\ EntriesOf(start'[p].files) = Entries
  BY <1>1, EntriesAreOfFiles DEF Entries
<1>4. Plan(p)' = Planned("apply", Entries)
  BY <1>3 DEF Plan
<1>5. \A item \in Planned("apply", Entries) : ~Marked(item.desktop_id)
  <2>1. \A e \in Entries : RootedEntry(e)
    BY EntriesAreRooted DEF GoodInv
  <2>2. IsFiniteSet(Entries) /\ SystemEntries \subseteq Entries
    BY EntriesAreFinite DEF Entries
  <2> QED BY <2>1, <2>2, PlansNoWrapper
<1> QED BY <1>1, <1>2, <1>3, <1>4, <1>5 DEF OnPlan, IsQueueOf

LEMMA StepOnPlan ==
  ASSUME PlainIds, NoSnapIds, ForeignScopes, SafeInv, GoodInv(Rooted), IsFiniteSet(DOMAIN files),
         faults \in Nat, NEW p \in Processes, FoundInv(p), AloneInv,
         pc[p] # "idle", IsSuggest(job[p].command), Run(p) \/ CallFails(p) \/ Kill(p),
         AppliesAlone(p) => OnPlan(p), AppliesAlone(p)'
  PROVE  OnPlan(p)'
<1>1. CASE Exits(p)
  BY <1>1 DEF Exits, AppliesAlone
<1>2. CASE TakesItem(p) \/ WritesItem(p) \/ EndsItem(p)
  <2>1. KeepsOn(p) /\ alone' = alone /\ job'[p].command = job[p].command
    BY <1>2 DEF TakesItem, WritesItem, EndsItem, KeepsOn
  <2>2. faults' \in {faults, faults + 1}
    BY <1>2 DEF TakesItem, WritesItem, EndsItem
  <2>3. faults = 0 /\ faults' = 0
    BY <2>2 DEF AppliesAlone
  <2>4. alone[p] /\ OnPlan(p)
    BY <2>1, <2>3 DEF AppliesAlone
  <2>5. Stays(p)
    BY <2>4 DEF FoundInv
  <2>6. IsSeq(job[p].queue)
    BY DEF GoodInv, GoodJob
  <2> QED BY <1>2, <2>3, <2>4, <2>5, <2>6, TakesOnPlan, WritesOnPlan, EndsOnPlan
<1> QED BY <1>1, <1>2, SuggestSteps

\* Only the exit of a suggest sets converged.
LEMMA ConvergedOrigin ==
  ASSUME Shapes, NEW p \in Processes, Run(p) \/ CallFails(p) \/ Kill(p), converged'
  PROVE  \/ converged /\ pc[p] # "idle"
         \/ /\ SuggestDone(p) /\ pc[p] = "next" /\ job[p].queue = <<>> /\ alone[p] /\ faults = 0
            /\ job[p].command.mode = "apply" /\ files' = files /\ pc'[p] = "idle"
<1>1. ~Begin(p)
  BY Zenon DEF Begin, Begins
<1>2. CASE SuggestDone(p)
  <2>1. /\ pc[p] = "next" /\ job[p].queue = <<>>
        /\ converged' = (alone[p] /\ faults = 0 /\ job[p].command.mode = "apply")
        /\ files' = files /\ Goto(p, "idle")
    BY <1>2, Zenon DEF SuggestDone, shared
  <2>2. alone[p] /\ faults = 0 /\ job[p].command.mode = "apply"
    BY <2>1, Zenon
  <2>3. pc'[p] = "idle"
    BY <2>1, GotoFacts
  <2> QED BY <1>2, <2>1, <2>2, <2>3, Zenon
<1>3. ASSUME ~SuggestDone(p) PROVE converged' = converged /\ pc[p] # "idle"
  <2>1. \/ Ends(p, TRUE) \/ Ends(p, FALSE) \/ Continues \/ Succeeds(p) \/ Fails(p)
        \/ FillMapping(p)
    <3>1. ResolveWrap(p) => Ends(p, TRUE) \/ Ends(p, FALSE) \/ Continues
      BY Zenon DEF ResolveWrap, WrapTakes
    <3>2. NothingToCopy(p) \/ LoadForWrap(p) \/ LoadForUnwrap(p) => Ends(p, FALSE) \/ Continues
      BY Zenon DEF NothingToCopy, LoadForWrap, LoadForUnwrap
    <3>3. BackUp(p) \/ Copy(p) \/ Cut(p) \/ Fill(p) \/ RestoreCut(p) \/ Restore(p) \/ RemoveFile(p)
          \/ CutMapping(p) => Continues
      BY Zenon DEF BackUp, Copy, Cut, Fill, RestoreCut, Restore, RemoveFile, CutMapping
    <3>4. CallFails(p) \/ Kill(p) => Ends(p, FALSE) \/ Fails(p)
      BY Zenon DEF CallFails, Kill
    <3> QED BY <1>1, <1>3, <3>1, <3>2, <3>3, <3>4, Zenon DEF Run
  <2>2. ASSUME NEW ok, Ends(p, ok) PROVE converged' = converged
    <3>1. Continues \/ Succeeds(p) \/ Fails(p)
      BY <2>2, Zenon DEF Ends
    <3> QED BY <3>1, Zenon DEF Continues, ghosts, Succeeds, Fails
  <2>3. FillMapping(p) => \E ok : Ends(p, ok)
    BY Zenon DEF FillMapping
  <2>4. Continues \/ Succeeds(p) \/ Fails(p) => converged' = converged
    BY Zenon DEF Continues, ghosts, Succeeds, Fails
  <2>5. pc[p] # "idle"
    <3>1. "idle" \notin Writing
      BY DEF Writing
    <3>2. \/ pc[p] \in Writing
          \/ pc[p] \in {"next", "back_up", "copy", "cut", "fill", "load", "undo", "restore",
                        "cut_mapping", "fill_mapping"}
      <4>1. CallFails(p) \/ Kill(p) => pc[p] \in Writing
        BY Zenon DEF CallFails, Kill
      <4>2. Run(p) => \/ pc[p] = "next" \/ pc[p] = "back_up" \/ pc[p] = "copy"
                      \/ pc[p] = "cut" \/ pc[p] = "fill" \/ pc[p] = "load" \/ pc[p] = "undo"
                      \/ pc[p] = "restore" \/ pc[p] = "cut_mapping" \/ pc[p] = "fill_mapping"
        BY <1>1, <1>3, Zenon DEF Run, ResolveWrap, BackUp, Copy, NothingToCopy, Cut, Fill,
           LoadForWrap, LoadForUnwrap, RestoreCut, Restore, RemoveFile, CutMapping, FillMapping
      <4> QED BY <4>1, <4>2
    <3> QED BY <3>1, <3>2
  <2> QED BY <2>1, <2>2, <2>3, <2>4, <2>5, Zenon
<1> QED BY <1>1, <1>2, <1>3


\* What the processes at work hold of their plans, and what the last one left.
OnPlans == \A p \in Processes : AppliesAlone(p) => OnPlan(p)

LEMMA OnPlansNext ==
  ASSUME PlainFiles, PlainIds, NoSnapIds, ForeignScopes, SafeInv, AloneInv, GoodInv(Rooted),
         \A p \in Processes : FoundInv(p), IsFiniteSet(DOMAIN files), faults \in Nat, OnPlans,
         NEW p \in Processes, Run(p) \/ CallFails(p) \/ Kill(p)
  PROVE  OnPlans'
<1>1. OthersStay(p)
  BY StepAdvances DEF Advances
<1>2. Begin(p) \/ Proceeds(p)
  BY ResolveWrapProceeds, WritesProceed, RecordsProceed, UnwrapsProceed, ExitsProceed DEF Run
<1>3. ASSUME NEW q \in Processes \ {p} PROVE ~AppliesAlone(q)'
  BY <1>1, <1>2, OnlyMoverIsAlone DEF AppliesAlone
<1>4. ASSUME AppliesAlone(p)' PROVE OnPlan(p)'
  <2>1. pc'[p] # "idle" /\ IsSuggest(job'[p].command) /\ job'[p].command.mode = "apply"
    BY <1>4 DEF AppliesAlone
  <2>2. CASE Begin(p)
    BY <2>1, <2>2, BeginOnPlan
  <2>3. CASE Proceeds(p)
    <3>1. pc[p] # "idle" /\ IsSuggest(job[p].command)
      BY <2>1, <2>3 DEF Proceeds
    <3>2. AppliesAlone(p) => OnPlan(p)
      BY DEF OnPlans
    <3> QED BY <1>4, <3>1, <3>2, StepOnPlan
  <2> QED BY <1>2, <2>2, <2>3
<1> QED BY <1>3, <1>4 DEF OnPlans

LEMMA ConvergedNext ==
  ASSUME SafeInv, AloneInv, OnPlans, Converged, NEW p \in Processes,
         Run(p) \/ CallFails(p) \/ Kill(p), OthersStay(p)
  PROVE  Converged'
<1> SUFFICES ASSUME converged' PROVE Converged'
  BY DEF Converged
<1>1. ~(converged /\ pc[p] # "idle")
  BY DEF Converged, Working
<1>2. /\ pc[p] = "next" /\ job[p].queue = <<>> /\ alone[p] /\ faults = 0
      /\ job[p].command.mode = "apply" /\ files' = files /\ pc'[p] = "idle"
  BY <1>1, ConvergedOrigin DEF SafeInv
<1>3. IsSuggest(job[p].command)
  <2>1. Started(p)
    BY DEF SafeInv, WorksSafely
  <2> QED BY <1>2, <2>1 DEF Started
<1>4. OnPlan(p)
  BY <1>2, <1>3 DEF AppliesAlone, OnPlans
<1>5. Entries' = Entries
  BY <1>2 DEF Entries
<1>6. Working' = {}
  <2>1. \A q \in Processes \ {p} : pc[q] = "idle"
    BY <1>2 DEF AloneInv, IsAlone
  <2> QED BY <1>2, <2>1 DEF OthersStay, Working
<1>7. Planned("apply", Entries) \subseteq Plan(p)
  BY <1>4, PlanShrinks DEF OnPlan, Plan
<1>8. ASSUME NEW item \in Planned("apply", Entries),
             WouldWrap(item.desktop_id, item.class, Entries, DOMAIN files)
      PROVE  FALSE
  <2>1. DOMAIN job[p].queue = {}
    BY <1>2
  <2> QED BY <1>4, <1>7, <1>8, <2>1 DEF OnPlan
<1> QED BY <1>2, <1>5, <1>6, <1>8 DEF Converged

\* Once a suggest --apply that was alone and had no fault is over, another one
\* would write no wrapper, although the wrappers are entries themselves: none of
\* them gives a running scope a suggestion that it did not have, and what was
\* planned was written or is refused now as it was then.  No scope that suggest
\* observes is one of resguard's own, the snaps that the user's files start have
\* entries in the system, and no id begins with snap.
THEOREM SuggestConvergesHolds ==
  ASSUME PlainFiles, PlainIds, NoSnapIds, ForeignScopes, SnapsHaveEntries
  PROVE  Spec => []SuggestConverges
<1> DEFINE Inv == /\ SafeInv /\ AloneInv /\ GoodInv(Rooted) /\ \A p \in Processes : FoundInv(p)
           Small == IsFiniteSet(DOMAIN files) /\ faults \in Nat
<1>1. Init => Inv /\ Small /\ OnPlans /\ Converged
  <2> SUFFICES ASSUME Init PROVE Inv /\ Small /\ OnPlans /\ Converged
    OBVIOUS
  <2>1. SafeInv /\ AloneInv /\ GoodInv(Rooted)
    BY SafeInit, AloneInit, GoodInit, RootedIsClosed
  <2>2. \A p \in Processes : pc[p] = "idle"
    BY DEF Init
  <2>3. files = UserFiles /\ faults = 0 /\ ~converged
    BY Zenon DEF Init
  <2> QED BY <2>1, <2>2, <2>3, DesktopAssumption DEF FoundInv, OnPlans, AppliesAlone, Converged
<1>2. Inv /\ Small /\ OnPlans /\ Converged /\ [Next]_vars
      => Inv' /\ Small' /\ OnPlans' /\ Converged'
  <2> SUFFICES ASSUME Inv, Small, OnPlans, Converged, [Next]_vars
               PROVE  Inv' /\ Small' /\ OnPlans' /\ Converged'
    OBVIOUS
  <2>1. Inv'
    BY SafeNext, AloneNext, GoodNext, RootedIsClosed, FoundNext
  <2>2. faults' \in Nat
    BY FaultsAreCounted
  <2>3. ASSUME NEW p \in Processes, Run(p) \/ CallFails(p) \/ Kill(p)
        PROVE  IsFiniteSet(DOMAIN files') /\ OnPlans' /\ Converged'
    <3>1. OthersStay(p)
      BY <2>3, StepAdvances DEF Advances
    <3> QED BY <2>3, <3>1, FilesAreFinite, OnPlansNext, ConvergedNext
  <2>4. CASE UNCHANGED vars
    <3>1. UNCHANGED <<files, pc, job, faults, start, alone, converged>>
      BY <2>4 DEF vars, shared, counts, ghosts
    <3>2. Entries' = Entries /\ Working' = Working
      BY <3>1 DEF Entries, Working
    <3>3. \A p \in Processes : Current(p)' = Current(p) /\ Plan(p)' = Plan(p)
      BY <3>1 DEF Current, Plan
    <3> QED BY <2>2, <2>1, <3>1, <3>2, <3>3
        DEF OnPlans, AppliesAlone, OnPlan, Settles, Converged
  <2> QED BY <2>1, <2>2, <2>3, <2>4 DEF Next
<1>3. Converged => SuggestConverges
  <2> SUFFICES ASSUME Converged, converged,
                      NEW i \in DOMAIN suggest(Scopes, Rules, Threshold, "apply", Entries)
               PROVE  ~WouldWrite(suggest(Scopes, Rules, Threshold, "apply", Entries)[i])
    BY Zenon DEF SuggestConverges
  <2>1. PICK plan : plan = suggest(Scopes, Rules, Threshold, "apply", Entries)
    OBVIOUS
  <2>2. PICK items : items = Planned("apply", Entries)
    OBVIOUS
  <2>3. IsOrder(items, plan)
    <3>1. IsFiniteSet(items) /\ HaveSizes(items)
      BY <2>2, PlannedItems
    <3>2. plan = LargestFirst(items)
      BY <2>1, <2>2 DEF suggest, Planned
    <3> QED BY <3>1, <3>2, LargestFirstIsOrder
  <2>4. PICK item : item = plan[i]
    OBVIOUS
  <2>5. item \in items
    BY <2>1, <2>3, <2>4 DEF IsOrder
  <2>6. ~WouldWrap(item.desktop_id, item.class, Entries, DOMAIN files)
    BY <2>2, <2>5 DEF Converged
  <2>7. PICK c : c = WrapOf(item)
    OBVIOUS
  <2>8. IsPlannedWrap(c) /\ c.id = item.desktop_id /\ c.class = item.class
    BY <2>2, <2>5, <2>7, PlannedIsWrap, WrapOfFacts
  <2>9. LET found == resolve_desktop_id(item.desktop_id, Entries) IN
        ~(IsFound(found) /\ ~Refuses(c, found.entry, WrapTarget(c, found.entry)))
    BY <2>6, <2>8, WouldWrapIs
  <2> QED BY <2>1, <2>4, <2>7, <2>9, Zenon DEF WouldWrite
<1> QED BY <1>1, <1>2, <1>3, PTL DEF Spec
=============================================================================
