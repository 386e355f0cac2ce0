------------------------------- MODULE Desktop ------------------------------
(***************************************************************************)
(* resguard desktop wrap, desktop unwrap and the wraps of resguard suggest *)
(* for several processes.  They share the user's applications directory,   *)
(* the backups below it and the mapping file; none of them is locked, and  *)
(* a file is written by cutting it to nothing and filling it.              *)
(*                                                                         *)
(* files maps the id of each file of the user's applications directory to  *)
(* its content, backups maps a second and an id to a content, mapping is   *)
(* the mapping file as a function of <<id, class>>, and mapping_torn says  *)
(* that it was cut and cannot be parsed.                                   *)
(***************************************************************************)
EXTENDS Suggest

CONSTANTS
  Processes,      \* the processes that run commands
  Words,          \* the words that ids, names, Exec lines and classes are made of
  SystemEntries,  \* desktop entries outside the user's applications directory
  UserFiles,      \* the files the user has there: id -> content
  Commands,       \* the commands that may be given
  Scopes,         \* the running scopes that suggest observes
  Rules,          \* the rules of the profile and the default ones
  Threshold,      \* the confidence threshold
  MaxCommands,    \* bound: commands in a behaviour
  MaxFaults       \* bound: calls that fail and processes that are killed

Text == Seq(Words)
Exec == Seq(Text)

\* What a wrapper adds to an id, a name and an Exec line, and the classes that
\* suggest gives without a rule.
OwnWords == {"resguard", "run", "class", "desktop", "-", ".", "(", ":", ")",
             "heavy", "ide", "browsers", NoClass}

ASSUME DesktopAssumption ==
  /\ OwnWords \subseteq Words
  /\ Threshold \in 0..100
  /\ SystemEntries \subseteq
       [id : Text \ {None}, dir : Nat \ {UserDir}, name : Text, exec : Exec]
  /\ IsFiniteSet(SystemEntries)
  /\ DOMAIN UserFiles \subseteq Text \ {None}
  /\ UserFiles \in [DOMAIN UserFiles -> [name : Text, exec : Exec]]
  /\ IsFiniteSet(DOMAIN UserFiles)
  /\ \A c \in Commands : c.op # "suggest" => c.id \in Text /\ c.class \in Words
  /\ IsFiniteSet(Scopes) /\ \A s \in Scopes : s.memory \in Nat
  /\ Rules \in Seq([class : Words, pattern : SUBSET Text])
  /\ {MaxCommands, MaxFaults} \subseteq Nat

VARIABLES
  files, backups, mapping, mapping_torn, clock,  \* what is shared
  clashed,                                       \* ghost: see BackUp
  pc, job,                                       \* the processes
  commands, faults,                              \* bounded counters
  start, alone, trip, converged, overlapped      \* ghosts

shared == <<files, backups, mapping, mapping_torn, clock, clashed>>
counts == <<commands, faults>>
ghosts == <<start, alone, trip, converged, overlapped>>
vars == <<shared, pc, job, counts, ghosts>>

-----------------------------------------------------------------------------
(* Contents and names.                                                     *)

Content(name, exec) == [name |-> name, exec |-> exec]
Torn == Content(None, <<>>)

wrapper_desktop_id(id, class) == id \o <<".", "desktop", ".", "resguard", "-", class>>
wrap_exec(exec, class) ==
  <<<<"resguard">>, <<"run">>, <<"-", "-", "class">>, <<class>>, <<"-", "-">>>> \o exec

\* Mutant: the wrapper keeps the name of its source.
render_alike(source, class) == Content(source.name, wrap_exec(source.exec, class))

render_wrapper(source, class) ==
  Content(source.name \o <<"(", "resguard", ":", class, ")">>, wrap_exec(source.exec, class))

\* What desktop doctor takes for a wrapper.
validate_wrapper_file(content) ==
  IsPrefix(<<<<"resguard">>, <<"run">>, <<"-", "-", "class">>>>, content.exec)
  /\ Contains(content.exec, <<"-", "-">>)

\* All entries that discovery finds; a cut file has no fields and is skipped.
Entries ==
  SystemEntries \cup
  { DesktopEntry(id, UserDir, files[id].name, files[id].exec) :
      id \in {i \in DOMAIN files : files[i] # Torn} }

\* A command is [op, id, class, override, force, preview] or [op, mode].
IsSuggest(command) == command.op = "suggest"
WrapOf(item) == [ op |-> "wrap", id |-> item.desktop_id, class |-> item.class,
                  override |-> FALSE, force |-> FALSE, preview |-> {} ]

NoEntry == DesktopEntry(None, UserDir, None, <<>>)
NoKey   == <<>>
NoJob   == [ command |-> [op |-> "none"], queue |-> <<>>, source |-> NoEntry, target |-> None,
             backup |-> NoKey, store |-> <<>>, removed |-> FALSE ]

Current(p)  == Head(job[p].queue)
Key2(p)     == <<IF Current(p).op = "wrap" THEN job[p].source.id ELSE Current(p).id,
                 Current(p).class>>
MappingEntry(target, override, backup) ==
  [target |-> target, override |-> override, backup |-> backup]

Put(f, x, value) == [y \in DOMAIN f \cup {x} |-> IF y = x THEN value ELSE f[y]]
Without(f, x) == [y \in DOMAIN f \ {x} |-> f[y]]
Working == {p \in Processes : pc[p] # "idle"}

Init ==
  /\ files = UserFiles /\ backups = <<>> /\ mapping = <<>>
  /\ mapping_torn = FALSE /\ clock = 0 /\ clashed = FALSE
  /\ pc = [p \in Processes |-> "idle"]
  /\ job = [p \in Processes |-> NoJob]
  /\ commands = 0 /\ faults = 0
  /\ start = [p \in Processes |-> [files |-> <<>>, mapping |-> <<>>]]
  /\ alone = [p \in Processes |-> TRUE]
  /\ trip = NoKey /\ converged = FALSE /\ overlapped = FALSE

Goto(p, label) == pc' = [pc EXCEPT ![p] = label]
Set(p, changed) == job' = [job EXCEPT ![p] = changed]

-----------------------------------------------------------------------------
(* The ghosts.  alone[p]: no other process was at work since p began.      *)
(* start[p]: what p found.  trip: the last command was a wrap that was     *)
(* alone and replaced nothing; it names the wrap and what it found.        *)
(* converged: the last command was a suggest that was alone and had no     *)
(* fault.  overlapped: two commands were ever at work at once.             *)

Begins(p, c) ==
  /\ start' = [start EXCEPT ![p] = [files |-> files, mapping |-> mapping]]
  /\ alone' = [q \in Processes |-> IF q = p THEN Working = {}
                                   ELSE alone[q] /\ q \notin Working]
  /\ overlapped' = (overlapped \/ Working # {})
  /\ converged' = FALSE
  /\ trip' = IF trip # NoKey /\ c.op = "unwrap" /\ Working = {}
                /\ trip.id = c.id /\ trip.class = c.class /\ trip.override = c.override
             THEN trip ELSE NoKey
Continues == UNCHANGED ghosts

\* The exit of a command that did all of its work.
RoundTrip(p) ==
  LET id == job[p].source.id c == Current(p) IN
  IF /\ ~IsSuggest(job[p].command) /\ c.op = "wrap" /\ alone[p] /\ c.preview = {}
     /\ <<id, c.class>> \notin DOMAIN start[p].mapping
     /\ c.override \/ job[p].target \notin DOMAIN start[p].files
  THEN [id |-> id, class |-> c.class, override |-> c.override,
        files |-> start[p].files, mapping |-> start[p].mapping]
  ELSE NoKey
NothingKept(p) == start' = [start EXCEPT ![p] = [files |-> <<>>, mapping |-> <<>>]]
Succeeds(p) ==
  /\ trip' = RoundTrip(p)
  /\ NothingKept(p)
  /\ UNCHANGED <<alone, converged, overlapped>>
Fails(p) ==
  /\ trip' = NoKey /\ NothingKept(p)
  /\ UNCHANGED <<alone, converged, overlapped>>
-----------------------------------------------------------------------------
(* Commands.                                                               *)

\* suggest makes its plan at once and then wraps item by item.
Begin(p) ==
  /\ pc[p] = "idle" /\ commands < MaxCommands
  /\ commands' = commands + 1
  /\ \E c \in Commands :
       /\ Set(p, [NoJob EXCEPT
            !.command = c,
            !.queue = IF IsSuggest(c)
                      THEN LET plan == suggest(Scopes, Rules, Threshold, c.mode, Entries)
                           IN  [i \in DOMAIN plan |-> WrapOf(plan[i])]
                      ELSE <<c>>])
       /\ Begins(p, c)
  /\ Goto(p, "next")
  /\ UNCHANGED <<shared, faults>>

\* A command is over: a suggest goes on with its next item, whatever became
\* of this one.
Ends(p, ok) ==
  IF IsSuggest(job[p].command)
  THEN /\ Goto(p, "next")
       /\ Set(p, [job[p] EXCEPT !.queue = Tail(@), !.backup = NoKey])
       /\ Continues
  ELSE /\ Goto(p, "idle")
       /\ Set(p, NoJob)
       /\ IF ok THEN Succeeds(p) ELSE Fails(p)

\* suggest has no item left; it exits with 0.
SuggestDone(p) ==
  /\ pc[p] = "next" /\ job[p].queue = <<>>
  /\ Goto(p, "idle") /\ Set(p, NoJob)
  /\ converged' = (alone[p] /\ faults = 0 /\ job[p].command.mode = "apply")
  /\ trip' = NoKey /\ NothingKept(p)
  /\ UNCHANGED <<shared, counts, alone, overlapped>>

\* Mutant: the file in the way is not looked for.
RefusesToOverwriteNever(c, source, target) ==
  \/ c.preview = {"print", "dry-run"}
  \/ c.override /\ ~c.force
  \/ source.exec = <<>>

\* The checks of desktop wrap after the source is found.
Refuses(c, source, target) ==
  \/ c.preview = {"print", "dry-run"}
  \/ c.override /\ ~c.force
  \/ target \in DOMAIN files /\ ~c.force
  \/ source.exec = <<>>

WrapTarget(c, source) ==
  IF c.override THEN source.id ELSE wrapper_desktop_id(source.id, c.class)

WrapTakes(p, source, target) ==
  /\ Set(p, [job[p] EXCEPT !.source = source, !.target = target])
  /\ Goto(p, IF Current(p).override /\ target \in DOMAIN files THEN "back_up" ELSE "cut")
  /\ Continues

\* Resolution, the checks, and the exits that write nothing.
ResolveWrap(p) ==
  /\ pc[p] = "next" /\ job[p].queue # <<>> /\ Current(p).op = "wrap"
  /\ LET c == Current(p)
         found == resolve_desktop_id(c.id, Entries)
         target == WrapTarget(c, found.entry)
     IN  IF ~IsFound(found) \/ Refuses(c, found.entry, target) THEN Ends(p, FALSE)
         ELSE IF c.preview # {} THEN Ends(p, TRUE)
         ELSE WrapTakes(p, found.entry, target)
  /\ UNCHANGED <<shared, counts>>

\* Mutant: the time is taken once for the directory and once for the mapping.
BackUpTwiceTimed(p) ==
  /\ pc[p] = "back_up" /\ job[p].target \in DOMAIN files
  /\ clock' = clock + 1 /\ UNCHANGED clashed
  /\ Set(p, [job[p] EXCEPT !.backup = <<clock + 1, job[p].target>>])
  /\ backups' = Put(backups, <<clock, job[p].target>>, Torn)
  /\ Goto(p, "copy")
  /\ UNCHANGED <<files, mapping, mapping_torn, counts>> /\ Continues

\* Mutant: the backups of all seconds are in one directory.
BackUpOnce(p) ==
  /\ pc[p] = "back_up" /\ job[p].target \in DOMAIN files
  /\ clock' = clock + 1 /\ UNCHANGED clashed
  /\ Set(p, [job[p] EXCEPT !.backup = <<0, job[p].target>>])
  /\ backups' = Put(backups, <<0, job[p].target>>, Torn)
  /\ Goto(p, "copy")
  /\ UNCHANGED <<files, mapping, mapping_torn, counts>> /\ Continues

\* create_override_backup.  The directory of the backup is named by the second,
\* which may be that of an earlier backup or of one that is still being made;
\* fs::copy opens its source and cuts its target, a backup of that second
\* included, before it fills it.  The ghost clashed remembers that a file had
\* two backups in one second.
BackUp(p) ==
  /\ pc[p] = "back_up" /\ job[p].target \in DOMAIN files
  /\ clock' \in {clock, clock + 1}
  /\ clashed' = (clashed \/ <<clock', job[p].target>> \in DOMAIN backups)
  /\ Set(p, [job[p] EXCEPT !.backup = <<clock', job[p].target>>])
  /\ backups' = Put(backups, <<clock', job[p].target>>, Torn)
  /\ Goto(p, "copy")
  /\ UNCHANGED <<files, mapping, mapping_torn, counts>> /\ Continues

Copy(p) ==
  /\ pc[p] = "copy" /\ job[p].target \in DOMAIN files
  /\ backups' = [backups EXCEPT ![job[p].backup] = files[job[p].target]]
  /\ Goto(p, "cut")
  /\ UNCHANGED <<files, mapping, mapping_torn, clock, clashed, job, counts>> /\ Continues

\* The copy fails when the file has gone in the meantime.
NothingToCopy(p) ==
  /\ pc[p] \in {"back_up", "copy"} /\ job[p].target \notin DOMAIN files
  /\ Ends(p, FALSE)
  /\ UNCHANGED <<shared, counts>>

\* What is filled into a file that was removed since it was cut is lost.
Filled(id, content) == IF id \in DOMAIN files THEN [files EXCEPT ![id] = content] ELSE files

\* fs::write of the wrapper.
Cut(p) ==
  /\ pc[p] = "cut"
  /\ files' = Put(files, job[p].target, Torn)
  /\ Goto(p, "fill")
  /\ UNCHANGED <<backups, mapping, mapping_torn, clock, clashed, job, counts>> /\ Continues

Fill(p) ==
  /\ pc[p] = "fill"
  /\ files' = Filled(job[p].target, render_wrapper(job[p].source, Current(p).class))
  /\ Goto(p, "load")
  /\ UNCHANGED <<backups, mapping, mapping_torn, clock, clashed, job, counts>> /\ Continues

\* read_desktop_mapping_store after the wrapper is written, and the change.
LoadForWrap(p) ==
  /\ pc[p] = "load"
  /\ IF mapping_torn THEN Ends(p, FALSE)
     ELSE /\ Set(p, [job[p] EXCEPT !.store = Put(mapping, Key2(p),
                 MappingEntry(job[p].target, Current(p).override, job[p].backup))])
          /\ Goto(p, "cut_mapping") /\ Continues
  /\ UNCHANGED <<shared, counts>>

\* read_desktop_mapping_store of unwrap comes first; the id is not resolved.
LoadForUnwrap(p) ==
  /\ pc[p] = "next" /\ job[p].command.op = "unwrap"
  /\ IF ~validate_desktop_id(Current(p).id) \/ mapping_torn THEN Ends(p, FALSE)
     ELSE /\ Set(p, [job[p] EXCEPT
               !.target = IF Current(p).override THEN Current(p).id
                          ELSE wrapper_desktop_id(Current(p).id, Current(p).class),
               !.store = mapping])
          /\ Goto(p, "undo") /\ Continues
  /\ UNCHANGED <<shared, counts>>

\* The backup that unwrap --override puts back, if the mapping names one that
\* is there.
BackupToRestore(p) ==
  IF Current(p).override /\ Key2(p) \in DOMAIN job[p].store
     /\ job[p].store[Key2(p)].backup \in DOMAIN backups
  THEN job[p].store[Key2(p)].backup ELSE NoKey

\* fs::copy of the backup cuts the file first.
RestoreCut(p) ==
  /\ pc[p] = "undo" /\ BackupToRestore(p) # NoKey
  /\ files' = Put(files, job[p].target, Torn)
  /\ Goto(p, "restore")
  /\ UNCHANGED <<backups, mapping, mapping_torn, clock, clashed, job, counts>> /\ Continues

Restore(p) ==
  /\ pc[p] = "restore"
  /\ files' = Filled(job[p].target, backups[BackupToRestore(p)])
  /\ Set(p, [job[p] EXCEPT !.removed = TRUE, !.store = Without(@, Key2(p))])
  /\ Goto(p, "cut_mapping")
  /\ UNCHANGED <<backups, mapping, mapping_torn, clock, clashed, counts>> /\ Continues

\* Mutant: the entry stays in the mapping.
RemoveOnlyFile(p) ==
  /\ pc[p] = "undo" /\ BackupToRestore(p) = NoKey
  /\ files' = Without(files, job[p].target)
  /\ Set(p, [job[p] EXCEPT !.removed = job[p].target \in DOMAIN files])
  /\ Goto(p, "cut_mapping")
  /\ UNCHANGED <<backups, mapping, mapping_torn, clock, clashed, counts>> /\ Continues

\* Without a backup the file is removed, with an entry or without one.
RemoveFile(p) ==
  /\ pc[p] = "undo" /\ BackupToRestore(p) = NoKey
  /\ files' = Without(files, job[p].target)
  /\ Set(p, [job[p] EXCEPT !.removed = job[p].target \in DOMAIN files,
                           !.store = Without(@, Key2(p))])
  /\ Goto(p, "cut_mapping")
  /\ UNCHANGED <<backups, mapping, mapping_torn, clock, clashed, counts>> /\ Continues

\* write_desktop_mapping_store writes the whole map that was read.
CutMapping(p) ==
  /\ pc[p] = "cut_mapping"
  /\ mapping_torn' = TRUE
  /\ Goto(p, "fill_mapping")
  /\ UNCHANGED <<files, backups, mapping, clock, clashed, job, counts>> /\ Continues

\* unwrap exits with 1 when there was no file.
FillMapping(p) ==
  /\ pc[p] = "fill_mapping"
  /\ mapping' = job[p].store /\ mapping_torn' = FALSE
  /\ Ends(p, Current(p).op = "wrap" \/ job[p].removed)
  /\ UNCHANGED <<files, backups, clock, clashed, counts>>

Writing == {"back_up", "copy", "cut", "fill", "load", "undo", "restore", "cut_mapping", "fill_mapping"}

\* A call fails; what it has cut stays cut.
CallFails(p) ==
  /\ pc[p] \in Writing /\ faults < MaxFaults
  /\ faults' = faults + 1
  /\ Ends(p, FALSE)
  /\ UNCHANGED <<shared, commands>>

Kill(p) ==
  /\ pc[p] \in Writing /\ faults < MaxFaults
  /\ faults' = faults + 1
  /\ Goto(p, "idle") /\ Set(p, NoJob) /\ Fails(p)
  /\ UNCHANGED <<shared, commands>>

-----------------------------------------------------------------------------
(* desktop doctor writes nothing.                                          *)

\* The entries of the mapping whose file is not there or is no wrapper.
broken_wrappers ==
  {k \in DOMAIN mapping : mapping[k].target \notin DOMAIN files
                          \/ ~validate_wrapper_file(files[mapping[k].target])}

\* slices: the classes that have a slice in the user manager.  An empty mapping
\* is reported before all else, a missing program included.
run_desktop_doctor_checks(in_path, slices, require_mapping) ==
  IF mapping_torn THEN [code |-> 1, has_mappings |-> FALSE]
  ELSE IF mapping = <<>>
  THEN [code |-> IF require_mapping THEN 1 ELSE 0, has_mappings |-> FALSE]
  ELSE [code |-> IF in_path /\ broken_wrappers = {} /\ {k[2] : k \in DOMAIN mapping} \subseteq slices
                 THEN 0 ELSE 1,
        has_mappings |-> TRUE]
-----------------------------------------------------------------------------
Run(p) ==
  \/ Begin(p) \/ ResolveWrap(p) \/ SuggestDone(p)
  \/ BackUp(p) \/ Copy(p) \/ NothingToCopy(p) \/ Cut(p) \/ Fill(p) \/ LoadForWrap(p)
  \/ LoadForUnwrap(p) \/ RestoreCut(p) \/ Restore(p) \/ RemoveFile(p)
  \/ CutMapping(p) \/ FillMapping(p)

Next == \E p \in Processes : Run(p) \/ CallFails(p) \/ Kill(p)
Spec == Init /\ [][Next]_vars
=============================================================================
