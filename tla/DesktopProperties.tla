-------------------------- MODULE DesktopProperties -------------------------
(***************************************************************************)
(* What desktop wrap, desktop unwrap and suggest promise.                  *)
(***************************************************************************)
EXTENDS Desktop

\* Types; a job has a backup only of its target, and whoever writes has
\* something to do.
TypeOK ==
  /\ \A id \in DOMAIN files : files[id] \in [name : Text, exec : Exec]
  /\ \A k \in DOMAIN backups : k[1] \in 0..clock
  /\ \A k \in DOMAIN mapping : mapping[k].backup = NoKey \/ mapping[k].backup \in DOMAIN backups
  /\ {mapping_torn, converged, overlapped, clashed} \subseteq BOOLEAN
  /\ pc \in [Processes -> Writing \cup {"idle", "next"}]
  /\ \A p \in Processes :
       /\ pc[p] \in Writing => job[p].queue # <<>> /\ job[p].target # None
       /\ job[p].backup # NoKey => job[p].backup[2] = job[p].target
  /\ commands \in 0..MaxCommands /\ faults \in 0..MaxFaults

\* The user's own contents that are still in place or in a backup.
Kept(content) ==
  \/ \E id \in DOMAIN files : files[id] = content
  \/ \E k \in DOMAIN backups : backups[k] = content
Own == {UserFiles[id] : id \in DOMAIN UserFiles}

\* Through wraps, failing calls, kills and other processes a file of the user
\* is in place or in a backup: only an unwrap that knows no backup of it
\* removes it, as long as no file has had two backups in one second
\* (create_override_backup before write_file).
WrapsKeepOriginals ==
  [][ \A content \in Own : ~clashed' /\ Kept(content) /\ ~Kept(content)' =>
        \E p \in Processes : /\ pc[p] = "undo" /\ pc'[p] # "undo"
                             /\ Current(p).override /\ BackupToRestore(p) = NoKey ]_vars

\* Unwrap removes only what a wrap has written: a file of the user is always
\* in place or in a backup.
UnmanagedFilesSurvive == \A content \in Own : Kept(content)

\* An unwrap that follows a wrap of the same id, class and mode brings back
\* every file and every entry of the mapping as they were before the wrap, if
\* no other command came in between and the wrap replaced nothing.
UnwrapUndoesWrap ==
  [][ \A p \in Processes :
        ( /\ pc[p] = "fill_mapping" /\ pc'[p] = "idle" /\ Current(p).op = "unwrap"
          /\ trip # NoKey /\ alone[p] /\ faults' = faults )
        => /\ files' = trip.files
           /\ mapping' = trip.mapping /\ ~mapping_torn' ]_vars

\* Without --force a command that is alone never changes a file that was there
\* when it began; suggest never forces (the check of target_path.exists).
UnforcedKeepsFiles ==
  [][ \A p \in Processes :
        pc[p] = "fill" /\ alone[p] /\ ~Current(p).force
        => job[p].target \notin DOMAIN start[p].files ]_vars

\* A wrapper is an entry for discovery as well, yet wrappers change nothing in
\* what an id resolves to, unless only a part of an id had matched (render_wrapper
\* gives them a name and a program of their own, wrapper_desktop_id an id).  Ids
\* that name an entry snap.<package>.<application> otherwise than by its own id
\* are excepted: its wrapper is taken for an application of that package too, so
\* that they become ambiguous (snap_app_from_desktop_id).
Strong(id, entries) ==
  IF \E e \in entries : e.id = id \/ e \in SnapHits(id, {e}) \cup LooseHits(id, {e})
  THEN resolve_desktop_id(id, entries).ids ELSE {}
IsWrapper(e) ==
  \E c \in Commands : ~IsSuggest(c) /\ IsSuffix(wrapper_desktop_id(None, c.class), e.id)
RequestedIds ==
  {c.id : c \in {d \in Commands : ~IsSuggest(d)}} \cup {e.id : e \in SystemEntries}
  \cup {e.name : e \in SystemEntries}
NamesSnapId(id, entries) ==
  \E e \in entries : /\ IsPrefix(<<"snap", ".">>, e.id)
                     /\ e \in SnapHits(id, {e}) \cup LooseHits(id, {e})
WrappersKeepResolution ==
  Working = {} =>
    LET plain == {e \in Entries : ~IsWrapper(e)} IN
    \A id \in RequestedIds :
      LET strong == Strong(id, plain) IN
      strong # {} /\ ~NamesSnapId(id, Entries) => Strong(id, Entries) = strong

\* suggest plans with the id that the index gives and wraps what that id
\* resolves to: another entry only if it is the snap application of that name.
\* That the entry of the plan is still there by then is certain only if no other
\* command was at work since, or if it is one of the system.
SuggestWrapsWhatItFound ==
  \A p \in Processes :
    ( /\ IsSuggest(job[p].command) /\ pc[p] \in Writing
      /\ alone[p] \/ Current(p).id \in IdsOf(SystemEntries) )
    => \/ job[p].source.id = Current(p).id
       \/ snap_app_from_desktop_id(job[p].source.id) = Current(p).id

\* suggest --apply converges: once one has run alone, there is no wrap that
\* another one would carry out, although the wrappers are entries themselves.
WouldWrite(item) ==
  LET found == resolve_desktop_id(item.desktop_id, Entries) c == WrapOf(item) IN
  IsFound(found) /\ ~Refuses(c, found.entry, WrapTarget(c, found.entry))
SuggestConverges ==
  converged =>
    \A i \in DOMAIN suggest(Scopes, Rules, Threshold, "apply", Entries) :
      ~WouldWrite(suggest(Scopes, Rules, Threshold, "apply", Entries)[i])

\* What desktop doctor says: while no call failed and no two commands were
\* ever at work at once, it has no fault to find with a wrapper, and nothing at
\* all to report once every class has its slice; only originals that were
\* overridden twice may be back in place.
MappingTellsTruth ==
  (Working = {} /\ faults = 0 /\ ~overlapped) =>
    LET overridden == {k \in DOMAIN mapping : mapping[k].override} IN
    /\ broken_wrappers \subseteq overridden
    /\ \A k \in DOMAIN mapping \ overridden :
         mapping[k].target = wrapper_desktop_id(k[1], k[2])
    /\ overridden = {} =>
         run_desktop_doctor_checks(TRUE, {k[2] : k \in DOMAIN mapping}, FALSE).code = 0


-----------------------------------------------------------------------------
(* What the theorems assume of the files, entries and scopes at first.     *)

\* The user's own files are no wrappers: none has the name or the program of
\* one, and each is a desktop entry.
PlainFiles ==
  \A id \in DOMAIN UserFiles :
    /\ Len(id) >= 3 => id[Len(id) - 2] # "resguard"
    /\ UserFiles[id] # Torn
    /\ UserFiles[id].exec # <<>> => Head(UserFiles[id].exec) # <<"resguard">>

\* A text with the word of the wrappers.
Marked(text) == \E i \in DOMAIN text : text[i] = "resguard"

\* The word of the wrappers is in no id or name that is asked for, nor in the
\* id of a file of the user.
PlainIds == \A id \in RequestedIds \cup DOMAIN UserFiles : ~Marked(id)

\* No id begins with snap: of snap.a.b the wrapper would be taken for the snap
\* application b as well.
NoSnapIds == \A id \in IdsOf(SystemEntries) \cup DOMAIN UserFiles : id[1] # "snap"

\* No scope is one of resguard's own: the word of the wrappers is in none of
\* the keys that it is looked for under.
ForeignScopes == \A s \in Scopes : \A k \in ScopeKeys(s.scope, s.exec) : ~Marked(k)

\* A file that launches a snap has an entry of that snap in the system, and a
\* secondary one only if it is secondary itself.
HasRoot(id, content) ==
  parse_snap_run_app(content.exec) # None =>
    \E e \in SystemEntries :
      /\ parse_snap_run_app(e.exec) = parse_snap_run_app(content.exec)
      /\ is_secondary_desktop_id(e.id) => is_secondary_desktop_id(id)

\* The snaps that the user's files launch have an entry in the system.
SnapsHaveEntries == \A id \in DOMAIN UserFiles : HasRoot(id, UserFiles[id])
=============================================================================
