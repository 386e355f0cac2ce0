------------------------------ MODULE Discovery -----------------------------
(***************************************************************************)
(* How resguard finds desktop entries: the resolution of a desktop id and  *)
(* the index from the programs of running scopes to desktop ids.  Pure     *)
(* operators over a set of entries.                                        *)
(*                                                                         *)
(* A text is a sequence of words, where the separators . _ - : are words   *)
(* of their own: firefox_firefox is <<"firefox", "_", "firefox">>.  Texts  *)
(* are in lower case.  A desktop id is written without its ending          *)
(* .desktop, an Exec line is the sequence of its tokens without quotes and *)
(* directories, and None, the empty text, is the absent one.               *)
(***************************************************************************)
EXTENDS Integers, Sequences, FiniteSets, SequencesExt

None == <<>>

\* A file name.desktop of a scanned directory; directories are numbered in
\* the order of their paths and the first ones are the user's.
UserDir  == 0
UserDirs == {0, 1}
DesktopEntry(id, dir, name, exec) == [id |-> id, dir |-> dir, name |-> name, exec |-> exec]
InUserDir(entry) == entry.dir \in UserDirs

-----------------------------------------------------------------------------
(* Cutting texts: split_once, strip_prefix, strip_suffix, contains.        *)

At(text, word)     == SelectInSeq(text, LAMBDA w : w = word)
LastAt(text, word) == SelectLastInSeq(text, LAMBDA w : w = word)

Before(text, word) ==
  IF At(text, word) = 0 THEN text ELSE SubSeq(text, 1, At(text, word) - 1)
After(text, word) ==
  IF At(text, word) = 0 THEN None ELSE SubSeq(text, At(text, word) + 1, Len(text))
AfterLast(text, word) == SubSeq(text, LastAt(text, word) + 1, Len(text))

WithoutPrefix(start, text) ==
  IF IsPrefix(start, text) THEN SubSeq(text, Len(start) + 1, Len(text)) ELSE text
WithoutSuffix(end, text) ==
  IF IsSuffix(end, text) THEN SubSeq(text, 1, Len(text) - Len(end)) ELSE text
Occurs(part, text) ==
  \E i \in 0..(Len(text) - Len(part)) : SubSeq(text, i + 1, i + Len(part)) = part

-----------------------------------------------------------------------------
(* Exec lines.                                                             *)

IsOption(token)     == Head(token) = "-"
IsAssignment(token) == Contains(token, "=") /\ Head(token) \notin {"-", "=", "_"}
\* The places of the tokens that count.
Cleaned(exec) == {i \in DOMAIN exec : exec[i] # <<"env">> /\ ~IsAssignment(exec[i])}

Least(S) == CHOOSE i \in S : \A j \in S : i <= j
FirstOf(exec, places) == IF places = {} THEN None ELSE exec[Least(places)]
parse_first_exec_token(exec) == FirstOf(exec, Cleaned(exec))

\* The places after the first "launcher run" of a line; a pair at the end of
\* the line is not seen.
Later(exec, i) == {j \in Cleaned(exec) : j > i}
AfterRun(exec, launcher) ==
  LET next(i) == Least(Later(exec, i))
      runs    == { i \in Cleaned(exec) :
                     /\ exec[i] = <<launcher>> /\ Later(exec, i) # {}
                     /\ exec[next(i)] = <<"run">> /\ Later(exec, next(i)) # {} }
  IN  IF runs = {} THEN {} ELSE Later(exec, next(Least(runs)))

parse_snap_run_app(exec) ==
  FirstOf(exec, {i \in AfterRun(exec, "snap") : ~IsOption(exec[i])})
parse_flatpak_run_app(exec) ==
  FirstOf(exec, { i \in AfterRun(exec, "flatpak") :
    ~IsOption(exec[i]) /\ Head(exec[i]) # "@@" /\ Contains(exec[i], ".") })

-----------------------------------------------------------------------------
(* Names of snaps and flatpaks in desktop ids and scopes.                  *)

SecondPart(text) == Before(After(text, "."), ".")

snap_app_from_desktop_id(id) ==
  IF After(id, "_") # None THEN After(id, "_")
  ELSE IF IsPrefix(<<"snap", ".">>, id)
       THEN SecondPart(WithoutPrefix(<<"snap", ".">>, id))
       ELSE None

flatpak_app_id_from_desktop_id(id) == IF Contains(id, ".") THEN id ELSE None
flatpak_app_name(app_id) == AfterLast(app_id, ".")

ScopeName(scope) ==
  WithoutPrefix(<<"app", "-">>, WithoutSuffix(<<".", "scope">>, scope))

parse_snap_app_from_scope(scope) ==
  IF IsPrefix(<<"snap", ".">>, ScopeName(scope))
  THEN Before(SecondPart(WithoutPrefix(<<"snap", ".">>, ScopeName(scope))), "-")
  ELSE None

parse_flatpak_app_from_scope(scope) ==
  LET app == Before(WithoutPrefix(<<"flatpak", "-">>, ScopeName(scope)), "-")
  IN  IF IsPrefix(<<"flatpak", "-">>, ScopeName(scope)) /\ Contains(app, ".")
      THEN app ELSE None

-----------------------------------------------------------------------------
(* From a requested id to an entry.                                        *)

\* The empty id and two dots in a row are refused.
validate_desktop_id(id) == id # None /\ ~Occurs(<<".", ".">>, id \o <<".">>)

Exact(entry)      == [kind |-> "exact", ids |-> {entry.id}, entry |-> entry]
Alias(entry)      == [kind |-> "alias", ids |-> {entry.id}, entry |-> entry]
Ambiguous(ids)    == [kind |-> "ambiguous", ids |-> ids]
NotFound          == [kind |-> "not_found", ids |-> {}]
IsFound(result)   == result.kind \in {"exact", "alias"}

FirstDir(S) == CHOOSE e \in S : \A f \in S : e.dir <= f.dir
LastDir(S)  == CHOOSE e \in S : \A f \in S : e.dir >= f.dir
IdsOf(S)    == {e.id : e \in S}

\* The only id among the hits is an alias, several are ambiguous.
AliasAmong(hits, picked) ==
  IF Cardinality(IdsOf(hits)) = 1 THEN Alias(picked) ELSE Ambiguous(IdsOf(hits))

\* Of the hits with one id the user's is kept, else the last one.
PickHit(hits) ==
  IF \E e \in hits : InUserDir(e) THEN FirstDir(hits) ELSE LastDir(hits)

SnapHits(id, entries) == {e \in entries : snap_app_from_desktop_id(e.id) = id}

LooseHits(id, entries) ==
  { e \in entries :
      \/ IsSuffix(<<"_">> \o id, e.id)
      \/ IsPrefix(<<"snap", ".">> \o id \o <<".">>, e.id)
      \/ parse_first_exec_token(e.exec) = id
      \/ e.name = id
      \/ Contains(e.id, ".") /\ flatpak_app_name(e.id) = id }

resolve_alias_candidate(id, entries) ==
  LET matches == {e \in entries : Occurs(id, e.id)}
  IN  IF Cardinality(matches) = 1 THEN Alias(FirstDir(matches)) ELSE NotFound

\* Mutant: the first entry whose id contains the requested one is taken.
resolve_by_part(id, entries) ==
  LET matches == {e \in entries : Occurs(id, e.id)} IN
  IF ~validate_desktop_id(id) \/ matches = {} THEN NotFound ELSE Alias(FirstDir(matches))

\* The snap application of that name comes before the exact id.
resolve_desktop_id(id, entries) ==
  LET snaps == SnapHits(id, entries)
      exact == {e \in entries : e.id = id}
      loose == LooseHits(id, entries)
  IN  IF ~validate_desktop_id(id) THEN NotFound
      ELSE IF snaps # {} THEN AliasAmong(snaps, LastDir(snaps))
      ELSE IF exact # {} THEN Exact(FirstDir(exact))
      ELSE IF loose # {} THEN AliasAmong(loose, PickHit(loose))
      ELSE resolve_alias_candidate(id, entries)

-----------------------------------------------------------------------------
(* From a running scope to an entry.                                       *)

normalize_exec_token(token) ==
  WithoutSuffix(<<"64">>, WithoutSuffix(<<".", "sh">>, token))

Chrome == <<"google", "-", "chrome">>
known_aliases(token) ==
  LET t == normalize_exec_token(token) IN
  {t} \cup
  (IF t \in {Chrome \o <<"-", "stable">>, Chrome, <<"chrome">>} THEN {<<"chromium">>}
   ELSE IF t = <<"chromium", "-", "browser">> THEN {<<"chromium">>, <<"chrome">>}
   ELSE IF t = <<"vscodium">> THEN {<<"codium">>}
   ELSE {})

Key(store, app)  == <<store, ":">> \o app
Present(texts)   == texts \ {None}

\* The keys under which an entry is indexed.
index_entry(e) ==
  LET bin == parse_first_exec_token(e.exec)
      snap == Present({parse_snap_run_app(e.exec), snap_app_from_desktop_id(e.id)})
      flatpak == flatpak_app_id_from_desktop_id(e.id)
  IN  Present( (IF bin = None THEN {} ELSE known_aliases(bin))
               \cup {Key("snap", app) : app \in snap}
               \cup IF flatpak = None THEN {}
                    ELSE {Key("flatpak", flatpak), flatpak_app_name(flatpak)} )

\* The keys under which a scope is looked for.
ScopeKeys(scope, exec) ==
  LET bin == parse_first_exec_token(exec)
      snap == Present({parse_snap_run_app(exec), parse_snap_app_from_scope(scope)})
      flatpak == Present({parse_flatpak_run_app(exec), parse_flatpak_app_from_scope(scope)})
  IN  (IF bin = None THEN {} ELSE known_aliases(bin))
      \cup UNION {{Key("snap", app)} \cup known_aliases(app) : app \in snap}
      \cup UNION {{Key("flatpak", app)} \cup known_aliases(flatpak_app_name(app)) : app \in flatpak}

is_secondary_desktop_id(id) ==
  \/ Occurs(<<"url", "-", "handler">>, id)
  \/ Occurs(<<"x", "-", "scheme", "-", "handler">>, id)

TheOnly(ids) == CHOOSE id \in ids : TRUE

resolve_unique_or_preferred(matches) ==
  LET primary == {id \in matches : ~is_secondary_desktop_id(id)} IN
  IF Cardinality(matches) = 1 THEN TheOnly(matches)
  ELSE IF Cardinality(primary) = 1 THEN TheOnly(primary)
  ELSE None

unique_desktop_id_for_scope_exec(scope, exec, entries) ==
  LET keys == ScopeKeys(scope, exec) IN
  resolve_unique_or_preferred(
    IdsOf({e \in entries : index_entry(e) \cap keys # {}}))

\* What the score knows of the application in a scope.
parse_scope_identity(scope, exec) ==
  LET app == IF parse_flatpak_run_app(exec) # None THEN parse_flatpak_run_app(exec)
             ELSE parse_flatpak_app_from_scope(scope)
      snap == parse_snap_app_from_scope(scope)
  IN  [ executable |-> IF app # None THEN flatpak_app_name(app)
                       ELSE parse_first_exec_token(exec),
        snap_app |-> IF snap # None THEN snap ELSE parse_snap_run_app(exec) ]
=============================================================================
