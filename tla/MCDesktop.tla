----------------------------- MODULE MCDesktop ------------------------------
(***************************************************************************)
(* A small desktop for TLC: two snaps, a snap named snap.<package>.<app>,  *)
(* a flatpak, a program with a system entry and a file of the user, and a  *)
(* program that shares its name with a snap.                               *)
(***************************************************************************)
EXTENDS DesktopProperties

Firefox == <<"firefox", "_", "firefox">>
Code    == <<"code", "_", "code">>
Gimp    == <<"org", ".", "gimp", ".", "gimp">>
Idea    == <<"idea">>
Brave   == <<"brave">>
Pycharm == <<"snap", ".", "pycharm", ".", "ide">>

MCWords == STRING

MCSystemEntries ==
  { DesktopEntry(Firefox, 4, <<"firefox">>, <<<<"firefox">>, <<"%u">>>>),
    DesktopEntry(Code, 4, <<"visual", " ", "studio">>,
      <<<<"env">>, <<"bamf", "=", "1">>, <<"snap">>, <<"run">>, <<"code">>>>),
    DesktopEntry(Gimp, 3, <<"gimp">>,
      <<<<"flatpak">>, <<"run">>, <<"-", "-", "branch", "=", "stable">>, Gimp, <<"@@u">>>>),
    DesktopEntry(Idea, 2, <<"intellij">>, <<<<"idea", "64">>>>),
    DesktopEntry(Brave, 2, <<"web", " ", "browser">>, <<<<"brave", "-", "bin">>>>),
    DesktopEntry(Brave \o <<"_">> \o Brave, 4, <<"brave">>, <<<<"brave">>>>),
    DesktopEntry(Pycharm, 4, <<"pycharm">>, <<<<"pycharm", ".", "sh">>>>) }

MCUserFiles == Idea :> Content(<<"intellij">>, <<<<"idea", ".", "sh">>>>)

Wrap(id, class, override, force) ==
  [ op |-> "wrap", id |-> id, class |-> class, override |-> override, force |-> force,
    preview |-> {} ]
Unwrap(id, class, override) ==
  [ op |-> "unwrap", id |-> id, class |-> class, override |-> override, force |-> FALSE,
    preview |-> {} ]
DryRun(command) == [command EXCEPT !.preview = {"dry-run"}]
SuggestIn(mode) == [op |-> "suggest", mode |-> mode]

MCCommands ==
  { Wrap(Idea, "ide", FALSE, FALSE), Wrap(Idea, "ide", TRUE, TRUE),
    DryRun(Wrap(<<"firefox">>, "browsers", FALSE, FALSE)),
    Unwrap(Idea, "ide", TRUE), Unwrap(Idea, "ide", FALSE),
    Wrap(Pycharm, "ide", FALSE, FALSE), SuggestIn("apply") }

Scope(name, exec, memory) ==
  [scope |-> name, slice |-> <<"app", ".", "slice">>, exec |-> exec, memory |-> memory]
MCScopes ==
  { Scope(<<"app", "-", "firefox", "-", "7", ".", "scope">>, <<<<"firefox">>>>, 3),
    Scope(<<"app", "-", "brave", "-", "9", ".", "scope">>, <<<<"brave", "-", "bin">>>>, 1) }
\* Wrapping and unwrapping in the two modes, by one process.
UnwrapCommands == {Wrap(Idea, "ide", FALSE, FALSE), Unwrap(Idea, "ide", FALSE), Unwrap(Idea, "ide", TRUE)}
Alike == Permutations(Processes)
MCRules == default_suggest_rules
\* What the theorems assume holds of this desktop, but that of SuggestConverges
\* assumes moreover that no id is one like Pycharm.
ASSUME TheoremsApply == PlainFiles /\ PlainIds /\ ForeignScopes /\ SnapsHaveEntries
=============================================================================
