------------------------------- MODULE Suggest ------------------------------
(***************************************************************************)
(* resguard suggest: which class a running scope seems to belong to, how   *)
(* sure that is, and the plan of wraps that follows.  Pure operators; the  *)
(* execution of a plan is part of Desktop.                                 *)
(*                                                                         *)
(* A scope is what systemctl shows of one: [scope, slice, exec, memory],   *)
(* with memory in GiB.  A rule is [pattern, class], its pattern the set of *)
(* its alternatives.                                                       *)
(***************************************************************************)
EXTENDS Discovery

NoClass == "none"

Rule(class, words) == [class |-> class, pattern |-> {<<w>> : w \in words}]

IdeWords == { "code", "codium", "vscodium", "idea", "pycharm", "clion", "goland", "webstorm",
              "rubymine", "phpstorm", "datagrip", "rider", "jetbrains" }
BrowserWords == {"firefox", "chrome", "chromium", "brave"}

default_suggest_rules ==
  << Rule("heavy", {"docker", "podman", "containerd"}),
     Rule("ide", IdeWords),
     Rule("browsers", BrowserWords \cup {"opera", "vivaldi"}) >>

\* The text a rule is matched with: scope, slice and program.
Hay(s) == s.scope \o <<" ">> \o s.slice \o <<" ">> \o FlattenSeq(s.exec)
simple_pattern_match(pattern, hay) == \E part \in pattern : Occurs(part, hay)
HasWord(words, hay) == simple_pattern_match({<<w>> : w \in words}, hay)

ClassMatch(class, pattern, memory) ==
  [class |-> class, pattern_match |-> pattern, memory_threshold_match |-> memory]
NoMatch == ClassMatch(NoClass, FALSE, FALSE)

\* Without a rule: containers, programmers' tools, and what is large in app.slice.
ClassifyBuiltin(s) ==
  LET hay == Hay(s) large == s.slice = <<"app", ".", "slice">> /\ s.memory >= 2 IN
  IF HasWord({"docker", "podman"}, hay) THEN ClassMatch("heavy", TRUE, FALSE)
  ELSE IF HasWord(IdeWords, hay) THEN ClassMatch("ide", TRUE, FALSE)
  ELSE IF large /\ HasWord(BrowserWords, hay) THEN ClassMatch("browsers", TRUE, TRUE)
  ELSE IF large THEN ClassMatch("heavy", FALSE, TRUE)
  ELSE NoMatch

\* The first rule that matches decides.
classify(s, rules) ==
  LET matching == {i \in DOMAIN rules : simple_pattern_match(rules[i].pattern, Hay(s))}
      first    == CHOOSE i \in matching : \A j \in matching : i <= j
  IN  IF matching # {} THEN ClassMatch(rules[first].class, TRUE, FALSE) ELSE ClassifyBuiltin(s)

expected_class_for_known_app(app) ==
  IF app \in ({<<w>> : w \in BrowserWords \cup {"opera", "vivaldi"}} \cup
              {Chrome, Chrome \o <<"-", "stable">>, <<"chromium", "-", "browser">>})
  THEN "browsers"
  ELSE IF app \in {<<w>> : w \in IdeWords} \/ IsPrefix(<<"jetbrains">>, app) THEN "ide"
  ELSE IF app \in {<<"docker">>, <<"podman">>, <<"containerd">>} THEN "heavy"
  ELSE NoClass

strong_identity_match(identity, class) ==
  LET app == IF identity.snap_app # None THEN identity.snap_app ELSE identity.executable
  IN  app # None /\ expected_class_for_known_app(app) = class

Points(condition, points) == IF condition THEN points ELSE 0
score(identity, match, desktop_id) ==
  LET points == Points(match.pattern_match, 40) + Points(match.memory_threshold_match, 30)
                + Points(desktop_id # None, 30)
                + Points(strong_identity_match(identity, match.class), 30)
  IN  IF points > 100 THEN 100 ELSE points

Suggestion(s, rules, entries) ==
  LET match == classify(s, rules)
      id == unique_desktop_id_for_scope_exec(s.scope, s.exec, entries)
  IN  [ scope |-> s, class |-> match.class, desktop_id |-> id,
        confidence |-> score(parse_scope_identity(s.scope, s.exec), match, id) ]

\* Scopes have different names, so that removing neighbours of one scope and
\* class removes nothing.
build_suggestions(scopes, rules, entries) ==
  {sg \in {Suggestion(s, rules, entries) : s \in scopes} : sg.class # NoClass}

PlanItem(sg, threshold) ==
  [ kind  |-> IF sg.confidence < threshold THEN "skip low confidence"
              ELSE IF sg.desktop_id # None THEN "wrap desktop"
              ELSE "manual wrap",
    scope |-> sg.scope, desktop_id |-> sg.desktop_id, class |-> sg.class ]

build_plan_items(suggestions, threshold) == {PlanItem(sg, threshold) : sg \in suggestions}

\* The items of a plan that wrap something: in auto mode not those of class
\* heavy, in a preview none.
Executed(plan, mode) ==
  { item \in plan : /\ item.kind = "wrap desktop" /\ mode # "preview"
                    /\ ~(mode = "auto" /\ item.class = "heavy") }

\* Largest scope first; scopes of one size come in some fixed order.
LargestFirst(items) ==
  CHOOSE order \in [1..Cardinality(items) -> items] :
    /\ Range(order) = items
    /\ \A i, j \in DOMAIN order : i < j => order[i].scope.memory >= order[j].scope.memory

suggest(scopes, rules, threshold, mode, entries) ==
  LargestFirst(Executed(build_plan_items(build_suggestions(scopes, rules, entries), threshold), mode))
=============================================================================
