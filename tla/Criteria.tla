------------------------------- MODULE Criteria -------------------------------
(***************************************************************************)
(* Criteria such as [app_id="x" urgent=latest] and the rules of the        *)
(* configuration that carry them: sway/criteria.c.  A criterion is a       *)
(* function from the tokens that are present to their values.  A pattern   *)
(* is the set of the texts its regular expression finds; Focused is the    *)
(* pattern __focused__.  con_id names the window of a container.           *)
(***************************************************************************)
EXTENDS OutputOps

CONSTANTS
  X11,       \* the windows of Xwayland
  Props,     \* Props[v]: the texts of a window that has them, and its window types
  Pid,       \* the process of a window
  Garbled    \* a value that does not parse

Focused == {None}
SandboxTexts == {"sandbox_engine", "sandbox_app_id", "sandbox_instance_id"}
X11Texts == {"class", "instance", "window_role"}
Texts == {"title", "app_id", "shell"} \cup SandboxTexts \cup X11Texts
Flags == {"all", "floating", "tiling"}
Numbers == {"con_id", "id", "pid"}
TokenNames ==
  Texts \cup Flags \cup Numbers \cup {"con_mark", "urgent", "workspace", "window_type"}
WindowTypes == {"normal", "dialog", "utility", "menu"}

-----------------------------------------------------------------------------
(* What a criterion is matched with.                                        *)

\* view_get_title, view_get_app_id, ...: None for a text that the view has not
Text(d, v, name) ==
  IF name = "title" THEN d.title[v]
  ELSE IF name = "shell" THEN IF v \in X11 THEN "xwayland" ELSE "xdg_shell"
  ELSE IF name \in DOMAIN Props[v] THEN Props[v][name] ELSE None

FocusedView(d) == IF GetFocus(d) \in Windows THEN GetFocus(d) ELSE None

\* container_is_scratchpad_hidden, container_is_floating
Hidden(d, v) == v \in ToSet(d.pad) /\ d.up[v] = None
Floats(d, v) == IsFloating(d, v) \/ v \in ToSet(d.pad)

\* The urgent views that are mapped, oldest first
UrgentViews(d) == SelectSeq(d.urgent, LAMBDA v : v \in d.live)

\* A text that is absent is matched as the empty one, but is not equal to the
\* absent text of the focused view.
TextMatches(d, v, name, pattern) ==
  LET raw == Text(d, v, name)
      text == IF raw = None THEN "" ELSE raw
      focus == FocusedView(d)
  IN  /\ name \in SandboxTexts => raw # None
      /\ IF pattern = Focused THEN focus = None \/ text = Text(d, focus, name)
         ELSE text \in pattern

\* criteria_matches_container
ContainerMatches(d, c, v) ==
  /\ "con_mark" \in DOMAIN c => d.marks[v] \cap c["con_mark"] # {}
  /\ "con_id" \in DOMAIN c => c["con_id"] = v

\* The workspace of a view that is hidden, or not placed yet, matches nothing.
WorkspaceMatches(d, v, pattern) ==
  LET w == WorkspaceOf(d, v)
      focus == FocusedView(d)
  IN  /\ w # None
      /\ IF pattern = Focused THEN focus = None \/ w = WorkspaceOf(d, focus)
         ELSE w \in pattern

\* criteria_matches_view
ViewMatches(d, c, v) ==
  /\ \A name \in Texts \cap DOMAIN c : TextMatches(d, v, name, c[name])
  /\ ContainerMatches(d, c, v)
  /\ "id" \in DOMAIN c => v \in X11 /\ c["id"] = v
  /\ "window_type" \in DOMAIN c => v \in X11 /\ c["window_type"] \in Props[v]["types"]
  /\ "floating" \in DOMAIN c => Floats(d, v)
  /\ "tiling" \in DOMAIN c => ~Floats(d, v)
  /\ "urgent" \in DOMAIN c =>
       /\ IsUrgent(d, v)
       /\ v = (IF c["urgent"] = "oldest" THEN Head(UrgentViews(d)) ELSE Last(UrgentViews(d)))
  /\ "workspace" \in DOMAIN c => WorkspaceMatches(d, v, c["workspace"])
  /\ "pid" \in DOMAIN c => c["pid"] = Pid[v]

\* criteria_get_containers: columns have no marks here, and no command names them.
GetContainers(d, c) == {v \in d.live \cap Windows : ViewMatches(d, c, v)}

-----------------------------------------------------------------------------
(* Parsing: a written criterion is a sequence of pairs of a name and a value, *)
(* None if no value is given.                                                *)

\* The errors of parse_token
Malformed(token) ==
  LET name == token[1] IN
  \/ name \notin TokenNames
  \/ token[2] = None /\ name \notin Flags
  \/ token[2] = Garbled /\ name \notin Flags \cup {"window_type"}

\* parse_token: what the token adds, nothing if its value is the default
Condition(d, token) ==
  LET name == token[1]
      value == token[2]
      To(x) == name :> x
      Nothing == <<>>
  IN  CASE name \in Flags -> To(TRUE)
        [] name = "con_id" /\ value = Focused ->
             IF GetFocus(d) \in Containers THEN To(GetFocus(d)) ELSE Nothing
        [] name = "pid" /\ value = 0 -> Nothing
        [] name = "window_type" /\ value \notin WindowTypes -> Nothing
        [] OTHER -> To(value)

\* criteria_parse: None for an error.  A later token replaces an earlier one.
Parse(d, raw) ==
  LET Add(c, token) == Condition(d, token) @@ Restrict(c, DOMAIN c \ {token[1]})
      NonEmpty(c) == IF DOMAIN c = {} THEN None ELSE c
  IN  IF \E i \in DOMAIN raw : Malformed(raw[i]) THEN None
      ELSE NonEmpty(FoldLeft(Add, <<>>, raw))

-----------------------------------------------------------------------------
(* Rules.                                                                    *)

\* criteria_already_exists; only for_window and no_focus are looked up.
AlreadyExists(d, type, raw, what) ==
  \E i \in DOMAIN d.rules :
    LET r == d.rules[i]
    IN  /\ type # "assign" /\ r.type = type /\ r.raw = raw
        /\ type = "for_window" => r.what = what

\* cmd_for_window, cmd_assign, cmd_no_focus
AddRule(d, type, raw, what) ==
  LET Listed(c) == IF c = None \/ AlreadyExists(d, type, raw, what) THEN d
                   ELSE [d EXCEPT !.rules = Append(@, [type |-> type, raw |-> raw,
                                                       crit |-> c, what |-> what])]
  IN  Listed(Parse(d, raw))

\* criteria_for_view: the places of the rules that match, in order
RulesFor(d, v, type) ==
  SetToSortSeq({i \in DOMAIN d.rules :
                  d.rules[i].type = type /\ ViewMatches(d, d.rules[i].crit, v)}, <)

=============================================================================
