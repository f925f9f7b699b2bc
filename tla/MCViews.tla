-------------------------------- MODULE MCViews --------------------------------
(***************************************************************************)
(* The instance of Views that TLC checks: an xdg toplevel a, its child b,  *)
(* an X11 window x and an unmanaged X11 surface that belongs to it, y.     *)
(***************************************************************************)
EXTENDS Views

CONSTANTS a, b, x, y, ka, kb, kx, ky, o1, o2, t1, t2

ColumnOfWindow == (a :> ka) @@ (b :> kb) @@ (x :> kx) @@ (y :> ky)
Parents == (a :> None) @@ (b :> a) @@ (x :> None) @@ (y :> x)
Processes == (a :> <<11, 10>>) @@ (b :> <<12>>) @@ (x :> <<20>>) @@ (y :> <<20>>)
PidOf == [v \in Windows |-> Head(Processes[v])]
WindowProps ==
  (a :> [app_id |-> "term"]) @@ (b :> [app_id |-> "edit", sandbox_engine |-> "box"])
    @@ (x :> [class |-> "X", types |-> {"dialog"}]) @@ (y :> [types |-> {"menu"}])

Options == [activation |-> "smart", movefocus |-> "none", force |-> FALSE, leave |-> FALSE]
Plain(acts, windows) ==
  [acts |-> acts \cup {"client"}, windows |-> windows, names |-> {1, 2}, outputs |-> {o1},
   plugs |-> 1, layers |-> {}, titles |-> {}, rules |-> <<>>, later |-> {},
   commands |-> {}, pids |-> {}, cfg |-> Options]

ForWindow(raw, cmd) == <<"for_window", raw, cmd>>
Assign(raw, to) == <<"assign", raw, to>>
NoFocus(raw) == <<"no_focus", raw, None>>
Title(t) == <<"title", {t}>>
All == <<<<"all", None>>>>

Activation(how) ==
  [Plain({"activate", "minimize", "hints", "switch"}, {a, x}) EXCEPT !.cfg.activation = how]
Trusting(how, force) ==
  [Plain({"token", "switch"}, {a}) EXCEPT !.cfg.activation = how, !.cfg.force = force]
Covered(how) ==
  [Plain({"fullscreen", "switch", "command"}, {a, x}) EXCEPT
     !.cfg.movefocus = how, !.commands = {<<All, <<"move", 2>>>>}]

SceneList ==
  <<\* contexts, workspaces and outputs that go
   [Plain({"launch", "expire", "switch", "output"}, {a}) EXCEPT
      !.pids = {10, 11}, !.outputs = {o1, o2}, !.plugs = 2],
   [Plain({"launch", "token", "switch"}, {x}) EXCEPT !.pids = {20}],
   [Plain({"launch", "token"}, {a, b}) EXCEPT !.pids = {10, 12}],
   \* rules
   [Plain({"title", "rule"}, {a, b}) EXCEPT
      !.titles = {"t", "u"},
      !.rules = <<ForWindow(<<Title("t")>>, <<"mark", "m", FALSE, FALSE>>),
                  ForWindow(<<<<"con_mark", {"m"}>>>>, <<"floating", TRUE>>),
                  Assign(<<<<"app_id", {"edit"}>>>>, <<"workspace", 2>>)>>,
      !.later = {NoFocus(<<<<"title", Focused>>>>),
                 ForWindow(<<<<"tiling", None>>, Title("u")>>, <<"move", 2>>)}],
   [Plain({"title", "rule", "command", "activate"}, {a, x}) EXCEPT
      !.titles = {"t"},
      !.commands = {<<All, <<"unmark", "n">>>>},
      !.later = {ForWindow(<<<<"class", None>>>>, <<"focus">>),
                 NoFocus(<<<<"colour", {"red"}>>>>)},
      !.rules = <<ForWindow(<<Title("t")>>, <<"mark", "m", TRUE, TRUE>>),
                  ForWindow(<<<<"con_mark", {"m"}>>>>, <<"scratchpad">>),
                  ForWindow(<<<<"window_type", "dialog">>>>, <<"mark", "n", FALSE, FALSE>>),
                  ForWindow(<<<<"con_mark", {"n"}>>>>, <<"mark", "m", TRUE, FALSE>>)>>],
   \* unmanaged surfaces
   Plain({"unmanaged", "activate"}, {x, y}),
   \* urgency
   [Plain({"hints", "switch", "command"}, {a, x}) EXCEPT
      !.commands = {<<<<<<"urgent", "latest">>>>, <<"focus">>>>, <<All, <<"urgent", "deny">>>>,
                    <<<<<<"workspace", Focused>>>>, <<"urgent", "allow">>>>,
                    <<All, <<"urgent", "enable">>>>}],
   \* minimising and the scratchpad
   [Plain({"minimize", "switch", "activate", "command"}, {a, x}) EXCEPT
      !.commands = {<<<<>>, <<"floating", TRUE>>>>, <<All, <<"floating", FALSE>>>>}],
   \* fullscreen
   [Plain({"fullscreen", "popup", "switch"}, {a, b}) EXCEPT
      !.cfg.leave = TRUE,
      !.rules = <<ForWindow(<<<<"pid", 0>>, <<"app_id", {"edit"}>>>>, <<"fullscreen", TRUE>>)>>],
   [Plain({"fullscreen", "output"}, {a, x}) EXCEPT !.outputs = {o1, o2}, !.plugs = 2],
   \* options
   Activation("none"), Activation("urgent"), Activation("focus"),
   Trusting("smart", FALSE), Trusting("focus", TRUE), Trusting("none", TRUE),
   Covered("follow"), Covered("nofollow")>>

PassingScenes == ToSet(SceneList)

=============================================================================
