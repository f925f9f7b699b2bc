------------------------------- MODULE MCPointer -------------------------------
(***************************************************************************)
(* The instance of Pointer that TLC checks.                                *)
(***************************************************************************)
EXTENDS Pointer

CONSTANTS w1, w2, w3

\* w1 handles touch and tablets itself.
MCAccepts == (w1 :> {"touch", "tablet"}) @@ [s \in {w2, w3, Panel} |-> {}]

Binding(keys, mod, release, cmd) ==
  [keys |-> keys, mod |-> mod, release |-> release, on |-> {"titlebar", "border", "contents"},
   input |-> "*", cmd |-> cmd]

Scene(acts, most, parts) ==
  [acts |-> acts, most |-> most, parts |-> parts, buttons |-> {Left, Right}, bindings |-> <<>>,
   home |-> w1 :> "a" @@ w2 :> "a" @@ w3 :> "b",
   at |-> w1 :> "tiled" @@ w2 :> "floating" @@ w3 :> "tiled",
   shown |-> "a", follows |-> "no", along |-> TRUE, gestures |-> {"hold"}, swipeTo |-> "b", pin |-> None,
   over |-> Windows, bare |-> {TRUE}, fingers |-> {1}]

Column(s) == [s EXCEPT !.at = [w \in Windows |-> "tiled"], !.home = [w \in Windows |-> "a"]]

Whole == {"contents", "titlebar", "border"}

PassingScenes ==
  {\* dragging and resizing, with a second button and with commands
   Scene({"mouse", "move", "mod", "ipc"}, 6, Whole),
   Column(Scene({"mouse", "move", "mod", "close"}, 6, Whole)),
   [Scene({"mouse", "move", "mod", "focus", "full", "panel"}, 6, {"contents", "titlebar"}) EXCEPT !.follows = "yes"],
   \* bindings of buttons
   [Scene({"mouse", "move", "wheel", "switch", "ipc"}, 6, {"contents", "titlebar"}) EXCEPT !.bindings =
      <<Binding(<<Left, Right>>, FALSE, FALSE, "b"), Binding(<<Right>>, FALSE, TRUE, "a"),
        [Binding(<<Middle + 1>>, FALSE, FALSE, "b") EXCEPT !.input = "mouse"]>>],
   \* clients
   Scene({"mouse", "move", "request", "close", "full", "hide"}, 7, {"contents"}),
   [Scene({"mouse", "move", "constraint", "focus", "switch", "close"}, 6, {"contents"}) EXCEPT !.follows = "always"],
   Scene({"mouse", "move", "float", "close", "panel"}, 6, {"contents"}),
   Scene({"mouse", "move", "mod", "float"}, 6, {"contents", "border"}),
   \* a touch screen and a tablet
   Scene({"touch", "close", "panel", "mod"}, 6, {"contents", "titlebar"}),
   [Scene({"touch", "mod"}, 7, {"contents", "titlebar"}) EXCEPT !.fingers = Fingers, !.over = {w1, w2}, !.bare = {}],
   [Scene({"touch", "mouse", "move", "mod"}, 6, {"contents", "titlebar"}) EXCEPT !.over = {w1, w2}],
   Scene({"pen", "mod", "close"}, 6, {"contents", "titlebar"}),
   Scene({"pen", "tool", "close"}, 7, {"contents", "titlebar"}),
   Scene({"pen", "mouse", "move"}, 6, {"contents"}),
   \* a touchpad
   Column(Scene({"gesture", "focus", "hide"}, 6, {"contents"})),
   [Column(Scene({"mouse", "move", "mod"}, 6, {"contents"})) EXCEPT !.buttons = {Middle}, !.pin = w2],
   [Column(Scene({"gesture", "focus", "move"}, 6, {"contents"})) EXCEPT !.pin = w2, !.along = FALSE,
                                                                      !.gestures = {"hold", "pinch"}]}

\* Two fingers, the first of which is a simulated pointer
FingerScenes ==
  {[Scene({"touch", "second"}, 4, {"contents", "titlebar"}) EXCEPT !.fingers = Fingers, !.over = {w2}]}

=============================================================================
