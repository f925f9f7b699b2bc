----------------------------- MODULE MCScroller -----------------------------
(***************************************************************************)
(* The instance of Scroller that TLC checks.  Lengths are tenths of a      *)
(* pixel: the viewport is 120 pixels long, and a gap 3.                    *)
(***************************************************************************)
EXTENDS Scroller

CONSTANTS v1, v2, v3, v4

MCDefault == <<600, 1200>>

Areas == {<<1200, 800>>}

Scene(start, acts, most) ==
  [start |-> start, acts |-> acts, most |-> most, movefocus |-> "nofollow", reset |-> TRUE, maximize |-> FALSE,
   areas |-> Areas, axes |-> {1}, sizes |-> {900}, by |-> {240}, scales |-> {0, 5}, swipes |-> {0 - 400, 400}]

Both(s) == [s EXCEPT !.axes = {1, 2}]

PassingScenes ==
  {\* sizes
   Scene(<<v1, v2, v3>>, {"open", "close", "focus", "mouse", "resize"}, 4),
   Both(Scene(<<v1, v2>>, {"open", "mode", "resize", "toggle", "mouse"}, 4)),
   Both(Scene(<<v1, v2>>, {"set", "toggle", "close", "away", "mouse"}, 5)),
   Both(Scene(<<v1, v2, v3>>, {"fit", "focus", "align", "mode"}, 3)),
   [Scene(<<v1, v2>>, {"open", "close", "mouse", "away", "resize"}, 4) EXCEPT !.maximize = TRUE],
   \* scales and the overview
   Scene(<<v1, v2, v3>>, {"scale", "overview", "focus", "resize"}, 4)} \cup
  {[Scene(<<v1, v2>>, {"full", "overview", "mouse", "focus", "open", "close"}, 5) EXCEPT !.movefocus = m] :
     m \in {"none", "follow", "nofollow"}} \cup
  {\* pins and gestures
   Scene(<<v1, v2, v3>>, {"pin", "focus", "open", "close", "resize"}, 4),
   Scene(<<v1, v2, v3>>, {"pin", "swipe", "focus"}, 5),
   Scene(<<v1, v2, v3>>, {"pin", "swipe", "close", "away", "mouse"}, 5),
   Both(Scene(<<v1, v2>>, {"pin", "swipe", "mode", "open"}, 5)),
   Both(Scene(<<v1, v2>>, {"mode", "open", "swipe", "mouse", "scale"}, 5)),
   [Scene(<<v1, v2, v3>>, {"area", "focus", "align", "mode"}, 4) EXCEPT
      !.areas = {<<1200, 800>>, <<900, 800>>}, !.reset = FALSE]}

\* A window that is temporarily large is resized.
LossyScenes ==
  {Both(Scene(<<v1, v2>>, {"toggle", "resize", "lossy"}, 2))}

\* The same of a column, of whose window the user sets the size
UntoldScenes ==
  {Scene(<<v1, v2>>, {"toggle", "set", "lossy"}, 4)}

\* A row that fits, with a pin, in a column that does not
StayingScenes ==
  {Scene(<<v1, v2>>, {"pin", "swipe", "mode", "open", "stays"}, 5)}

\* The fingers are lifted in another workspace.
LeavingScenes ==
  {Scene(<<v1, v2, v3>>, {"swipe", "away", "leave"}, 3)}

\* The window by which the mouse drags the row closes.
DraggedScenes ==
  {Scene(<<v1, v2, v3>>, {"swipe", "close", "dragged"}, 3)}

=============================================================================
