-------------------------------- MODULE MCInput --------------------------------
(***************************************************************************)
(* The instance of Input that TLC checks.                                  *)
(***************************************************************************)
EXTENDS Input

CONSTANTS p1, p2, w1, w2, lk, x1, x2, x3

MCOwner == [s \in {w1, w2, lk, x1, x2, x3} |->
              CASE s \in {w1, x1, x3} -> "a" [] s \in {w2, x2} -> "b" [] OTHER -> "lock"]

Two == <<1, 2>>

\* A binding to the keys, with the modifier or without it
B(id, keys, mod, cmd, arg) ==
  [id |-> id, keys |-> keys, mod |-> mod, cmd |-> cmd, arg |-> arg, input |-> "*", group |-> None,
   release |-> FALSE, locked |-> FALSE, inhibited |-> FALSE, norepeat |-> FALSE]

Once(b) == [b EXCEPT !.norepeat = TRUE]
OnRelease(b) == [b EXCEPT !.release = TRUE]
Locked(b) == [b EXCEPT !.locked = TRUE]
Inhibited(b) == [b EXCEPT !.inhibited = TRUE]

Scene(acts, most, devices, list) ==
  [acts |-> {"key"} \cup acts, most |-> most, devices |-> devices, grouping |-> TRUE, keys |-> Keys,
   lists |-> ("default" :> list @@ "other" :> <<Once(B(90, {1}, FALSE, "mode", "default"))>>),
   reloaded |-> ("default" :> <<>> @@ "other" :> <<>>), spare |-> {}, windows |-> <<w1, w2>>,
   texts |-> {x1, x2}]

FocusKey == Once(B(1, {2}, TRUE, "focus", w2))
RepeatKey == B(2, {1}, TRUE, "nop", None)
BothKeys == Once(B(3, {1, 2}, FALSE, "shortcut", 1))
LaterKey == OnRelease(B(4, {1}, FALSE, "focus", w2))
ModeKey == Once(B(5, {1}, FALSE, "mode", "other"))
JumpKeys == Once(B(6, {2}, FALSE, "jump", None))
NopKey == Once(B(40, {1}, FALSE, "nop", None))
ReloadKey == Once(B(7, {2}, TRUE, "reload", None))

\* Bindings to one key, which differ in what the manual prefers them by
Alike == {B(34, {1}, FALSE, "nop", None), Locked(B(31, {1}, FALSE, "nop", None)),
          Inhibited(B(32, {1}, FALSE, "nop", None)),
          [B(33, {1}, FALSE, "nop", None) EXCEPT !.input = p1],
          [B(35, {1}, FALSE, "nop", None) EXCEPT !.group = "base"]}

PassingScenes ==
  {Scene({"focus", "close", "repeat"}, 5, {p1}, <<FocusKey, RepeatKey, BothKeys>>),
   Scene({"focus", "im", "grab"}, 5, {p1}, <<FocusKey, ModeKey>>),
   Scene({"focus"}, 5, {p1}, <<LaterKey, BothKeys>>),
   Scene({"focus", "repeat", "plug"}, 4, {p1, p2}, <<FocusKey, RepeatKey>>),
   Scene({"focus", "layout"}, 5, {p1, p2}, <<FocusKey>>),
   [Scene({"focus", "layout", "plug"}, 4, {p1, p2}, <<FocusKey>>) EXCEPT !.grouping = FALSE],
   [Scene({"reload", "focus", "repeat"}, 4, {p1, p2}, <<FocusKey, RepeatKey, ReloadKey>>)
      EXCEPT !.reloaded = [m \in {"default", "other"} |-> <<B(12, {1}, TRUE, "nop", None)>>]],
   [Scene({"bind"}, 5, {p1}, <<ModeKey>>) EXCEPT !.spare = {Once(B(20, {2}, FALSE, "nop", None)), Once(B(21, {1}, TRUE, "nop", None))}],
   Scene({"lock", "inhibit", "focus"}, 5, {p1},
         <<Inhibited(B(32, {2}, FALSE, "nop", None)), [B(33, {2}, FALSE, "nop", None) EXCEPT !.input = p1]>>),
   Scene({"jump", "close"}, 4, {}, <<>>),
   [Scene({}, 3, {p1}, <<JumpKeys, NopKey>>)
      EXCEPT !.grouping = FALSE, !.keys = {1, 2}],
   Scene({"workspace", "focus", "repeat"}, 5, {p1}, <<FocusKey, RepeatKey>>),
   Scene({"im", "text", "focus", "popup", "workspace"}, 8, {}, <<>>),
   [Scene({"im", "text", "focus", "popup", "close"}, 8, {}, <<>>) EXCEPT !.texts = {x1, x3}],
   Scene({"im", "text", "focus", "close", "workspace"}, 9, {}, <<>>)}
  \cup {[Scene({"lock", "inhibit"}, 3, {p1}, list) EXCEPT !.keys = {1}] : list \in SetToSeqs(Alike)}

\* Two bindings to one key, the one with --inhibited first: the other one should be
\* preferred while no window inhibits shortcuts.
InhibitedScenes ==
  {[Scene({}, 5, {p1}, <<Inhibited(B(32, {1}, FALSE, "nop", None)), B(34, {1}, FALSE, "nop", None)>>)
      EXCEPT !.keys = {1}]}

\* A client with two text inputs, and a focus that goes to a workspace
TwoTextsScenes == {[Scene({"im", "text", "focus"}, 6, {}, <<>>) EXCEPT !.texts = {x1, x3}]}
WorkspaceScenes == {Scene({"im", "text", "focus", "workspace"}, 6, {}, <<>>)}

=============================================================================
