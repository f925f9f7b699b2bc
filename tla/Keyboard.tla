------------------------------- MODULE Keyboard -------------------------------
(***************************************************************************)
(* The keyboards of a seat (sway/input/keyboard.c), the bindings that they *)
(* trigger (sway/commands/bind.c), and the labels of a jump, which take    *)
(* over the keyboards while they are shown (sway/tree/layout.c).           *)
(*                                                                         *)
(* The state e extends the record of TextInput:                            *)
(*                                                                         *)
(*   kb      every sway_keyboard, of a device or of a group                *)
(*             on      it exists                                           *)
(*             group   keyboard->wlr->group of a device                    *)
(*             layout  keyboard->keymap and the repeat settings            *)
(*             keys, current, last, raw   state_keycodes                   *)
(*             sent    state_pressed_sent                                  *)
(*             held    held_binding                                        *)
(*             repeat  repeat_binding; the timer is armed exactly with it  *)
(*             cb      key_press_cb: the jump whose callback it is         *)
(*             mod     the modifiers as xkb has them                       *)
(*   down    keys that are physically held on each device                  *)
(*   active  keyboard_state.keyboard of the wlr_seat                       *)
(*   told    keys that the client of each surface believes to be pressed   *)
(*   grabbed keys that the keyboard grab of the input method believes so   *)
(*   lists   config->modes: the bindings of each mode; mode is the current *)
(*   jump    the jump that is shown, jumps counts them                     *)
(*   windows in the order of the labels                                    *)
(*   locked, inhibited   the session lock, and surfaces that inhibit       *)
(*   asked   a reload is scheduled                                         *)
(*                                                                         *)
(* Bindings are to keycodes, and Mod is the key of the only modifier.      *)
(***************************************************************************)
EXTENDS TextInput

CONSTANTS
  Devices,      \* keyboards that can be plugged in
  Groups,       \* wlr_keyboard_groups
  Keys, Mod,    \* keycodes
  LockSurface,  \* the surface of the session lock
  Labels,       \* config->jump_labels_keys
  Cap           \* SWAY_KEYBOARD_PRESSED_KEYS_CAP

ASSUME CapAssumption == Cap \in Nat \ {0}

Keyboards == Devices \cup Groups

\* sway_keyboard_create
NewKeyboard ==
  [on |-> TRUE, group |-> None, layout |-> None, keys |-> {}, current |-> None, last |-> None,
   raw |-> FALSE, sent |-> {}, held |-> None, repeat |-> None, cb |-> None, mod |-> FALSE]

NoKeyboard == [NewKeyboard EXCEPT !.on = FALSE]

Plugged(e) == {k \in Devices : e.kb[k].on}

Members(e, g) == {k \in Plugged(e) : e.kb[k].group = g}

\* Keys that are held on a device, or on some member of a group
Held(e, k) == IF k \in Devices THEN e.down[k] ELSE UNION {e.down[p] : p \in Members(e, k)}

-----------------------------------------------------------------------------
(* Bindings.                                                                *)

\* binding_key_compare
SameKeys(a, b) ==
  /\ a.input = b.input /\ a.group = b.group /\ a.keys = b.keys /\ a.mod = b.mod
  /\ a.release = b.release /\ a.locked = b.locked /\ a.inhibited = b.inhibited

\* binding_upsert and binding_add: the binding that b replaces is freed.
BindingAdd(list, b) ==
  LET same == {i \in DOMAIN list : SameKeys(list[i], b)}
  IN  IF same = {} THEN Append(list, b) ELSE [list EXCEPT ![Min(same)] = b]

\* binding_remove
BindingRemove(list, b) ==
  LET same == {i \in DOMAIN list : SameKeys(list[i], b)}
  IN  IF same = {} THEN list ELSE RemoveAt(list, Min(same))

\* The event that a binding is looked up for, as get_active_binding has it
Query(e, k, release) ==
  [release |-> release, locked |-> e.locked, inhibited |-> e.focus \in e.inhibited,
   mod |-> e.kb[k].mod, keys |-> e.kb[k].keys, current |-> e.kb[k].current,
   input |-> k, exact |-> e.kb[k].group # None, group |-> "base"]

\* The binding can be run at all.
Matches(b, q) ==
  /\ b.mod = q.mod /\ b.release = q.release
  /\ q.locked => b.locked
  /\ q.inhibited => b.inhibited
  /\ b.group \in {None, q.group}
  /\ b.input = q.input \/ (b.input = "*" /\ ~q.exact)
  /\ \/ b.keys = q.keys
     \/ Cardinality(b.keys) = 1 /\ Cardinality(q.keys) # 1 /\ q.current \in b.keys


\* The tests that keep the binding c which was found before b
Keeps(c, b, q) ==
  LET mine(x) == x.input = q.input
      alike == mine(c) = mine(b)
      grouped == alike /\ (c.group # None) = (b.group # None)
  IN  \/ grouped /\ c.locked = b.locked /\ c.inhibited = b.inhibited
      \/ mine(c) /\ ~mine(b)
      \/ alike /\ c.group = q.group
      \/ grouped /\ c.locked = q.locked
      \/ grouped /\ c.locked = b.locked /\ c.inhibited = q.inhibited

\* Nothing better can come: a flag is compared with TRUE, so this is never so for a
\* locked session or an inhibited surface.
Perfect(b, q) ==
  b.input = q.input /\ b.group = q.group
  /\ ~b.locked /\ ~q.locked /\ ~b.inhibited /\ ~q.inhibited

\* get_active_binding
GetActiveBinding(list, q) ==
  LET Try(t, b) ==
        IF t.stop \/ ~Matches(b, q) \/ (t.found # None /\ Keeps(t.found, b, q)) THEN t
        ELSE [found |-> b, stop |-> Perfect(b, q)]
  IN  FoldLeft(Try, [found |-> None, stop |-> FALSE], list).found

\* scroll(5), "the priority for matching bindings": input device, group, and locked
\* state
Rank(b, q) ==
  (IF b.input = q.input THEN 4 ELSE 0) + (IF b.group # None THEN 2 ELSE 0)
    + (IF b.locked = q.locked THEN 1 ELSE 0)

\* ... and after it the inhibited state, by the same logic
FullRank(b, q) == 2 * Rank(b, q) + (IF b.inhibited = q.inhibited THEN 1 ELSE 0)

Preferred(list, q, weight(_)) ==
  LET found == GetActiveBinding(list, q)
  IN  \A b \in ToSet(list) : Matches(b, q) => found # None /\ weight(b) <= weight(found)

-----------------------------------------------------------------------------
(* The shortcut state.                                                      *)

\* state_erase_key
EraseKey(s, key) == [s EXCEPT !.keys = @ \ {key}, !.current = None]

\* state_add_key
AddKey(s, key) ==
  IF Cardinality(s.keys) >= Cap THEN s ELSE [s EXCEPT !.keys = @ \cup {key}, !.current = key]

\* update_shortcut_state of state_keycodes, as update_keyboard_state calls it
UpdateShortcutState(s, key, press) ==
  LET seen == IF s.mod # s.raw /\ s.last # None THEN EraseKey(s, s.last) ELSE s
      now == [seen EXCEPT !.raw = s.mod]
  IN  IF press THEN [AddKey(now, key) EXCEPT !.last = key] ELSE EraseKey(now, key)

\* update_shortcut_state of state_pressed_sent
UpdateSent(s, key, press) ==
  IF ~press THEN [s EXCEPT !.sent = @ \ {key}]
  ELSE IF Cardinality(s.sent) >= Cap THEN s ELSE [s EXCEPT !.sent = @ \cup {key}]

-----------------------------------------------------------------------------
(* What clients hear of the keyboard.                                       *)

\* wlr_seat_keyboard_notify_clear_focus
ClearFocus(e) ==
  IF e.focus = None THEN e ELSE [e EXCEPT !.told[e.focus] = {}, !.focus = None]

\* seat_keyboard_notify_enter; a surface that has the focus hears nothing.
NotifyEnter(e, surface) ==
  LET sent == IF e.active = None THEN {} ELSE e.kb[e.active].sent
  IN  IF e.focus = surface THEN e
      ELSE [ClearFocus(e) EXCEPT !.focus = surface, !.told[surface] = sent]

\* wlr_seat_set_keyboard and wlr_seat_keyboard_notify_key
NotifyKey(e, k, key, press) ==
  LET set == [e EXCEPT !.active = k]
  IN  IF e.focus = None THEN set
      ELSE [set EXCEPT !.told[e.focus] = IF press THEN @ \cup {key} ELSE @ \ {key}]

\* wlr_input_method_keyboard_grab_v2_send_key
GrabKey(e, key, press) ==
  [e EXCEPT !.grabbed = IF press THEN @ \cup {key} ELSE @ \ {key}]

\* seat_set_focus_surface
SetFocusSurface(e, surface) ==
  RelaySetFocus(IF surface = None THEN ClearFocus(e) ELSE NotifyEnter(e, surface), surface)

\* seat_set_focus of a window; the surface of the lock comes back.
SetFocus(e, surface) ==
  IF e.locked THEN SetFocusSurface(ClearFocus(e), LockSurface)
  ELSE IF e.focus = surface THEN e
  ELSE RelaySetFocus(NotifyEnter(ClearFocus(e), surface), surface)

\* seat_set_focus of an empty workspace or of a column: its windows lose the keyboard.
SetFocusWorkspace(e) ==
  IF e.locked THEN SetFocusSurface(ClearFocus(e), LockSurface) ELSE ClearFocus(e)

-----------------------------------------------------------------------------
(* A jump.                                                                  *)

NoJump == [id |-> None, pressed |-> 0, keys |-> 0, number |-> 0, count |-> 0]

\* override_input
OverrideInput(e, id) ==
  [e EXCEPT !.kb = [k \in Keyboards |-> IF e.kb[k].on THEN [@[k] EXCEPT !.cb = id] ELSE @[k]]]

\* layout_jump
LayoutJump(e) ==
  LET n == Len(e.windows)
  IN  IF n = 0 THEN e
      ELSE OverrideInput([e EXCEPT !.jumps = @ + 1, !.jump =
                            [id |-> e.jumps + 1, pressed |-> 0, number |-> 0, count |-> n,
                             keys |-> IF n <= Len(Labels) THEN 1 ELSE 2]], e.jumps + 1)

\* jump_handle_keyboard_key_end: the window has the number it has now.
JumpEnd(e, focus) ==
  LET n == e.jump.number + 1
      seen == IF focus /\ n <= Len(e.windows) THEN SetFocus(e, e.windows[n]) ELSE e
  IN  OverrideInput([seen EXCEPT !.jump = NoJump], None)

\* jump_handle_keyboard_key
JumpKey(e, key) ==
  LET i == IF Contains(Labels, key) THEN SelectInSeq(Labels, LAMBDA l : l = key) - 1 ELSE 0
      typed == [e EXCEPT !.jump.pressed = @ + 1, !.jump.number = @ * Len(Labels) + i]
  IN  IF ~Contains(Labels, key) THEN JumpEnd(e, FALSE)
      ELSE IF typed.jump.pressed < e.jump.keys THEN typed
      ELSE JumpEnd(typed, typed.jump.number < e.jump.count)

\* jump_handle_button
JumpButton(e) == JumpEnd(e, FALSE)

-----------------------------------------------------------------------------
(* Key events.                                                              *)

\* cmd_send_shortcut
SendShortcut(e, key) ==
  IF e.active = None THEN e
  ELSE Then(NotifyKey(e, e.active, key, TRUE), LAMBDA f : NotifyKey(f, e.active, key, FALSE))

\* seat_execute_command
Execute(e, b) ==
  CASE b.cmd = "nop" -> e
    [] b.cmd = "focus" -> IF Contains(e.windows, b.arg) THEN SetFocus(e, b.arg) ELSE e
    [] b.cmd = "workspace" -> SetFocusWorkspace(e)
    [] b.cmd = "mode" -> [e EXCEPT !.mode = b.arg]
    [] b.cmd = "jump" -> LayoutJump(e)
    [] b.cmd = "shortcut" -> SendShortcut(e, b.arg)
    [] b.cmd = "reload" -> [e EXCEPT !.asked = TRUE]

DisarmRepeat_Forgotten(e, k) == e

\* sway_keyboard_disarm_key_repeat
DisarmRepeat(e, k) == [e EXCEPT !.kb[k].repeat = None]

\* The stored release binding, once it is no longer active
ReleaseBinding(t, k, press) ==
  LET e == t.e
      b == GetActiveBinding(e.lists[e.mode], Query(e, k, TRUE))
      old == e.kb[k].held
      run == old # None /\ b # old /\ ~press
      kept == IF press /\ b # None THEN b ELSE IF b # old THEN None ELSE old
      done == IF run THEN Execute(e, old) ELSE e
  IN  [e |-> [done EXCEPT !.kb[k].held = kept], handled |-> run]

\* The binding that is pressed; the repeat timer is set or cleared before it runs.
PressBinding(t, k, press) ==
  LET e == t.e
      b == IF press THEN GetActiveBinding(e.lists[e.mode], Query(e, k, FALSE)) ELSE None
      timed == IF b # None /\ ~b.norepeat THEN [e EXCEPT !.kb[k].repeat = b]
               ELSE IF e.kb[k].repeat # None THEN DisarmRepeat(e, k) ELSE e
  IN  IF b = None THEN [e |-> timed, handled |-> t.handled]
      ELSE [e |-> Execute(timed, b), handled |-> TRUE]

\* A release goes to the client that heard of the press.
SendRelease(t, k, key, press) ==
  LET e == t.e
      was == key \in e.kb[k].sent
      gone == [e EXCEPT !.kb[k] = UpdateSent(@, key, FALSE)]
  IN  IF press THEN t
      ELSE IF was /\ e.focus # None
           THEN [e |-> NotifyKey(gone, k, key, FALSE), handled |-> TRUE]
           ELSE [t EXCEPT !.e = gone]

\* What no binding handled goes to the grab of the input method, or to the client.
Forward(t, k, key, press) ==
  LET e == t.e
      press1 == [e EXCEPT !.kb[k] = UpdateSent(@, key, TRUE)]
  IN  IF t.handled THEN e
      ELSE IF e.grab THEN GrabKey(e, key, press)
      ELSE IF press THEN NotifyKey(press1, k, key, TRUE) ELSE e

\* handle_key_event
HandleKeyEvent(e, k, key, press) ==
  LET Jump(f) == IF press /\ f.kb[k].group = None THEN JumpKey(f, key) ELSE f
      Bindings(f) == Then(ReleaseBinding([e |-> f, handled |-> FALSE], k, press),
                          LAMBDA t : PressBinding(t, k, press))
      \* A member of a group only has the bindings of its device.
      Deliver(t) == IF ~t.handled /\ t.e.kb[k].group # None THEN t.e
                    ELSE Then(SendRelease(t, k, key, press), LAMBDA u : Forward(u, k, key, press))
      Event(f) == IF f.kb[k].cb # None
                  THEN Then(Jump(f), LAMBDA g : [g EXCEPT !.kb[k] = UpdateSent(@, key, press)])
                  ELSE Then(Bindings(f), Deliver)
  IN  Then([e EXCEPT !.kb[k] = UpdateShortcutState(@, key, press)], Event)

\* handle_keyboard_repeat
HandleRepeat(e, k) == Execute(e, e.kb[k].repeat)

\* handle_modifier_event: xkb has the modifiers of the keys after their event.
HandleModifiers(e, k) == [e EXCEPT !.kb[k].mod = Mod \in Held(e, k)]

\* A device presses or releases a key: its group hears first, when no other member
\* holds the key.
DeviceKey(e, p, key, press) ==
  LET g == e.kb[p].group
      moved == [e EXCEPT !.down[p] = IF press THEN @ \cup {key} ELSE @ \ {key}]
      first == g # None /\ ~\E q \in Members(e, g) \ {p} : key \in e.down[q]
      Group(f) == IF first THEN Then(HandleKeyEvent(f, g, key, press), LAMBDA h : HandleModifiers(h, g))
                  ELSE f
      Device(f) == Then(HandleKeyEvent(f, p, key, press), LAMBDA h : HandleModifiers(h, p))
  IN  Then(Group(moved), Device)

=============================================================================
