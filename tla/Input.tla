--------------------------------- MODULE Input ---------------------------------
(***************************************************************************)
(* The keyboards, the text inputs and the input method of a seat, with     *)
(* what happens to them: devices that come, go and are configured (the     *)
(* keyboard groups of sway/input/keyboard.c, seat.c, input-manager.c), the *)
(* focus that moves, windows that close, a session lock, a reload of the   *)
(* configuration, a jump, and the requests of clients.  Every action is    *)
(* one event of the compositor's loop.                                     *)
(***************************************************************************)
EXTENDS Keyboard

CONSTANTS
  Layouts,      \* keymaps with their repeat settings
  Scenes        \* what is explored together

VARIABLES e, steps, scene

vars == <<e, steps, scene>>

-----------------------------------------------------------------------------
(* Keyboard groups.                                                         *)

\* handle_keyboard_group_enter and the first half of handle_keyboard_group_leave
Tell(s, g, keys, press) ==
  LET Each(f, key) ==
        LET state == UpdateShortcutState(f.kb[g], key, press)
        IN  [f EXCEPT !.kb[g] = IF press THEN state ELSE UpdateSent(state, key, FALSE)]
  IN  FoldSet(LAMBDA key, f : Each(f, key), s, keys)

\* handle_keyboard_group_leave: the focus is moved away and back, to be told of the
\* keys that are still pressed.
Refocus(s) ==
  LET surface == s.focus
  IN  IF surface = None THEN s
      ELSE Then(SetFocusSurface(s, None), LAMBDA f : SetFocusSurface(f, surface))

GroupLeave(s, g, keys) ==
  IF keys \cap s.kb[g].sent = {} THEN Tell(s, g, keys, FALSE)
  ELSE Then(Tell(s, g, keys, FALSE), Refocus)

\* sway_keyboard_destroy
KeyboardDestroy(s, k) ==
  [s EXCEPT !.kb[k] = NoKeyboard, !.active = IF @ = k THEN None ELSE @]

\* sway_keyboard_group_remove
GroupRemove(s, p) ==
  LET g == s.kb[p].group
      others == Members(s, g) \ {p}
      keys == s.down[p] \ UNION {s.down[q] : q \in others}
      Leave(f) == IF keys = {} THEN f ELSE GroupLeave(f, g, keys)
      Out(f) == [f EXCEPT !.kb[p].group = None]
      Empty(f) == IF others = {} THEN KeyboardDestroy(f, g) ELSE HandleModifiers(f, g)
  IN  Then(Then(Leave(s), Out), Empty)

\* sway_keyboard_group_remove_invalid
RemoveInvalid(s, p) ==
  LET g == s.kb[p].group
  IN  IF g # None /\ (~scene.grouping \/ s.kb[g].layout # s.kb[p].layout) THEN GroupRemove(s, p) ELSE s

\* sway_keyboard_group_add.  A new group is told of no key: its listeners come last.
GroupAdd(s, p) ==
  LET fit == {g \in Groups : s.kb[g].on /\ s.kb[g].layout = s.kb[p].layout}
      free == CHOOSE g \in Groups : ~s.kb[g].on
      keys(g) == s.down[p] \ Held(s, g)
      Join(f, g) == HandleModifiers([f EXCEPT !.kb[p].group = g], g)
      Old(g) == Then(Tell(s, g, keys(g), TRUE), LAMBDA f : Join(f, g))
  IN  IF ~scene.grouping THEN s
      ELSE IF fit # {} THEN Old(CHOOSE g \in fit : TRUE)
      ELSE Join([s EXCEPT !.kb[free] = [NewKeyboard EXCEPT !.layout = s.kb[p].layout]], free)

\* sway_keyboard_set_layout and sway_keyboard_configure
Configure(s, p, layout) ==
  LET Add(f) == IF f.kb[p].group = None THEN GroupAdd(f, p) ELSE f
      Active(f) == IF f.active = None THEN [f EXCEPT !.active = p] ELSE f
  IN  Then(Then(RemoveInvalid([s EXCEPT !.kb[p].layout = layout], p), Add), Active)

\* seat_configure_keyboard: the surface with the focus is entered once more.
ConfigureKeyboard(s, p, layout) ==
  LET Reenter(f) == IF f.active = p /\ f.focus # None THEN NotifyEnter(f, f.focus) ELSE f
  IN  Then(Configure(s, p, layout), Reenter)

\* handle_device_destroy, seat_remove_device and seat_device_destroy
RemoveDevice(s, p) ==
  IF s.kb[p].group = None THEN KeyboardDestroy(s, p)
  ELSE Then(GroupRemove(s, p), LAMBDA f : KeyboardDestroy(f, p))

\* input_manager_reset_all_inputs and seat_reset_device
ResetAllInputs(s) ==
  LET Reset(f, p) == Configure(DisarmRepeat(f, p), p, f.kb[p].layout)
      Disarmed(f) == [f EXCEPT !.kb = [k \in Keyboards |-> IF k \in Groups THEN [@[k] EXCEPT !.repeat = None]
                                                           ELSE @[k]]]
  IN  Then(FoldSet(LAMBDA p, f : Reset(f, p), [s EXCEPT !.active = None], Plugged(s)), Disarmed)

-----------------------------------------------------------------------------

Start ==
  NoRelay @@
  [kb |-> [k \in Keyboards |-> NoKeyboard], down |-> [p \in Devices |-> {}], active |-> None,
   focus |-> None, told |-> [f \in Surfaces |-> {}], grabbed |-> {},
   lists |-> scene.lists, mode |-> "default", jump |-> NoJump, jumps |-> 0,
   windows |-> scene.windows, locked |-> FALSE, inhibited |-> {}, asked |-> FALSE]

\* The devices of the scene are there, and its first window has the focus.
Init ==
  /\ scene \in Scenes
  /\ steps = 0
  /\ e = LET Add(s, p) == ConfigureKeyboard([s EXCEPT !.kb[p] = NewKeyboard], p, "us")
             Ready(s) == SetFocus(s, Head(s.windows))
         IN  Then(FoldSet(LAMBDA p, s : Add(s, p), Start, scene.devices), Ready)

\* An event of kind act, which the scene allows
Event(act, new) ==
  /\ act \in scene.acts /\ steps < scene.most
  /\ steps' = steps + 1
  /\ e' = new
  /\ UNCHANGED scene

Press(p, key) ==
  /\ p \in Plugged(e) /\ key \in scene.keys \ e.down[p]
  /\ Event("key", DeviceKey(e, p, key, TRUE))

\* A key can always be let go.
Release(p, key) ==
  /\ key \in e.down[p]
  /\ e' = DeviceKey(e, p, key, FALSE)
  /\ UNCHANGED <<steps, scene>>

Repeat(k) ==
  /\ e.kb[k].on /\ e.kb[k].repeat # None
  /\ Event("repeat", HandleRepeat(e, k))

\* handle_new_input
Plug(p) ==
  /\ p \in Devices \ Plugged(e)
  /\ Event("plug", ConfigureKeyboard([e EXCEPT !.kb[p] = NewKeyboard], p, "us"))

\* wlr_keyboard_finish releases the keys, then the device is destroyed.
Unplug(p) ==
  /\ p \in Plugged(e)
  /\ Event("plug", Then(FoldSet(LAMBDA key, s : DeviceKey(s, p, key, FALSE), e, e.down[p]),
                        LAMBDA s : RemoveDevice(s, p)))

\* input_manager_apply_input_config, for a device
SetLayout(p, layout) ==
  /\ p \in Plugged(e) /\ e.kb[p].layout # layout
  /\ Event("layout", ConfigureKeyboard(e, p, layout))

\* cmd_bindcode and cmd_unbindcode of a client
Bind(b) ==
  /\ b \in scene.spare
  /\ Event("bind", [e EXCEPT !.lists[e.mode] = BindingAdd(@, b)])

Unbind(b) ==
  /\ b \in scene.spare
  /\ BindingRemove(e.lists[e.mode], b) # e.lists[e.mode]
  /\ Event("bind", [e EXCEPT !.lists[e.mode] = BindingRemove(@, b)])

\* cmd_reload of a client; do_reload reads the configuration anew when the loop is idle.
Reload == ~e.asked /\ Event("reload", [e EXCEPT !.asked = TRUE])

DoReload ==
  /\ e.asked
  /\ e' = LET read == [e EXCEPT !.asked = FALSE, !.lists = scene.reloaded, !.mode = "default"]
          IN  ResetAllInputs(read)
  /\ UNCHANGED <<steps, scene>>

\* layout_jump of a client, and a click while the labels are shown
StartJump == Event("jump", LayoutJump(e))
Click == e.jump # NoJump /\ Event("jump", JumpButton(e))

\* The pointer or a command moves the focus, to a window or to an empty workspace.
Focus(surface) == Contains(e.windows, surface) /\ Event("focus", SetFocus(e, surface))
FocusWorkspace == Event("workspace", SetFocusWorkspace(e))

\* A window is unmapped and destroyed; another takes the focus.
Close(surface) ==
  LET left == [e EXCEPT !.windows = Remove(@, surface), !.inhibited = @ \ {surface}]
      Next1(s) == IF e.focus = surface THEN SetFocus(s, Head(s.windows)) ELSE s
  IN  /\ Contains(e.windows, surface) /\ Len(e.windows) > 1
      /\ Event("close", RelaySurfaceGone(Next1(PopupsUnmapped(left, surface)), surface))

\* handle_session_lock and the unlock: the focus goes to the surface of the lock,
\* and back to a window.
Lock ==
  /\ ~e.locked
  /\ Event("lock", [SetFocusSurface(e, LockSurface) EXCEPT !.locked = TRUE])

Unlock ==
  /\ e.locked
  /\ Event("lock", SetFocus([e EXCEPT !.locked = FALSE], Head(e.windows)))

\* A shortcuts inhibitor becomes active, or its client destroys it.
Inhibit(surface) == Event("inhibit", [e EXCEPT !.inhibited = @ \cup {surface}])
Permit(surface) ==
  surface \in e.inhibited /\ Event("inhibit", [e EXCEPT !.inhibited = @ \ {surface}])

\* The input method connects, goes, and grabs the keyboard.
Connect == ~e.im /\ Event("im", NewInputMethod(e))
Disconnect == e.im /\ Event("im", [ImDestroy(e) EXCEPT !.grabbed = {}])
Grab == e.im /\ ~e.grab /\ Event("grab", [e EXCEPT !.grab = TRUE, !.grabbed = {}])
Ungrab ==
  \* handle_im_keyboard_grab_destroy
  e.grab /\ Event("grab", [e EXCEPT !.grab = FALSE, !.grabbed = {}])

\* The clients of text inputs
Create(x) == x \in scene.texts /\ ~Contains(e.inputs, x) /\ Event("text", NewTextInput(e, x))
TurnOn(x) == Contains(e.inputs, x) /\ x \notin e.on /\ Event("text", Enable(e, x))
TurnOff(x) == x \in e.on /\ Event("text", Disable(e, x))
Update(x) == x \in e.on /\ e.im /\ Event("text", Commit(e, x))
Destroy(x) == Contains(e.inputs, x) /\ Event("text", TextInputDestroy(e, x))

\* The popups of the input method
ShowPopup(p) == e.im /\ ~Contains(e.popups, p) /\ Event("popup", NewPopup(e, p))
DrawPopup(p) == Contains(e.popups, p) /\ Event("popup", PopupCommit(e, p))
HidePopup(p) == Contains(e.popups, p) /\ Event("popup", PopupDestroy(e, p))

Next ==
  \/ \E p \in Devices, key \in Keys : Press(p, key) \/ Release(p, key)
  \/ \E k \in Keyboards : Repeat(k)
  \/ \E p \in Devices : Plug(p) \/ Unplug(p) \/ \E layout \in Layouts : SetLayout(p, layout)
  \/ \E b \in scene.spare : Bind(b) \/ Unbind(b)
  \/ Reload \/ DoReload \/ StartJump \/ Click \/ FocusWorkspace \/ Lock \/ Unlock
  \/ \E f \in Surfaces \ {LockSurface} : Focus(f) \/ Close(f) \/ Inhibit(f) \/ Permit(f)
  \/ Connect \/ Disconnect \/ Grab \/ Ungrab
  \/ \E x \in TextInputs : Create(x) \/ TurnOn(x) \/ TurnOff(x) \/ Update(x) \/ Destroy(x)
  \/ \E p \in Popups : ShowPopup(p) \/ DrawPopup(p) \/ HidePopup(p)

Spec == Init /\ [][Next]_vars

-----------------------------------------------------------------------------
(* What is promised.                                                        *)

AnyHeld == UNION {e.down[p] : p \in Devices}

\* No key stays pressed for a client: what the client with the focus, or the grab of
\* the input method, believes to be pressed is held on some keyboard, and whatever
\* is held and was sent is what the client believes.  (handle_key_event,
\* keyboard.c:535, and the refocus of handle_keyboard_group_leave)
NoStuckKeys ==
  /\ \A f \in Surfaces : e.told[f] \subseteq AnyHeld
  /\ \A f \in Surfaces : e.told[f] # {} => f = e.focus
  /\ e.grabbed \subseteq AnyHeld

\* What the keyboards point to is alive: the binding that waits for a release, the
\* one that repeats, the jump whose callback is set; the keyboard of the seat is one
\* that exists (the assertion of seat_keyboard_notify_enter); and a binding repeats
\* only while one of its keys is held.
PointersAlive ==
  LET bound == UNION {ToSet(e.lists[m]) : m \in DOMAIN e.lists} \cup {None}
  IN  /\ e.active # None => e.kb[e.active].on
      /\ \A k \in Keyboards : /\ e.kb[k].held \in bound /\ e.kb[k].repeat \in bound
                              /\ e.kb[k].cb \in {None, e.jump.id}
                              /\ e.kb[k].repeat # None => e.kb[k].repeat.keys \cap Held(e, k) # {}
                              /\ e.kb[k].group # None => e.kb[e.kb[k].group].on

\* keyboard.c, over every order of keys, groups, reloads and focus: nobody is left with a
\* key that is not held or with a binding that is gone.
KeysSound == NoStuckKeys /\ PointersAlive

PreferredBy(weight(_, _)) ==
  \A k \in Keyboards, release \in BOOLEAN :
    LET q == Query(e, k, release)
    IN  e.kb[k].on => Preferred(e.lists[e.mode], q, LAMBDA b : weight(b, q))


\* ... and that it prefers by the inhibited state as well ("the same preference logic
\* as for --locked applies").
InhibitedPreferred == PreferredBy(FullRank)

\* Text input focus is a subset of keyboard focus (the comment of text_input.h): a text
\* input that is typed into is on the surface that has the keyboard.
TextHasKeyboard == \A x \in TextInputs : e.at[x] \in {None, e.focus}

\* At most one text input is focused at a time (the same comment).
TextAlone == OneFocused(e)

\* All text inputs of one client are entered together, and one of them is left when the
\* method goes.
OneEach == \A x, y \in scene.texts : Owner[x] = Owner[y] => x = y

\* text_input.c, over every order of text inputs, input methods, popups and focus:
\* text inputs follow the keyboard focus, one at a time if no client has two, the method
\* is active for one that has it, and its popups follow.  Where the focus goes to
\* workspaces a window that is still typed into can close, and the method stays active.
TextFollows ==
  /\ FollowsKeyboard(e) /\ PopupsFollow(e) /\ (OneEach => OneFocused(e))
  /\ "workspace" \in scene.acts \/ MethodServes(e)

=============================================================================
