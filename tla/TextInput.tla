------------------------------ MODULE TextInput ------------------------------
(***************************************************************************)
(* The text-input relay of a seat (sway/input/text_input.c).  It stands    *)
(* between the text inputs of the clients and the one input method, and    *)
(* follows the keyboard focus of the seat.  The state e of the seat's      *)
(* input is one record; every C function is a function of it.              *)
(*                                                                         *)
(*   focus   keyboard_state.focused_surface of the wlr_seat                *)
(*   im      relay->input_method is there; turned is what it was last      *)
(*           told, done is client_active: what it knows since the last     *)
(*           done event                                                    *)
(*   grab    the input method holds a keyboard grab                        *)
(*   inputs  relay->text_inputs                                            *)
(*   at      input->focused_surface of each text input                     *)
(*   pend    pending_focused_surface of each text input                    *)
(*   on      text inputs with current_enabled                              *)
(*   popups  relay->input_popups; buffer, mapped: popups with a buffer,    *)
(*           and mapped ones                                               *)
(*   rel     the surface whose scene tree holds desc.relative of a popup   *)
(***************************************************************************)
EXTENDS Integers, SequencesExt, FiniteSetsExt

CONSTANTS
  Surfaces, TextInputs, Popups,
  Owner,        \* the client of a surface or a text input
  None

\* One C function after another: Op applied to the state that v is.
Then(v, Op(_)) == CHOOSE r \in {Op(x) : x \in {v}} : TRUE

\* sway_input_method_relay_init
NoRelay ==
  [im |-> FALSE, turned |-> FALSE, done |-> FALSE, grab |-> FALSE, inputs |-> <<>>,
   at |-> [x \in TextInputs |-> None], pend |-> [x \in TextInputs |-> None], on |-> {},
   popups |-> <<>>, buffer |-> {}, mapped |-> {}, rel |-> [p \in Popups |-> None]]

\* relay_get_focused_text_input and relay_get_focusable_text_input
Focused(e) == SelectSeq(e.inputs, LAMBDA x : e.at[x] # None)
Focusable(e) == SelectSeq(e.inputs, LAMBDA x : e.pend[x] # None)

FocusedSurface(e) == IF Focused(e) = <<>> THEN None ELSE e.at[Head(Focused(e))]

-----------------------------------------------------------------------------
(* The popups of the input method.                                          *)

\* input_popup_set_focus: desc.relative goes, and comes back under surface.
PopupSetFocus(e, p, surface) == [e EXCEPT !.rel[p] = surface]

\* handle_im_popup_surface_map
PopupMap(e, p) ==
  IF p \in e.mapped THEN e
  ELSE PopupSetFocus([e EXCEPT !.mapped = @ \cup {p}], p, FocusedSurface(e))

\* handle_im_popup_surface_unmap
PopupUnmap(e, p) ==
  IF p \in e.mapped THEN PopupSetFocus([e EXCEPT !.mapped = @ \ {p}], p, None) ELSE e

\* zwp_input_method_v2.done: a popup with a buffer is mapped while the method is active.
SendDone(e) ==
  LET Role(f, p) == IF f.done /\ p \in f.buffer THEN PopupMap(f, p) ELSE PopupUnmap(f, p)
  IN  FoldLeft(Role, [e EXCEPT !.done = e.turned], e.popups)

\* handle_im_focused_surface_unmap of every popup that waits for surface
PopupsUnmapped(e, surface) ==
  [e EXCEPT !.rel = [p \in Popups |-> IF @[p] = surface THEN None ELSE @[p]]]

\* handle_im_new_popup_surface
NewPopup(e, p) ==
  PopupSetFocus([e EXCEPT !.popups = <<p>> \o @], p, FocusedSurface(e))

\* handle_im_popup_destroy, after the popup was unmapped
PopupDestroy(e, p) ==
  LET gone == PopupUnmap(e, p)
  IN  [gone EXCEPT !.popups = Remove(@, p), !.buffer = @ \ {p}, !.rel[p] = None]

\* The input method commits a buffer: the popup is mapped while the method is active.
PopupCommit(e, p) ==
  LET held == [e EXCEPT !.buffer = @ \cup {p}]
  IN  IF e.done THEN PopupMap(held, p) ELSE held

-----------------------------------------------------------------------------
(* The relay.                                                               *)

\* relay_send_im_state
SendImState(e) ==
  LET Follow(f, p) == PopupSetFocus(f, p, FocusedSurface(e))
  IN  IF ~e.im THEN e ELSE SendDone(FoldLeft(Follow, e, e.popups))

\* relay_disable_text_input
DisableTextInput(e) == IF ~e.im THEN e ELSE SendImState([e EXCEPT !.turned = FALSE])

SendLeave(e, x) == [e EXCEPT !.at[x] = None]

\* wlr_text_input_v3_send_enter, or the surface is kept until there is a method
Enter(e, x, surface) ==
  IF surface = None \/ Owner[surface] # Owner[x] THEN e
  ELSE IF e.im THEN [e EXCEPT !.at[x] = surface] ELSE [e EXCEPT !.pend[x] = surface]

\* A text input that waits keeps the surface of the focus it missed.
RelaySetFocus_PendingStays(e, surface) ==
  LET Turn(f, x) ==
        IF f.pend[x] # None THEN Enter(f, x, surface)
        ELSE IF f.at[x] = None THEN Enter(f, x, surface)
        ELSE IF f.at[x] = surface THEN f
        ELSE Then(SendLeave(DisableTextInput(f), x), LAMBDA g : Enter(g, x, surface))
  IN  FoldLeft(Turn, e, e.inputs)

\* sway_input_method_relay_set_focus
RelaySetFocus(e, surface) ==
  LET Turn(f, x) ==
        IF f.pend[x] # None
        THEN Enter([f EXCEPT !.pend[x] = IF surface = @ THEN @ ELSE None], x, surface)
        ELSE IF f.at[x] = None THEN Enter(f, x, surface)
        ELSE IF f.at[x] = surface THEN f
        ELSE Then(SendLeave(DisableTextInput(f), x), LAMBDA g : Enter(g, x, surface))
  IN  FoldLeft(Turn, e, e.inputs)

\* relay_handle_input_method, where none is connected
NewInputMethod(e) ==
  LET there == [e EXCEPT !.im = TRUE, !.turned = FALSE, !.done = FALSE]
      x == Head(Focusable(e))
      Follow(f, p) == PopupSetFocus(f, p, e.pend[x])
  IN  IF Focusable(e) = <<>> THEN there
      ELSE FoldLeft(Follow, [there EXCEPT !.at[x] = e.pend[x], !.pend[x] = None], e.popups)

\* handle_im_destroy: the popups and the grab go with the method.
ImDestroy(e) ==
  LET gone == [FoldLeft(PopupDestroy, e, e.popups) EXCEPT
                 !.im = FALSE, !.turned = FALSE, !.done = FALSE, !.grab = FALSE]
      x == Head(Focused(e))
  IN  IF Focused(e) = <<>> THEN gone
      ELSE [gone EXCEPT !.pend[x] = e.at[x], !.at[x] = None]

-----------------------------------------------------------------------------
(* What the clients of text inputs ask.                                     *)

\* sway_text_input_create; the list has the newest first.
NewTextInput(e, x) == [e EXCEPT !.inputs = <<x>> \o @]

\* handle_text_input_enable
Enable(e, x) ==
  LET asked == [e EXCEPT !.on = @ \cup {x}]
  IN  IF e.at[x] = None \/ ~e.im THEN asked ELSE SendImState([asked EXCEPT !.turned = TRUE])

\* handle_text_input_disable
Disable(e, x) ==
  LET asked == [e EXCEPT !.on = @ \ {x}]
  IN  IF e.at[x] = None THEN asked ELSE DisableTextInput(asked)

\* handle_text_input_commit
Commit(e, x) == IF e.at[x] = None \/ x \notin e.on THEN e ELSE SendImState(e)

\* handle_text_input_destroy
TextInputDestroy(e, x) ==
  LET told == IF x \in e.on THEN DisableTextInput(e) ELSE e
  IN  [told EXCEPT !.inputs = Remove(@, x), !.on = @ \ {x}, !.at[x] = None, !.pend[x] = None]

\* A surface is destroyed: handle_pending_focused_surface_destroy, and its like in wlroots
RelaySurfaceGone(e, surface) ==
  LET Left(f) == [x \in TextInputs |-> IF f[x] = surface THEN None ELSE f[x]]
  IN  [PopupsUnmapped(e, surface) EXCEPT !.at = Left(@), !.pend = Left(@)]

-----------------------------------------------------------------------------
(* What the relay promises.                                                 *)

\* Text input focus is a subset of keyboard focus, unless that is on a workspace,
\* which the relay is not told; a text input that waits for the input method waits
\* with the surface that has the keyboard.
FollowsKeyboard(e) ==
  \A x \in TextInputs : /\ e.focus # None => {e.at[x], e.pend[x]} \subseteq {None, e.focus}
                        /\ e.at[x] = None \/ e.pend[x] = None

\* At most one text input receives events, while there is an input method.
OneFocused(e) == Len(Focused(e)) <= 1 /\ (Focused(e) # <<>> => e.im)

\* An input method that is active serves a text input that is enabled and has the
\* focus.
MethodServes(e) == e.turned => e.im /\ \E x \in e.on : e.at[x] # None

\* A popup that is shown hangs under the surface that is typed into.
PopupsFollow(e) ==
  /\ \A p \in e.mapped : e.rel[p] \in {None, FocusedSurface(e)}
  /\ e.mapped # {} => e.im /\ e.done

=============================================================================
