------------------------------- MODULE OutputOps -------------------------------
(***************************************************************************)
(* Workspaces that come and go with their outputs: sway/tree/output.c and  *)
(* the output part of sway/tree/workspace.c, as operators on the desktops  *)
(* of SeatFocus.                                                           *)
(***************************************************************************)
EXTENDS LayersAndLock

SortByNumber(s) ==
  LET S == ToSet(s)
  IN  [i \in 1..Cardinality(S) |-> CHOOSE w \in S : Cardinality({v \in S : v <= w}) = i]

-----------------------------------------------------------------------------
(* Workspaces of an output.                                                 *)

\* workspace_output_add_priority
AddPriority(d, w, o) ==
  IF o \in ToSet(d.homes[w]) THEN d ELSE [d EXCEPT !.homes[w] = Append(@, o)]

\* workspace_output_raise_priority
RaisePriority(d, w, old, new) ==
  LET s == d.homes[w]
      at(o) == SelectInSeq(s, LAMBDA p : p = o)
  IN  IF at(old) = 0 \/ (at(new) # 0 /\ at(new) <= at(old)) THEN d
      ELSE [d EXCEPT !.homes[w] =
              InsertAt(SelectSeq(s, LAMBDA p : p # new), at(old), new)]

\* workspace_output_get_highest_available
Highest(d, w) ==
  FirstOf(SelectSeq(d.homes[w], LAMBDA o : o \in ToSet(d.outs)))

\* output_add_workspace
AddWorkspace(d, w, o) ==
  [DetachWorkspace(d, w) EXCEPT !.up[w] = o, !.spaces[o] = Append(@, w)]

AddAll(d, list, o) == FoldLeft(LAMBDA e, w : AddWorkspace(e, w, o), d, list)

\* output_sort_workspaces
Sort(d, o) == [d EXCEPT !.spaces[o] = SortByNumber(@)]

\* workspace_next_name, without bindings and workspace configurations
Unused(d) == Workspaces \ d.live
NextNumber(d) == CHOOSE w \in Unused(d) : \A v \in Unused(d) : w <= v

\* workspace_create
CreateWorkspace(d, w, o) ==
  Sort(NewNode([AddPriority([d EXCEPT !.homes[w] = <<>>], w, o)
                  EXCEPT !.spaces[o] = Append(@, w)], w, o), o)

\* Is the workspace w empty but for sticky windows?  workspace_is_empty
Emptied(d, w) == OnWorkspace(d, w) \subseteq Sticky

-----------------------------------------------------------------------------
(* Outputs that are enabled and disabled.                                   *)

\* restore_workspaces, what it takes from the output p
Refill(d, p) ==
  IF d.spaces[p] = <<>> THEN CreateWorkspace(d, NextNumber(d), p) ELSE d

RestoreFrom(d, o, p) ==
  LET back == Keep(d.spaces[p], {w \in Workspaces : Highest(d, w) = o})
  IN  IF p = o THEN d
      ELSE Refill(AddAll(d, back, o), p)

RestoreFromAll(d, list, o) == FoldLeft(LAMBDA e, p : RestoreFrom(e, o, p), d, list)

Rescue(d, o) == AddAll(d, d.spaces[Fallback], o)

Restore(d, o) == Sort(Rescue(RestoreFromAll(d, d.outs, o), o), o)

\* output_enable, and the arrange_layers of a new configuration
Filled(d, o) ==
  LET w == NextNumber(d)
      Made == CreateWorkspace(d, w, o)
  IN  IF d.spaces[o] # <<>> THEN d ELSE IF d.has THEN Made ELSE SetFocus(Made, w)

EnableOutput(d, o) ==
  LET Listed == [d EXCEPT !.outs = Append(@, o)]
  IN  FoldLeft(ArrangeLayers, Filled(Restore(Listed, o), o), Listed.outs)

\* evacuate_sticky
EvacuateSticky(d, w, v) ==
  DetectUrgent(MoveAll(d, OnWorkspace(d, w), v), v)

\* output_evacuate, one workspace
Resettle(d, w, to, shown) ==
  IF OnWorkspace(d, w) = {} THEN DestroyWorkspace(d, w)
  ELSE ConsiderDestroy(Sort(AddWorkspace(AddPriority(d, w, to), w, to), to), shown)

EvacuateWorkspace(d, w) ==
  LET to == Head(SelectSeq(d.homes[w] \o d.outs, LAMBDA o : o \in ToSet(d.outs))
                   \o <<Fallback>>)
      Off == DetachWorkspace(d, w)
      shown == ActiveWorkspace(Off, to)
  IN  Resettle(IF Emptied(Off, w) /\ shown # None THEN EvacuateSticky(Off, w, shown) ELSE Off,
               w, to, shown)

\* handle_output_destroy
LoseLayer(d, l) == DestroyLayer(d, l, TRUE)

\* output_disable: the layer surfaces of the output go, then its workspaces.
Evacuate(d, o) == FoldLeft(EvacuateWorkspace, d, d.spaces[o])

DisableOutput(d, o) ==
  LET lost == Keep(d.order, {l \in Layers : d.shell[l].at = o})
  IN  Evacuate([FoldLeft(LoseLayer, d, lost) EXCEPT !.outs = Keep(@, Outputs \ {o})], o)

\* The output is unplugged: its lock surface goes as well (lock_node_handle_destroy).
LockWithout(d, o) ==
  IF d.lock = None THEN d
  ELSE [(IF d.lock.surface[o] = "mapped" THEN DestroyLockSurface(d, o) ELSE d)
          EXCEPT !.lock.surface[o] = "no output"]

Rearranged(d) == FoldLeft(ArrangeLayers, d, d.outs)

UnplugOutput(d, o) == RedirectContexts(Rearranged(LockWithout(DisableOutput(d, o), o)), o, Root)

\* handle_new_output, with a lock in place
PlugOutput(d, o) ==
  EnableOutput(IF d.lock = None THEN d ELSE [d EXCEPT !.lock.surface[o] = "none"], o)

-----------------------------------------------------------------------------
(* Commands that move between workspaces and outputs.                       *)

\* move workspace to output: workspace_move_to_output
NotEmpty(d, o) ==
  IF d.spaces[o] # <<>> THEN d ELSE RawFocus(CreateWorkspace(d, NextNumber(d), o), NextNumber(d))

FocusIn(d, w) == SetFocus(d, FocusInactive(d, w))

Relocate(d, w, o) ==
  LET there == ActiveWorkspace(DetachWorkspace(d, w), o)
  IN  FocusIn(Sort(ConsiderDestroy(NotEmpty(AddWorkspace(d, w, o), d.up[w]), there), o), w)

MoveWorkspace_KeepsHome(d, w, o) == Relocate(d, w, o)
MoveWorkspace(d, w, o) == RaisePriority(Relocate(d, w, o), w, d.up[w], o)

\* The output of a workspace that is created by name: workspace_get_initial_output
InitialOutput(d) ==
  IF FocusedWorkspace(d) # None THEN d.up[FocusedWorkspace(d)]
  ELSE IF d.outs # <<>> THEN Head(d.outs) ELSE Fallback

Named(d, w) == IF w \in d.live THEN d ELSE CreateWorkspace(d, w, InitialOutput(d))

\* workspace w: workspace_switch, without animations
SwitchTo(d, w) == FocusIn(Named(d, w), w)

=============================================================================
