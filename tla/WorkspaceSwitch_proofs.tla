----------------------- MODULE WorkspaceSwitch_proofs -----------------------
(***************************************************************************)
(* Proofs about animated workspace switches, for any workspaces, windows   *)
(* and length of the animation.                                            *)
(*                                                                         *)
(* Switches may replace each other, windows open and close, and commands   *)
(* select other animations meanwhile.  Undisturbed names what is excluded:  *)
(* the ways in which the code loses a switch or reads freed data.          *)
(***************************************************************************)
EXTENDS WorkspaceSwitch, TLAPS

\* While a switch is under way the windows it is about stay open and nobody asks for
\* the workspace that it leaves; a switch has a window or a new workspace to show; and
\* no command selects an animation path that is turned off, which would leave
\* the switch without a timer.
Undisturbed ==
  /\ Calm
  /\ "workspace_switch" \in Enabled =>
       {"window_open", "window_move", "window_size"} \subseteq Enabled

\* The switch under way leads from the focus to what was asked for last.
SwitchInv ==
  callback # None =>
    /\ callback.from = focus /\ callback.to = asked /\ asked \in exists
    /\ \A x \in callback.wins : life[x] = "live"
    /\ {"workspace_switch", path} \subseteq Enabled

SInv ==
  /\ TypeOK /\ FiltersFollowSwitch /\ SwitchHasFuture /\ EmptyWorkspacesGo
  /\ SwitchInv /\ focus \in exists

TInv == TypeOK /\ FiltersFollowSwitch

-----------------------------------------------------------------------------
(* Types and filters, in every environment *)

LEMMA InitTInv == Init => TInv
<1> SUFFICES ASSUME Init PROVE TInv
  OBVIOUS
<1>1. exists \subseteq Workspaces /\ asked \in Workspaces /\ focus \in Workspaces
  BY SwitchAssumption DEF Init
<1>2. step = 0 /\ timer = FALSE /\ edits = 0 /\ NSteps \in Nat /\ MaxEdits \in Nat
  BY SwitchAssumption DEF Init
<1>3. step \in 0 .. NSteps + 1 /\ edits \in 0 .. MaxEdits
  BY <1>2
<1> QED BY <1>1, <1>2, <1>3 DEF Init, TInv, TypeOK, FiltersFollowSwitch, Paths

LEMMA CommitType ==
  ASSUME TypeOK, NEW D \in SUBSET Nodes, Commit(D)
  PROVE  pending' \subseteq Nodes /\ queued' \subseteq Nodes
BY DEF Commit, TypeOK

LEMMA SwitchTInv ==
  ASSUME TInv, NEW w \in Workspaces, Switch(w) PROVE TInv'
<1> USE DEF TInv, Switch
<1>0. Skipped \subseteq Workspaces
  BY DEF Skipped, TypeOK, Switching
<1>1. edits' \in 0 .. MaxEdits /\ path' \in Paths /\ asked' \in Workspaces
  BY SwitchAssumption DEF TypeOK, Paths
<1>2. CASE AnimatedSwitch(w)
  <2> DEFINE data == [from |-> focus, to |-> w,
                      wins |-> Selected(focus) \cup Selected(w)]
  <2>1. data \in Switching /\ data.wins \subseteq Nodes
    BY DEF Switching, Selected, On, Nodes, TypeOK
  <2>2. callback' = data /\ filters' = data /\ exists' = exists \cup {w}
        /\ Commit(data.wins \cup ({w} \ exists)) /\ UNCHANGED focus
          /\ skipped' = Skipped \ {w}
    BY <1>2 DEF AnimatedSwitch
  <2>3. data.wins \cup ({w} \ exists) \in SUBSET Nodes
    BY <2>1 DEF Nodes
  <2> HIDE DEF data
  <2>4. pending' \subseteq Nodes /\ queued' \subseteq Nodes
    BY <2>2, <2>3, CommitType
  <2> QED BY <1>0, <1>1, <2>1, <2>2, <2>4 DEF TypeOK, FiltersFollowSwitch
<1>3. CASE PlainSwitch(w)
  <2>1. {w, focus} \cup On(w) \in SUBSET Nodes
    BY DEF On, Nodes, TypeOK
  <2>2. pending' \subseteq Nodes /\ queued' \subseteq Nodes
    BY <1>3, <2>1, CommitType DEF PlainSwitch
  <2> QED BY <1>1, <1>3, <2>2 DEF PlainSwitch, TypeOK, FiltersFollowSwitch
<1> QED BY <1>2, <1>3

LEMMA CommandTInv ==
  ASSUME TInv, (\E p \in Paths : Edit(p)) \/ \E x \in Windows : Open(x) \/ Close(x) PROVE TInv'
<1> USE DEF TInv
<1>1. ASSUME NEW p \in Paths, Edit(p) PROVE TInv'
  <2>1. {focus} \cup On(focus) \in SUBSET Nodes
    BY DEF On, Nodes, TypeOK
  <2>2. pending' \subseteq Nodes /\ queued' \subseteq Nodes
    BY <1>1, <2>1, CommitType DEF Edit
  <2> QED BY <1>1, <2>2, SwitchAssumption DEF Edit, TypeOK, FiltersFollowSwitch
<1>2. ASSUME NEW x \in Windows, Open(x) PROVE TInv'
  <2>1. {x, focus} \in SUBSET Nodes
    BY DEF Nodes, TypeOK
  <2>2. pending' \subseteq Nodes /\ queued' \subseteq Nodes
    BY <1>2, <2>1, CommitType DEF Open
  <2> QED BY <1>2, <2>2, SwitchAssumption DEF Open, TypeOK, FiltersFollowSwitch, Paths
<1>3. ASSUME NEW x \in Windows, Close(x) PROVE TInv'
  <2>1. {x, HomeOf[x]} \in SUBSET Nodes
    BY SwitchAssumption DEF Nodes
  <2>2. pending' \subseteq Nodes /\ queued' \subseteq Nodes
    BY <1>3, <2>1, CommitType DEF Close
  <2> QED BY <1>3, <2>2 DEF Close, TypeOK, FiltersFollowSwitch
<1> QED BY <1>1, <1>2, <1>3

LEMMA AnimationTInv ==
  ASSUME TInv, Apply \/ Tick \/ Last PROVE TInv'
<1> USE SwitchAssumption DEF TInv
<1>1. CASE Apply
  <2>0. 1 \in 0 .. NSteps + 1 /\ 1 \in 1 .. NSteps
    OBVIOUS
  <2>1. step' \in 0 .. NSteps + 1 /\ timer' \in BOOLEAN /\ (timer' => step' \in 1 .. NSteps)
    <3>1. CASE path \in Enabled
      BY <1>1, <2>0, <3>1 DEF Apply, NextKey
    <3>2. CASE path \notin Enabled
      BY <1>1, <3>2 DEF Apply, NextKey, TypeOK
    <3> QED BY <3>1, <3>2
  <2>2. life' \in [Windows -> {"none", "live", "closing"}]
    BY <1>1 DEF Apply, TypeOK
  <2> QED BY <1>1, <2>1, <2>2 DEF Apply, TypeOK, FiltersFollowSwitch
<1>2. CASE Tick
  BY <1>2 DEF Tick, MoreSteps, TypeOK, FiltersFollowSwitch
<1>3. CASE Last
  <2>1. timer' = FALSE /\ step' \in 0 .. NSteps + 1 /\ path' \in Paths
        /\ UNCHANGED <<asked, life, edits>>
    BY <1>3 DEF Last, MoreSteps, TypeOK, Paths
  <2>2. CASE callback = None
    BY <1>3, <2>1, <2>2 DEF Last, TypeOK, FiltersFollowSwitch
  <2>3. CASE callback # None
    <3>1. callback \in Switching
      BY <2>3 DEF TypeOK
    <3>2. callback.wins \cup {callback.from, callback.to} \in SUBSET Nodes
          /\ callback.to \in Workspaces
      BY <3>1 DEF Switching, Nodes
    <3>3. /\ focus' = callback.to /\ exists' \subseteq exists
          /\ skipped' \subseteq skipped
          /\ callback' = None /\ filters' = None
          /\ Commit(callback.wins \cup {callback.from, callback.to})
      BY <1>3, <2>3 DEF Last, SwitchEnd, FocusMoves, Reset
    <3>4. pending' \subseteq Nodes /\ queued' \subseteq Nodes
      BY <3>2, <3>3, CommitType
    <3> QED BY <2>1, <3>2, <3>3, <3>4 DEF TypeOK, FiltersFollowSwitch
  <2> QED BY <2>2, <2>3
<1> QED BY <1>1, <1>2, <1>3

LEMMA NextTInv == TInv /\ [Next]_vars => TInv'
<1> SUFFICES ASSUME TInv, [Next]_vars PROVE TInv'
  OBVIOUS
<1>1. CASE UNCHANGED vars
  BY <1>1 DEF TInv, TypeOK, FiltersFollowSwitch, vars
<1>2. TypeOK => {path, "window_move", "window_size"} \subseteq Paths
  BY DEF TypeOK, Paths
<1> QED BY <1>1, <1>2, SwitchTInv, CommandTInv, AnimationTInv DEF Next, TInv

-----------------------------------------------------------------------------
(* Switches that nothing disturbs *)

LEMMA InitSInv == Init => SInv
<1> SUFFICES ASSUME Init PROVE SInv
  OBVIOUS
<1>1. TypeOK /\ FiltersFollowSwitch
  BY InitTInv DEF TInv
<1>2. SwitchHasFuture /\ SwitchInv /\ focus \in exists
  BY DEF Init, SwitchHasFuture, SwitchInv
<1>3. EmptyWorkspacesGo
  <2> SUFFICES ASSUME NEW w \in exists, w # focus PROVE On(w) # {}
    BY DEF EmptyWorkspacesGo
  <2>1. PICK x \in Windows : w = HomeOf[x]
    BY DEF Init
  <2> QED BY <2>1 DEF Init, On
<1> QED BY <1>1, <1>2, <1>3 DEF SInv

LEMMA SwitchSInv ==
  ASSUME Undisturbed, SInv, NEW w \in Workspaces, Switch(w) PROVE SInv'
<1> USE DEF SInv
<1>1. TypeOK' /\ FiltersFollowSwitch'
  BY SwitchTInv DEF TInv
<1>2. /\ callback # None => w # focus
      /\ w \in exists /\ w # focus => Selected(focus) \cup Selected(w) # {}
  BY DEF Switch, MaySwitch, Undisturbed
<1>3. CASE AnimatedSwitch(w)
  <2> DEFINE data == [from |-> focus, to |-> w,
                      wins |-> Selected(focus) \cup Selected(w)]
             D == data.wins \cup ({w} \ exists)
  <2>1. /\ w # focus /\ "workspace_switch" \in Enabled /\ callback' = data
        /\ exists' = exists \cup {w} /\ Commit(D) /\ focus' = focus
        /\ skipped' = Skipped \ {w}
        /\ asked' = w /\ path' = "workspace_switch" /\ UNCHANGED <<life, timer>>
    BY <1>3 DEF AnimatedSwitch, Switch
  <2>2. D # {}
    BY <1>2, <2>1
  <2>3. SwitchHasFuture'
    BY <2>1, <2>2 DEF SwitchHasFuture, Commit
  <2>4. \A v : On(v)' = On(v)
    BY <2>1 DEF On
  <2>5. callback' # None /\ callback'.to = w
    <3>1. data \in Switching
      BY DEF Switching, Selected, On, TypeOK
    <3> QED BY <2>1, <3>1, SwitchAssumption
  <2>6. EmptyWorkspacesGo'
    <3> SUFFICES ASSUME NEW v \in exists, v # w, v # focus, On(v) = {}
                 PROVE  v \in Skipped
      BY <2>1, <2>4, <2>5 DEF EmptyWorkspacesGo
    <3> QED BY DEF EmptyWorkspacesGo, Skipped
  <2>7. \A x \in data.wins : life[x] = "live"
    BY DEF Selected, On
  <2>8. SwitchInv' /\ focus' \in exists'
    BY <2>1, <2>7 DEF SwitchInv
  <2> QED BY <1>1, <2>3, <2>6, <2>8
<1>4. CASE PlainSwitch(w)
  <2>0. callback = None
    <3>1. CASE w = focus
      BY <1>2, <3>1
    <3>2. CASE "workspace_switch" \notin Enabled
      BY <3>2 DEF SwitchInv
    <3> QED BY <1>4, <3>1, <3>2 DEF PlainSwitch
  <2>1. /\ focus' = w /\ callback' = None /\ UNCHANGED life
        /\ exists' = (exists \cup {w}) \ Destroyed(focus, On(focus), w)
        /\ skipped' = (skipped \cap exists') \ {w}
    BY <1>4, <2>0 DEF PlainSwitch, Switch
  <2>2. \A v : On(v)' = On(v)
    BY <2>1 DEF On
  <2>3. EmptyWorkspacesGo' /\ focus' \in exists'
    BY <2>0, <2>1, <2>2 DEF EmptyWorkspacesGo, Destroyed
  <2> QED BY <1>1, <2>1, <2>3 DEF SwitchHasFuture, SwitchInv
<1> QED BY <1>3, <1>4 DEF Switch

LEMMA CommandSInv ==
  ASSUME Undisturbed, SInv,
         \/ \E p \in {path, "window_move", "window_size"} : Edit(p)
         \/ \E x \in Windows : Open(x) \/ Close(x)
  PROVE  SInv'
<1> USE DEF SInv
<1>1. TypeOK' /\ FiltersFollowSwitch'
  <2>1. {path, "window_move", "window_size"} \subseteq Paths
    BY DEF TypeOK, Paths
  <2> QED BY <2>1, CommandTInv DEF TInv
<1>2. ASSUME NEW p \in {path, "window_move", "window_size"}, Edit(p) PROVE SInv'
  <2>1. SwitchHasFuture'
    BY <1>2 DEF Edit, Commit, SwitchHasFuture
  <2>2. EmptyWorkspacesGo' /\ focus' \in exists'
    BY <1>2 DEF Edit, EmptyWorkspacesGo, On
  <2>3. SwitchInv'
    BY <1>2 DEF Edit, SwitchInv, Undisturbed
  <2> QED BY <1>1, <2>1, <2>2, <2>3
<1>3. ASSUME NEW x \in Windows, Open(x) PROVE SInv'
  <2>1. SwitchHasFuture'
    BY <1>3 DEF Open, Commit, SwitchHasFuture
  <2>2. \A v : On(v) \subseteq On(v)'
    BY <1>3 DEF Open, On, TypeOK
  <2>3. EmptyWorkspacesGo' /\ focus' \in exists'
    BY <1>3, <2>2 DEF Open, EmptyWorkspacesGo
  <2>4. SwitchInv'
    BY <1>3 DEF Open, SwitchInv, Undisturbed, TypeOK, Switching
  <2> QED BY <1>1, <2>1, <2>3, <2>4
<1>4. ASSUME NEW x \in Windows, Close(x) PROVE SInv'
  <2> DEFINE w == HomeOf[x]
  <2>1. callback # None => x \notin callback.wins /\ w # callback.to
    BY <1>4 DEF Close, MayClose, Undisturbed
  <2>2. /\ exists' = exists \ Destroyed(w, On(w) \ {x}, focus)
        /\ skipped' = skipped \cap exists'
        /\ UNCHANGED <<asked, focus, callback, path>>
        /\ \A y \in Windows : y # x => life'[y] = life[y]
        /\ queued' # {}
    BY <1>4 DEF Close, TypeOK, Commit
  <2>3. \A v : On(v)' = IF v = w THEN On(v) \ {x} ELSE On(v)
    BY <1>4 DEF Close, On, TypeOK
  <2>4. EmptyWorkspacesGo' /\ focus' \in exists'
    BY <2>2, <2>3 DEF EmptyWorkspacesGo, Destroyed
  <2>5. callback # None => callback.wins \subseteq Windows
    BY DEF TypeOK, Switching
  <2>6. SwitchInv'
    BY <2>1, <2>2, <2>5 DEF SwitchInv, Destroyed
  <2> QED BY <1>1, <2>2, <2>4, <2>6 DEF SwitchHasFuture
<1> QED BY <1>2, <1>3, <1>4

LEMMA AnimationSInv ==
  ASSUME SInv, Apply \/ Tick \/ Last PROVE SInv'
<1> USE DEF SInv
<1>1. TypeOK' /\ FiltersFollowSwitch'
  BY AnimationTInv DEF TInv
<1>2. CASE Apply
  <2>1. \A x \in Windows : life[x] = "live" <=> life'[x] = "live"
    BY <1>2 DEF Apply
  <2>2. \A v : On(v)' = On(v)
    BY <2>1 DEF On
  <2>3. EmptyWorkspacesGo' /\ focus' \in exists'
    BY <1>2, <2>2 DEF Apply, EmptyWorkspacesGo
  <2>4. SwitchHasFuture'
    BY <1>2 DEF Apply, NextKey, SwitchHasFuture, SwitchInv
  <2>5. callback # None => callback.wins \subseteq Windows
    BY DEF TypeOK, Switching
  <2>6. SwitchInv'
    BY <1>2, <2>1, <2>5 DEF Apply, SwitchInv
  <2> QED BY <1>1, <2>3, <2>4, <2>6
<1>3. CASE Tick
  <2>1. SwitchHasFuture' /\ SwitchInv'
    BY <1>3 DEF Tick, SwitchHasFuture, SwitchInv
  <2>2. EmptyWorkspacesGo' /\ focus' \in exists'
    BY <1>3 DEF Tick, EmptyWorkspacesGo, On
  <2> QED BY <1>1, <2>1, <2>2
<1>4. CASE Last
  <2>1. \A v : On(v)' = On(v)
    BY <1>4 DEF Last, On
  <2>2. CASE callback = None
    <3>1. UNCHANGED <<focus, exists, callback, skipped>>
      BY <1>4, <2>2 DEF Last
    <3>2. EmptyWorkspacesGo' /\ focus' \in exists'
      BY <2>1, <2>2, <3>1 DEF EmptyWorkspacesGo
    <3> QED BY <1>1, <2>2, <3>1, <3>2 DEF SwitchHasFuture, SwitchInv
  <2>3. CASE callback # None
    <3>1. /\ callback' = None /\ focus' = callback.to
          /\ exists' = exists \ Destroyed(focus, On(focus), callback.to)
          /\ skipped' = (skipped \cap exists') \ {callback.to}
      BY <1>4, <2>3 DEF Last, SwitchEnd, FocusMoves, Reset
    <3>2. focus' \in exists'
      BY <2>3, <3>1 DEF SwitchInv, Destroyed
    <3>3. EmptyWorkspacesGo'
      BY <2>1, <3>1 DEF EmptyWorkspacesGo, Destroyed
    <3> QED BY <1>1, <3>1, <3>2, <3>3 DEF SwitchHasFuture, SwitchInv
  <2> QED BY <2>2, <2>3
<1> QED BY <1>2, <1>3, <1>4

LEMMA NextSInv == Undisturbed /\ SInv /\ [Next]_vars => SInv'
<1> SUFFICES ASSUME Undisturbed, SInv, [Next]_vars PROVE SInv'
  OBVIOUS
<1>1. CASE UNCHANGED vars
  BY <1>1 DEF SInv, TypeOK, FiltersFollowSwitch, SwitchHasFuture, EmptyWorkspacesGo,
              SwitchInv, On, vars
<1> QED BY <1>1, SwitchSInv, CommandSInv, AnimationSInv DEF Next

\* Whatever windows open or close, whichever commands run and however often another
\* workspace is asked for meanwhile, a switch is not forgotten, reads no freed data,
\* and leaves no empty workspace behind (workspace_switch,
\* workspace_switch_callback_end, workspace_consider_destroy).
THEOREM SwitchCorrect == ASSUME Undisturbed PROVE Spec => []SwitchSound
<1>1. SInv /\ [Next]_vars => SInv'
  BY NextSInv
<1>2. SInv => SwitchSound
  BY DEF SInv, SwitchSound, CallbackDataAlive, SwitchInv
<1> QED BY <1>1, <1>2, InitSInv, PTL DEF Spec

\* The focus only ever moves to the workspace that was asked for last, also when that
\* replaced a switch under way (animate_workspace_switch).
THEOREM FocusCorrect == ASSUME Undisturbed PROVE Spec => FocusFollowsRequest
<1>1. SInv /\ [Next]_vars => SInv'
  BY NextSInv
<1>2. SInv /\ [Next]_vars => [focus' # focus => focus' = asked']_vars
  <2> SUFFICES ASSUME SInv, Next, focus' # focus PROVE focus' = asked'
    OBVIOUS
  <2>1. ASSUME NEW w \in Workspaces, Switch(w) PROVE focus' = asked'
    BY <2>1 DEF Switch, AnimatedSwitch, PlainSwitch
  <2>2. CASE Last
    BY <2>2 DEF Last, SwitchEnd, FocusMoves, SInv, SwitchInv
  <2>3. CASE \/ Apply \/ Tick \/ \E p \in {path, "window_move", "window_size"} : Edit(p)
             \/ \E x \in Windows : Open(x) \/ Close(x)
    BY <2>3 DEF Edit, Apply, Tick, Open, Close
  <2> QED BY <2>1, <2>2, <2>3 DEF Next
<1> QED BY <1>1, <1>2, InitSInv, PTL DEF Spec, FocusFollowsRequest
=============================================================================
