---------------------------- MODULE Configuration ----------------------------
(***************************************************************************)
(* The configuration of scroll and of its outputs: loading and reloading   *)
(* the files (sway/config.c, sway/commands/reload.c, main of sway/main.c), *)
(* the output commands (sway/commands/output.c and sway/commands/output/), *)
(* and everything that asks for a modeset (sway/desktop/output.c): outputs *)
(* that are plugged and unplugged, clients of the output management and    *)
(* power management protocols, the timer that delays modesets, and the     *)
(* wallpaper client.                                                       *)
(*                                                                         *)
(* g is what the compositor knows:                                         *)
(*   active    config->active: the server has started                      *)
(*   file      the main file on disk                                       *)
(*   stored    config->output_configs                                      *)
(*   plugged   root->all_outputs; on: those in the layout (enabled)        *)
(*   hw        what the backend shows on each output                       *)
(*   timer     server.delayed_modeset is armed                             *)
(*   idle      reloads that wait for the event loop to be idle             *)
(*   bg        arguments of the running swaybg, None when there is none    *)
(* and, for the properties only:                                           *)
(*   said      what was last said of each output, whatever it was called   *)
(*   used      the configuration last tried for each output                *)
(*   done      the hardware did not fail in the last modeset               *)
(*   ran, loads   the programs that were run, the main files loaded        *)
(* Workspaces that move with their outputs are in OutputOps.               *)
(***************************************************************************)
EXTENDS OutputSettings, TLC

CONSTANTS Files, Scenes

VARIABLES g, scene, budget, did
vars == <<g, scene, budget, did>>

New == [lit |-> FALSE, fmt |-> "XR24", mode |-> 0, sync |-> FALSE, turn |-> 0]

-----------------------------------------------------------------------------
(* Modesets *)

ConfigsIn(h, list) == [o \in h.plugged |-> FindConfig(list, o)]

\* finalize_output_config: an output that is only switched off stays in the layout.
Finalize_ByPower(on, c) == (on \ DOMAIN c) \cup {o \in DOMAIN c : ~Disabling(c[o])}
Finalize(on, c) == (on \ DOMAIN c) \cup {o \in DOMAIN c : Value(c[o], "enabled", 1) # 0}

\* apply_output_configs.  A test ends before the commit, and so does a frame that
\* cannot be built for it: then what is returned is whether what was asked for works,
\* not what was found instead.
Attempt(h, list, order, degrade, outcome) ==
  LET c == ConfigsIn(h, list)
      st == Resolve(order, c, h.hw, degrade)
  IN  CASE st = None \/ outcome = "commit" -> [ok |-> FALSE, h |-> h]
        [] st # None /\ outcome \in {"test", "build"} -> [ok |-> Works(order, c, h.hw), h |-> h]
        [] st # None /\ outcome = "ok" ->
             [ok |-> TRUE, h |-> [h EXCEPT !.hw = st @@ @, !.on = Finalize(@, c)]]

Using(h, list) == [o \in Outputs |-> IF o \in h.plugged THEN FindConfig(list, o) ELSE None]

\* apply_stored_output_configs, by timer_modeset_handle or force_modeset
ApplyStored(h, order, outcome) ==
  LET a == Attempt(h, h.stored, order, TRUE, outcome)
  IN  [a.h EXCEPT !.used = Using(h, h.stored), !.done = outcome = "ok", !.timer = FALSE]

OrdersOf(h, list) == Orders(h.plugged, ConfigsIn(h, list), h.on)

\* force_modeset, with the outcomes that the scene allows
Forced(h) ==
  \E order \in OrdersOf(h, h.stored), outcome \in scene.outcomes : g' = ApplyStored(h, order, outcome)

\* The end of a message in ipc_client_handle_command: a modeset does not wait.
Finished(h) == IF h.timer THEN Forced(h) ELSE g' = h

\* request_modeset
Request(h) == [h EXCEPT !.timer = TRUE]

\* Store what was said of an output.
Tell(said, p, c) == [o \in Outputs |-> IF Covers(p, o) THEN Merge(said[o], c) ELSE said[o]]
Keep(h, p, c) ==
  [h EXCEPT !.stored = Store(@, p, c, h.plugged), !.said = Tell(@, p, c)]

\* spawn_swaybg: the client that runs is killed first.
Spawn(h) == [h EXCEPT !.bg = Backgrounds(h.stored)]

-----------------------------------------------------------------------------
(* Loading the files *)

Fresh(h) == [h EXCEPT !.stored = <<>>, !.said = [o \in Outputs |-> Nothing]]

\* cmd_exec and cmd_exec_always: what is done with a program, how being the
\* kind of load
Deferred(kind, how) == how # "reload"
RunsNow_Again(kind, how) == how = "reload"
RunsNow(kind, how) == how = "reload" /\ kind = "always"

\* load_include_config and read_config.  l is the compositor h being loaded,
\* with the queue of deferred commands and the chain of files read so far.
RECURSIVE Read(_, _, _)
Line(l, line, how) ==
  IF line[1] = "output" THEN [l EXCEPT !.h = Keep(@, line[2], line[3])]
  ELSE IF line[1] = "include" THEN IF line[2] \in l.chain THEN l ELSE Read(l, line[2], how)
  ELSE IF Deferred(line[1], how) THEN [l EXCEPT !.queue = Append(@, line[2])]
  ELSE IF RunsNow(line[1], how) THEN [l EXCEPT !.h.ran = Append(@, line[2])] ELSE l
Read(l, f, how) ==
  FoldLeft(LAMBDA m, line : Line(m, line, how), [l EXCEPT !.chain = @ \cup {f}], Files[f])

\* load_main_config: the new configuration starts from the defaults.
LoadMain(h, how) ==
  LET l == Read([h |-> Fresh(h), queue |-> <<>>, chain |-> {}], h.file, how)
  IN  [l EXCEPT !.h = Spawn([@ EXCEPT !.loads = Append(@, h.file)])]

\* main, from load_main_config: the outputs appear once the file is read, and
\* the deferred commands run after the first modeset.
Start ==
  /\ ~g.active
  /\ LET l == LoadMain(g, "start")
         started == [l.h EXCEPT !.active = TRUE, !.plugged = scene.first]
         ran(h) == [h EXCEPT !.ran = l.queue]   \* run_deferred_commands
     IN  \E order \in OrdersOf(started, started.stored), outcome \in scene.outcomes :
           g' = ran(ApplyStored(started, order, outcome))
  /\ did' = <<"start">>
  /\ UNCHANGED <<scene, budget>>

\* The user edits the main file.
EditFile(f) ==
  /\ f # g.file
  /\ g' = [g EXCEPT !.file = f]
  /\ did' = <<"edit">>

\* cmd_reload: the file is read for errors, in a configuration of its own
\* that is dropped, and the reload waits for the event loop.
Reload ==
  /\ Finished([g EXCEPT !.idle = @ + 1])
  /\ did' = <<"reload">>

\* do_reload
DoReload ==
  /\ g.idle > 0
  /\ g' = Request([LoadMain(g, "reload").h EXCEPT !.idle = @ - 1])
  /\ did' = <<"loaded">>
  /\ UNCHANGED <<scene, budget>>

-----------------------------------------------------------------------------
(* Output commands *)

\* cmd_output, once its subcommands have set c
Configured(p, c) ==
  LET h == Request(Keep(g, p, c)) IN IF "bg" \in DOMAIN c THEN Spawn(h) ELSE h

\* execute_command, for a client of the IPC socket or for a binding, whose
\* modeset waits for the timer
Done(h, via) ==
  /\ IF via = "ipc" THEN Finished(h) ELSE g' = h
  /\ did' = <<"output", via>>

\* What is stored by the identifier of an output hides what is stored by its name; it
\* gives way when that is stored, but not while the output is away, and too late for a
\* client whose configuration is tried first.  Both are left out without "hidden" (see
\* the README): the identifier leaves alone what c sets.
Unhidden(o, c) ==
  "hidden" \in scene.acts \/
  \A e \in ToSet(g.stored) : e.of = Pattern("id", o) =>
    \A f \in DOMAIN e.set \cap DOMAIN c : e.set[f] = c[f]

\* One subcommand that fails makes the others count for nothing.
OutputCommand(p, subcommands, via) ==
  LET c == FoldLeft(Merge, Nothing, subcommands)
  IN  /\ p[1] = "name" /\ p[2] \notin g.plugged => Unhidden(p[2], c)
      /\ Done(IF None \in ToSet(subcommands) THEN g ELSE Configured(p, c), via)

\* Subcommands relative to the present: of what is stored, or of what the
\* output shows.  The output must be there.
ToggleEnabled(o) == IF Value(FindConfig(g.stored, o), "enabled", 1) # 0 THEN Disable ELSE Enable
TogglePower(o) == Power(IF o \in g.on /\ ~g.hw[o].lit THEN 1 ELSE 0)
ToggleSync(o) == AdaptiveSync(IF g.hw[o].sync THEN 0 ELSE 1)
Clockwise(o) == Transform((g.hw[o].turn + 1) % 4)
RelativeCommand(p, via) ==
  /\ p # Every /\ p[2] \in g.plugged
  /\ \E c \in {ToggleEnabled(p[2]), TogglePower(p[2]), ToggleSync(p[2]), Clockwise(p[2])} :
       Done(Configured(p, c), via)

\* begin_destroy
Unplugged(o) ==
  Request([g EXCEPT !.plugged = @ \ {o}, !.on = @ \ {o}, !.hw[o] = New, !.used[o] = None])

\* output_cmd_unplug
UnplugCommand(o) ==
  /\ o \in g.plugged
  /\ Finished(Unplugged(o))
  /\ did' = <<"unplug">>

-----------------------------------------------------------------------------
(* The hardware and the clients *)

\* handle_new_output
Plug(o) ==
  /\ o \notin g.plugged
  /\ g' = Request([g EXCEPT !.plugged = @ \cup {o}])
  /\ did' = <<"plug", o>>

\* handle_destroy
Unplug(o) ==
  /\ o \in g.plugged
  /\ g' = Unplugged(o)
  /\ did' = <<"unplug">>

\* timer_modeset_handle
TimerFires ==
  /\ g.active /\ g.timer
  /\ Forced(g)
  /\ did' = <<"modeset">>
  /\ UNCHANGED <<scene, budget>>

\* handle_request_state: the window of a nested output is resized.
RequestState(o, m) ==
  /\ o \in g.plugged
  /\ Forced(Keep(g, Pattern("name", o), Mode(m)))
  /\ did' = <<"request">>

\* handle_output_power_manager_set_mode
PowerMode(o, on) ==
  /\ o \in g.plugged
  /\ g' = Request(Keep(g, Pattern("name", o), Power(on)))
  /\ did' = <<"power">>

\* output_manager_apply: the configuration of a client is tried on top of
\* what is stored, without turning an output off that does not work.
HeadEntries(heads) ==
  LET s == SetToSeq(DOMAIN heads)
  IN  [i \in DOMAIN s |-> [of |-> Pattern("name", s[i]), set |-> heads[s[i]]]]

ManagerApply(heads) ==
  LET list == g.stored \o HeadEntries(heads)
      Stored(h) == FoldLeft(LAMBDA k, e : Keep(k, e.of, e.set), h, HeadEntries(heads))
  IN  /\ \A o \in DOMAIN heads : Unhidden(o, heads[o])
      /\ \E order \in OrdersOf(g, list), outcome \in scene.outcomes :
           LET a == Attempt(g, list, order, FALSE, outcome)
           IN  g' = IF ~a.ok THEN g
                    ELSE [Stored(a.h) EXCEPT !.used = Using(g, list), !.done = outcome = "ok", !.timer = FALSE]
      /\ did' = <<"apply">>

\* A test that succeeds forgets the modeset that waits: that is left out without
\* "forget" (see the README).
ManagerTest(heads) ==
  LET list == g.stored \o HeadEntries(heads)
  IN  /\ \E order \in OrdersOf(g, list) :
           LET a == Attempt(g, list, order, FALSE, "test")
           IN  /\ a.ok /\ g.timer => "forget" \in scene.acts
               /\ g' = IF a.ok THEN [g EXCEPT !.timer = FALSE] ELSE g
      /\ did' = <<"test">>

\* handle_swaybg_client_destroy
SwaybgDies ==
  /\ g.bg # None
  /\ g' = [g EXCEPT !.bg = None]
  /\ did' = <<"swaybg">>

HeadsOf(c) == [g.plugged -> c]

-----------------------------------------------------------------------------
InitialState(s) ==
  [active |-> FALSE, file |-> s.file, stored |-> <<>>, plugged |-> {}, on |-> {},
   hw |-> [o \in Outputs |-> New], timer |-> FALSE, idle |-> 0, bg |-> None,
   said |-> [o \in Outputs |-> Nothing], used |-> [o \in Outputs |-> None],
   done |-> FALSE, ran |-> <<>>, loads |-> <<>>]

Init ==
  /\ scene \in Scenes
  /\ g = InitialState(scene)
  /\ budget = scene.most
  /\ did = <<"none">>

Event ==
  \/ /\ "command" \in scene.acts
     /\ \E x \in scene.commands, via \in scene.via : OutputCommand(x[1], x[2], via)
  \/ /\ "toggle" \in scene.acts
     /\ \E o \in Outputs, via \in scene.via : RelativeCommand(Pattern("name", o), via)
  \/ /\ "unplug command" \in scene.acts
     /\ \E o \in Outputs : UnplugCommand(o)
  \/ /\ "plug" \in scene.acts
     /\ \E o \in Outputs : Plug(o) \/ Unplug(o)
  \/ /\ "request" \in scene.acts
     /\ \E o \in Outputs : \E m \in ToSet(ModesOf[o]) : RequestState(o, m)
  \/ /\ "power" \in scene.acts
     /\ \E o \in Outputs, on \in {0, 1} : PowerMode(o, on)
  \/ /\ "manager" \in scene.acts
     /\ \E heads \in HeadsOf(scene.heads) : ManagerApply(heads)
  \/ /\ "test" \in scene.acts
     /\ \E heads \in HeadsOf(scene.heads) : ManagerTest(heads)
  \/ /\ "reload" \in scene.acts
     /\ \/ g.idle = 0 /\ Reload
        \/ \E f \in scene.edits : EditFile(f)
  \/ /\ "swaybg" \in scene.acts
     /\ SwaybgDies

User ==
  /\ g.active /\ budget > 0
  /\ budget' = budget - 1
  /\ UNCHANGED scene
  /\ Event

Next == User \/ Start \/ TimerFires \/ DoReload

Spec == Init /\ [][Next]_vars

-----------------------------------------------------------------------------
(* Properties *)

\* What was said last of an output, by its name, by its identifier, for every
\* output or by a client, is what is found for it, field by field
\* (store_output_config and find_output_config_from_list).
LastWordWins == \A o \in Outputs : FindConfig(g.stored, o) = g.said[o]

\* No change is forgotten: unless a modeset waits, what was last tried for every output
\* is what is stored for it; if the hardware did not fail then, those and only those
\* that are enabled are in the layout and nothing is lit that should be off.  The
\* wallpaper client shows the backgrounds that are stored (request_modeset,
\* output_manager_apply, spawn_swaybg).
StoredInUse ==
  /\ g.active /\ ~g.timer =>
       \A o \in g.plugged :
         LET c == FindConfig(g.stored, o)
         IN  /\ g.used[o] = c
             /\ g.done => /\ o \in g.on <=> Value(c, "enabled", 1) # 0
                          /\ g.hw[o].lit => ~Disabling(c)
  /\ g.bg \in {None, Backgrounds(g.stored)}

\* config/output.c: what was said last of an output is found for it, and is in use.
SettingsApplied == LastWordWins /\ StoredInUse

\* Whatever the outputs ask for together, one of them shows something after a
\* modeset if one of them can work alone (search_valid_config).
Fits(o) ==
  LET c == FindConfig(g.stored, o)
  IN  ~Disabling(c) /\ \E m \in ToSet(Modes(c, o)) : m <= Capacity
NoBlackout ==
  g.active /\ ~g.timer /\ g.done /\ (\E o \in g.plugged : Fits(o)) =>
    \E o \in g.plugged : g.hw[o].lit

\* The only output in the layout, if it works, is not turned off by one that comes to be
\* enabled, when its own configuration did not change (sort_output_configs_by_priority).
\* Outputs that an earlier search turned off are in the layout, and compete with it.
NewcomersWait ==
  [][did'[1] = "modeset" =>
       \A o \in g.plugged :
         g.done /\ g.on = {o} /\ g.hw[o].lit /\ g.used[o] = FindConfig(g.stored, o) => g'.hw[o].lit]_vars

\* The programs of a file and of those that it includes, in any number of
\* ways, run once when the server starts, and those of exec_always once for
\* each reload (run_deferred_commands, load_include_config).
IncludedBy(S) == S \cup {line[2] : line \in {x \in UNION {ToSet(Files[f]) : f \in S} : x[1] = "include"}}
ReadWith(f) == FoldLeft(LAMBDA S, i : IncludedBy(S), {f}, [i \in 1..Cardinality(DOMAIN Files) |-> i])
Programs(kinds, f) ==
  {line[2] : line \in {x \in UNION {ToSet(Files[e]) : e \in ReadWith(f)} : x[1] \in kinds}}
RunOnce ==
  g.active =>
    \A x \in UNION {Programs({"exec", "always"}, f) : f \in DOMAIN Files} :
      Len(SelectSeq(g.ran, LAMBDA y : y = x)) =
        Len(SelectSeq(Tail(g.loads), LAMBDA f : x \in Programs({"always"}, f)))
        + (IF x \in Programs({"exec", "always"}, Head(g.loads)) THEN 1 ELSE 0)

=============================================================================
