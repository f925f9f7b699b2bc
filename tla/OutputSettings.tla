---------------------------- MODULE OutputSettings ----------------------------
(***************************************************************************)
(* What is configured for an output, and how the backend is made to show   *)
(* it: sway/config/output.c, as operators.                                 *)
(*                                                                         *)
(* A configuration is a function from the fields that it sets to their     *)
(* values, so that a field with its "unset" value is outside its domain.   *)
(* The fields that differ in what they do are kept: enabled, power, mode,  *)
(* turn (transform), sync (adaptive sync), bits (render bit depth) and bg  *)
(* (background).  The stored configurations are a list of records, of: the *)
(* pattern <<"any">>, <<"name", o>> or <<"id", o>> of the output o, and    *)
(* set.                                                                    *)
(*                                                                         *)
(* A mode is a number, the load it puts on the hardware; the backend can   *)
(* show a set of states when their loads fit in Capacity together.         *)
(***************************************************************************)
EXTENDS Naturals, FiniteSets, SequencesExt, FiniteSetsExt, Functions

CONSTANTS Outputs, None, ModesOf, SyncCapable, Deep, Capacity
ASSUME OutputAssumption ==
  /\ ModesOf \in [Outputs -> Seq(Nat \ {0})]
  /\ \A o \in Outputs : ModesOf[o] # <<>>
  /\ SyncCapable \subseteq Outputs /\ Deep \subseteq Outputs
  /\ Capacity \in Nat

-----------------------------------------------------------------------------
(* Stored configurations *)

Nothing == [f \in {} |-> 0]
Value(c, f, default) == IF f \in DOMAIN c THEN c[f] ELSE default

\* merge_output_config and supersede_output_config
Merge(dst, src) == src @@ dst
Supersede(dst, src) == Restrict(dst, DOMAIN dst \ DOMAIN src)

Every == <<"any">>
Pattern(kind, o) == <<kind, o>>

\* store_output_config, with the outputs that are plugged in
Store(list, p, c, plugged) ==
  LET hides(q) == \/ p = Every
                  \/ p[1] = "name" /\ p[2] \in plugged /\ q = Pattern("id", p[2])
      Stored(e) == IF e.of = p THEN [e EXCEPT !.set = Merge(@, c)]
                   ELSE IF hides(e.of) THEN [e EXCEPT !.set = Supersede(@, c)]
                   ELSE e
      stored == [i \in DOMAIN list |-> Stored(list[i])]
  IN  IF \E e \in ToSet(list) : e.of = p THEN stored
      ELSE Append(stored, [of |-> p, set |-> c])

\* find_output_config_from_list
FindConfig(list, o) ==
  LET of(p) == SelectSeq(list, LAMBDA e : e.of = p)
  IN  FoldLeft(LAMBDA c, e : Merge(c, e.set), Nothing,
               of(Every) \o of(Pattern("name", o)) \o of(Pattern("id", o)))

\* Is the pattern p one of the output o?
Covers(p, o) == p = Every \/ p[2] = o

\* spawn_swaybg: the arguments of the client
Backgrounds(list) ==
  LET with == SelectSeq(list, LAMBDA e : "bg" \in DOMAIN e.set)
  IN  [i \in DOMAIN with |-> <<with[i].of, with[i].set["bg"]>>]

-----------------------------------------------------------------------------
(* The subcommands of an output command: what each of them sets.  A file    *)
(* that cannot be read is an error unless a color is given as well.         *)

Enable == [enabled |-> 1]
Disable == [enabled |-> 0]
Power(v) == [power |-> v]
Mode(m) == [mode |-> m]
Transform(n) == [turn |-> n]
AdaptiveSync(v) == [sync |-> v]
RenderBitDepth(b) == [bits |-> b]
Background(file, color, readable) ==
  IF file \in readable THEN [bg |-> file] ELSE IF color # None THEN [bg |-> color] ELSE None

-----------------------------------------------------------------------------
(* What the backend is asked for *)

\* output_config_is_disabling
Disabling(c) == Value(c, "enabled", 1) = 0 \/ Value(c, "power", 1) = 0

\* bit_depth_from_format
Depth(fmt) == CASE fmt \in {"XR30", "XB30"} -> 10 [] fmt \in {"XR24", "AR24"} -> 8 [] fmt = "RG16" -> 6

Preferred(o) == Head(ModesOf[o])

\* set_mode: a mode that the output does not have is the preferred one.
ModeFor(c, o) ==
  IF Value(c, "mode", 0) \in ToSet(ModesOf[o]) THEN c["mode"] ELSE Preferred(o)

Dark(h) == [h EXCEPT !.lit = FALSE, !.mode = 0, !.sync = FALSE]
Showing(c, fmt, mode, sync) ==
  [lit |-> TRUE, fmt |-> fmt, mode |-> mode, sync |-> sync, turn |-> Value(c, "turn", 0)]

\* queue_output_config
Requested(c, o, h) ==
  LET bits == Value(c, "bits", 8)
      fmt == IF bits = 10 THEN (IF Depth(h.fmt) = 10 THEN h.fmt ELSE "XR30")
             ELSE IF bits = 6 THEN "RG16" ELSE "XR24"
  IN  IF Disabling(c) THEN Dark(h)
      ELSE Showing(c, fmt, ModeFor(c, o), o \in SyncCapable /\ Value(c, "sync", 0) = 1)

\* The backend, with the outputs plugged into it in the states st
\* (wlr_output_swapchain_manager_prepare)
Load(x) == IF ~x.lit THEN 0
           ELSE x.mode + (IF Depth(x.fmt) = 10 THEN 1 ELSE 0) + (IF x.sync THEN 1 ELSE 0)
Accepts(st) ==
  /\ \A o \in DOMAIN st : st[o].lit /\ Depth(st[o].fmt) = 10 => o \in Deep
  /\ MapThenSumSet(LAMBDA o : Load(st[o]), DOMAIN st) <= Capacity

-----------------------------------------------------------------------------
(* The search for states that work *)

\* search_render_format, search_mode and search_adaptive_sync: what is tried
\* for the output o, in order
Formats(c, o, h) ==
  LET deep == IF h.fmt = "XB30" THEN <<"XB30", "XR30">> ELSE <<"XR30", "XB30">>
  IN  SelectSeq(deep \o <<"XR24", "AR24", "RG16">>,
                LAMBDA f : Depth(f) <= Value(c, "bits", 8) /\ (Depth(f) = 10 => o \in Deep))
Modes(c, o) == IF "mode" \in DOMAIN c THEN <<ModeFor(c, o)>> ELSE ModesOf[o]
Syncs(c, o) == IF o \in SyncCapable /\ Value(c, "sync", 0) = 1 THEN <<TRUE, FALSE>> ELSE <<FALSE>>

Tries(c, o, h) ==
  LET Each(s, Op(_)) == FlattenSeq([i \in DOMAIN s |-> Op(s[i])])
  IN  Each(Formats(c, o, h), LAMBDA f :
        Each(Modes(c, o), LAMBDA m :
          Each(Syncs(c, o), LAMBDA y : <<Showing(c, f, m, y)>>)))

\* search_valid_config: an output that cannot work is turned off, if allowed.
Candidates_NeverOff(c, o, h, degrade) ==
  IF Disabling(c) THEN <<Dark(h)>> ELSE Tries(c, o, h)
Candidates(c, o, h, degrade) ==
  IF Disabling(c) THEN <<Dark(h)>>
  ELSE Tries(c, o, h) \o (IF degrade THEN <<Dark(h)>> ELSE <<>>)

\* The depth-first search with the outputs in the given order: the first
\* states, in the order of the candidates, such that the backend accepts them
\* for the outputs up to each one, with those after it off.  None: there are none.
Search(order, c, hw, degrade) ==
  LET off == [o \in ToSet(order) |-> Dark(hw[o])]
      Extend(sts, o) ==
        LET next == Candidates(c[o], o, hw[o], degrade)
            Of(st) == SelectSeq([i \in DOMAIN next |-> [st EXCEPT ![o] = next[i]]], Accepts)
        IN  FlattenSeq([i \in DOMAIN sts |-> Of(sts[i])])
      found == FoldLeft(Extend, <<off>>, order)
  IN  IF found = <<>> THEN None ELSE Head(found)

\* sort_output_configs_by_priority: the orders that the comparison allows.  It
\* does not tell apart two outputs that are on and stay so.
Rank_OffLast(o, c, on) == IF Disabling(c[o]) THEN 3 ELSE 2
Rank(o, c, on) == IF Disabling(c[o]) THEN 3 ELSE IF o \in on THEN 1 ELSE 2
Orders(plugged, c, on) ==
  {s \in SetToSeqs(plugged) :
     \A i, j \in DOMAIN s : i < j => Rank(s[i], c, on) <= Rank(s[j], c, on)}

\* apply_resolved_output_configs, up to the commit: what is asked for if it works
\* together, and otherwise what is found, None if nothing is.
Asked(order, c, hw) == [o \in ToSet(order) |-> Requested(c[o], o, hw[o])]
Works(order, c, hw) == Accepts(Asked(order, c, hw))
Resolve(order, c, hw, degrade) ==
  IF Works(order, c, hw) THEN Asked(order, c, hw) ELSE Search(order, c, hw, degrade)

=============================================================================
