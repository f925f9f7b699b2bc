-------------------------------- MODULE Strip --------------------------------
(***************************************************************************)
(* Where the members of a list of containers are put along one axis: the   *)
(* columns of a workspace along its row, and the windows of a column       *)
(* across it (sway/desktop/transaction.c, sway/commands/fit_size.c,        *)
(* sway/tree/layout.c).  The code has one copy of each function for every  *)
(* axis; a strip s is what both are about:                                 *)
(*   beg, len   the viewport: where it begins and its length               *)
(*   gap        the inner gap, on both sides of every member               *)
(*   scale      the scale of the workspace, as a ratio                     *)
(*   sizes      the lengths of the members, unscaled and without gaps      *)
(*   upto       upto[i + 1] is the scaled length of the first i members    *)
(* Lengths are whole numbers of a unit of which Pixel make a pixel.        *)
(***************************************************************************)
EXTENDS Integers, Sequences, SequencesExt

CONSTANT Pixel

ASSUME PixelAssumption == Pixel \in Nat \ {0}

Times(scale, v) == (v * scale[1]) \div scale[2]

NewStrip(beg, len, gap, scale, sizes) ==
  [beg |-> beg, len |-> len, gap |-> gap, scale |-> scale, sizes |-> sizes,
   upto |-> FoldLeft(LAMBDA acc, v : Append(acc, Last(acc) + Times(scale, v + 2 * gap)),
                     <<0>>, sizes)]

Scaled(s, v) == Times(s.scale, v)
Size(s) == Len(s.sizes)
End(s) == s.beg + s.len
\* The length that members i to j take, with their gaps.
Span(s, i, j) == s.upto[j + 1] - s.upto[i]
Total(s) == Span(s, 1, Size(s))
Upward(i, j) == [k \in 1..(j - i + 1) |-> i + k - 1]
Downward(i, j) == Reverse(Upward(j, i))
AbsDiff(a, b) == IF a < b THEN b - a ELSE a - b

\* The first of the positions ps that is at the least distance of x.
Nearest(ps, x) ==
  FoldLeft(LAMBDA best, p : IF AbsDiff(p, x) < AbsDiff(best, x) THEN p ELSE best,
           Head(ps), Tail(ps))

-----------------------------------------------------------------------------
(* The row without a pin *)

\* Members a to c seem to fit: the code counts one gap between neighbours.
FitsAfter(s, a, c) ==
  Span(s, a, c) - (c - a) * Scaled(s, s.gap) =< s.len + Pixel
FitsBefore(s, a, c) ==
  Span(s, c, a) - (a - c) * Scaled(s, s.gap) =< s.len + Pixel

\* A variant: the walk may begin before the viewport.
AtRight_EmptySpace(s, a) ==
  LET cs == SelectSeq(Upward(a, Size(s)), LAMBDA c : FitsAfter(s, a, c))
  IN  [k \in 1..Len(cs) |-> End(s) - Span(s, a, cs[k]) + Scaled(s, s.gap)]

\* Where a comes when member c, at or after it, ends at the end of the viewport,
\* if that leaves no empty space before and the walk back reaches a.
AtRight(s, a) ==
  LET cs == SelectSeq(Upward(a, Size(s)),
                      LAMBDA c : /\ FitsAfter(s, a, c)
                                 /\ Span(s, a + 1, c) =< s.len + Pixel
                                 /\ Span(s, 1, c) >= s.len + Pixel)
  IN  [k \in 1..Len(cs) |-> End(s) - Span(s, a, cs[k]) + Scaled(s, s.gap)]

\* The same for a member c, at or before a, at the beginning of the viewport.
AtLeft(s, a) ==
  LET cs == SelectSeq(Downward(a, 1),
                      LAMBDA c : /\ FitsBefore(s, a, c)
                                 /\ Span(s, c, a - 1) =< s.len + Pixel
                                 /\ Span(s, c, Size(s)) >= s.len + Pixel)
  IN  [k \in 1..Len(cs) |-> s.beg + Span(s, cs[k], a - 1) + Scaled(s, s.gap)]

\* A variant: the first place that fits, not the nearest.
ActivePosition_First(s, a, x) ==
  LET ps == AtRight(s, a) \o AtLeft(s, a) IN IF ps = <<>> THEN x ELSE Head(ps)

\* get_active_position
ActivePosition(s, a, x) ==
  LET ps == AtRight(s, a) \o AtLeft(s, a)
  IN  IF ps = <<>> THEN x ELSE Nearest(ps, x)

-----------------------------------------------------------------------------
(* The row with a pin p; a result has the position of the active member and *)
(* the member next to which the pin is moved, 0 for none                    *)

Unpinned(s, p, i, j) ==
  Span(s, i, j) - (IF p \in i..j THEN Span(s, p, p) ELSE 0)

\* The position of a when members c to a are between the pin, at the beginning,
\* and the rest; members a to c when it is at the end.
BesidePin(s, a, p, pos, c) ==
  Scaled(s, s.gap) +
    (IF pos = "beginning" THEN s.beg + Span(s, p, p) + Unpinned(s, p, c, a - 1)
     ELSE End(s) - Span(s, p, p) - Unpinned(s, p, a, c))

\* The walk from a towards the pin's side stops at the first that does not fit.
FitsBesidePin(s, a, p, pos, c) ==
  \/ c = a
  \/ /\ c # p
     /\ Span(s, p, p) + (IF pos = "beginning" THEN Unpinned(s, p, c, a)
                                              ELSE Unpinned(s, p, a, c)) =< s.len + Pixel

ActivePositionPin(s, a, p, pos, x) ==
  IF a = p
  THEN [at |-> IF pos = "beginning" THEN s.beg + Scaled(s, s.gap)
               ELSE End(s) - Scaled(s, s.sizes[p] + s.gap),
        by |-> 0]
  ELSE LET cs == SelectSeq(IF pos = "beginning" THEN Downward(a, 1) ELSE Upward(a, Size(s)),
                           LAMBDA c : FitsBesidePin(s, a, p, pos, c))
           best == FoldLeft(LAMBDA b, c :
                     IF AbsDiff(BesidePin(s, a, p, pos, c), x) < AbsDiff(BesidePin(s, a, p, pos, b), x)
                     THEN c ELSE b, Head(cs), Tail(cs))
       IN  [at |-> BesidePin(s, a, p, pos, best), by |-> best]

\* list_move_to, with indices that begin with 1
MoveTo(list, index, item) ==
  LET rest == SelectSeq(list, LAMBDA i : i # item)
  IN  SubSeq(rest, 1, index - 1) \o <<item>> \o SubSeq(rest, index, Len(rest))

\* Where the pin goes in list, next to member by.
BringPin(list, p, pos, by) ==
  IF by = 0 THEN list
  ELSE MoveTo(list,
              CASE pos = "beginning" -> IF p >= by THEN by ELSE by - 1
                [] OTHER -> IF p >= by THEN by + 1 ELSE by, list[p])

\* compute_active_offset.  p is 0 when there is no pin.
ActiveOffset(s, a, x, center, p, pos) ==
  IF center
  THEN [at |-> s.beg + (s.len - Scaled(s, s.sizes[a])) \div 2, by |-> 0]
  ELSE IF Total(s) =< s.len + Pixel
  THEN [at |-> s.beg + (s.len - Total(s)) \div 2 + Span(s, 1, a - 1) + Scaled(s, s.gap), by |-> 0]
  ELSE IF p # 0 THEN ActivePositionPin(s, a, p, pos, x)
  ELSE [at |-> ActivePosition(s, a, x), by |-> 0]

\* default_arrange_children: the members follow from the position of a.
Lay(s, a, at) ==
  [i \in 1..Size(s) |-> IF i >= a THEN at + Span(s, a, i - 1) ELSE at - Span(s, i, a - 1)]

-----------------------------------------------------------------------------
(* Commands and gestures that look at positions *)

\* get_visible: the members that the viewport shows at least in part
Visible(s, a, x) ==
  {i \in 1..Size(s) :
     LET at == Lay(s, a, x)[i]
         to == at + Scaled(s, s.sizes[i])
     IN  \/ s.beg =< at /\ at < End(s)
         \/ s.beg =< to /\ to < End(s)
         \/ at < s.beg /\ to >= End(s)}

\* set_from_position: where a is once member from is at the beginning
FromPosition(s, from, a) ==
  s.beg + Scaled(s, s.gap) +
    (IF from =< a THEN Span(s, from, a - 1) ELSE 0 - Span(s, a, from - 1))

\* scroll_end_horizontal and scroll_end_vertical: the member that gets the focus.
\* Positions are compared with the length of the viewport, not with its place.
ScrollTarget(s, a, x, forward) ==
  LET inside(v) == 0 < v /\ v < s.len
      edge(i) == IF forward THEN x + Span(s, a, i - 1)
                 ELSE x - 2 * Scaled(s, s.gap) - Span(s, i + 1, a - 1)
      seen == SelectSeq(IF forward THEN Upward(a + 1, Size(s)) ELSE Downward(a - 1, 1),
                        LAMBDA i : inside(edge(i)))
  IN  IF seen # <<>> THEN Head(seen) ELSE IF forward THEN Size(s) ELSE 1

\* layout_scroll_unfloat_pinned_container: at is the position of every member and
\* edge the inner edge of the pin.  The member that is to be pushed aside, 0 for none,
\* and whether the pin comes before it.
Unfloat(s, at, edge) ==
  LET over == SelectSeq(Upward(1, Size(s)), LAMBDA i : at[i] + Scaled(s, s.sizes[i]) > edge)
  IN  IF over = <<>> THEN [by |-> 0, before |-> FALSE]
      ELSE LET i == Head(over)
           IN  [by |-> i, before |-> at[i] + Scaled(s, s.sizes[i]) \div 2 > edge]

\* layout_overview_recompute_scale: everything in row and in every column fits
OverviewScale(len, across, gap, row, columns) ==
  LET lengthOf(sizes) == FoldLeft(LAMBDA sum, v : sum + v + 2 * gap, gap, sizes)
      w == lengthOf(row)
      h == FoldLeft(LAMBDA most, c : IF lengthOf(c) > most THEN lengthOf(c) ELSE most, 0, columns)
  IN  IF len * h < across * w THEN <<len, w>> ELSE <<across, h>>
=============================================================================
