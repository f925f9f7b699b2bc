--------------------------- MODULE MCContainerTree ---------------------------
(* Instances of ContainerTree for TLC. *)
EXTENDS ContainerTree, TLC

Symmetry == Permutations(Views) \cup Permutations(Workspaces)
ViewSymmetry == Permutations(Views)

\* The tree up to the identity of columns: a column is named by what it holds.
\* Much cheaper than symmetry on Columns.
Canonical ==
  LET Name(x) == IF x \in Columns THEN tree.list[x] ELSE x
      Names(s) == [n \in DOMAIN s |-> Name(s[n])]
      Of(c) == <<Name(c), Name(tree.up[c]), tree.ws[c], tree.full[c], c \in tree.live,
                 c \in tree.selected, c \in tree.scratch,
                 IF c \in Columns THEN tree.recent[c] ELSE None>>
  IN  <<scene, [v \in Views |-> Of(v)], {Of(k) : k \in Columns},
        [w \in Workspaces |->
           <<Names(tree.list[Tiling(w)]), Names(tree.list[Floating(w)]),
             Name(tree.covers[w]), Name(tree.current[w])>>],
        Names(tree.pad), Name(tree.global), tree.bad>>

=============================================================================
