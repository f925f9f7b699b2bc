---------------------------- MODULE Desktop_proofs ----------------------------
(***************************************************************************)
(* Whatever windows, workspaces, outputs, layer and lock surfaces do, and  *)
(* in whatever order, in every scene: the layer surface with the focus is  *)
(* mapped (FocusedLayerMapped), and a session lock stays until its client  *)
(* unlocks and gives the keyboard to no window (LockKeepsKeyboard).        *)
(*                                                                         *)
(* The functions of the desktop call each other in long chains.  Each has  *)
(* a lemma that says from a sound desktop where it leads: the functions of *)
(* the focus to one with the same layer surface in focus (Focuses), those  *)
(* that may take or drop a layer surface to one with the same surfaces and *)
(* outputs (Arranges), the others at least to a sound one in which a lock  *)
(* still holds (Leads).  Chains of calls combine these, folds by way of    *)
(* FoldFacts, and the actions are the last of the chains.                  *)
(***************************************************************************)
EXTENDS Desktop, FiniteSetTheorems, TLAPS

-----------------------------------------------------------------------------
(* What is invariant, and how a function may change it.                     *)

\* The parts of a desktop that the invariant speaks of
Fields == {"kbd", "lock", "layer", "shell", "order", "outs", "spaces"}

\* s is a sequence, of whatever.
IsList(s) == s \in Seq(ToSet(s))

\* The states of a layer surface: one that is mapped is there.
Surfaces ==
  {x \in [at : Outputs \cup {None}, level : {"bottom", "top", "overlay"},
          wants : {"none", "exclusive", "on_demand"}, mapped : BOOLEAN] :
     x.mapped => x.at # None}

\* Surfaces, outputs, workspaces and the lock have their types.
Typed(e) ==
  /\ Fields \subseteq DOMAIN e
  /\ e.shell \in [Layers -> Surfaces]
  /\ e.order \in Seq(Layers)
  /\ e.outs \in Seq(Outputs)
  /\ DOMAIN e.spaces = AllOutputs /\ \A o \in AllOutputs : IsList(e.spaces[o])
  /\ e.lock \in Locks \cup {None}

\* The layer surface with the focus is mapped.
LayerSound(e) == e.layer # None => e.layer \in Layers /\ e.shell[e.layer].mapped

\* The inductive invariant
Sound(e) == Typed(e) /\ LayerSound(e)

\* A lock stays, and the keyboard does not come back to a window.
Held(e, r) == e.lock # None => r.lock # None /\ (e.kbd \notin Windows => r.kbd \notin Windows)

\* From e to r: all is well after it,
Leads(e, r) == Sound(r) /\ Held(e, r)

\* ... and the layer surfaces, the outputs and the lock are what they were
Arranges(e, r) ==
  /\ Leads(e, r)
  /\ r.lock = e.lock /\ r.shell = e.shell /\ r.order = e.order /\ r.outs = e.outs

\* ... and so is the layer surface with the focus.
Focuses(e, r) == Arranges(e, r) /\ r.layer = e.layer

\* Nothing of this changes.
Untouched(e, r) == Fields \subseteq DOMAIN r /\ \A f \in Fields : r[f] = e[f]

-----------------------------------------------------------------------------
(* The folds of the model: the step of each is the Op of an instance of     *)
(* FoldFacts.  The last of the positions left is folded last; a set is      *)
(* folded in the order in which its elements are chosen.                    *)

Ith(s, i) == s[i]
Own(s, i) == i
AnyOf(T) == CHOOSE x \in T : TRUE

\* Keep
KeepStep(S, t, x) == IF x \in S THEN Append(t, x) ELSE t
InList(X, t) == t \in Seq(X)
Keeping == INSTANCE FoldFacts WITH Op <- KeepStep, Inv <- InList, Pick <- Max, At <- Ith

ConsiderStep(z, e, w) == ConsiderOther(e, w)
Considering == INSTANCE FoldFacts WITH Op <- ConsiderStep, Inv <- Focuses, Pick <- Max, At <- Ith

FocusStep(z, e, n) == FocusNode(e, n)
Focusing == INSTANCE FoldFacts WITH Op <- FocusStep, Inv <- Focuses, Pick <- Max, At <- Ith

SetFocusStep(z, e, n) == SetFocus(e, n)
Setting == INSTANCE FoldFacts WITH Op <- SetFocusStep, Inv <- Arranges, Pick <- Max, At <- Ith

ArrangeStep(z, e, o) == ArrangeLayers(e, o)
Arranging == INSTANCE FoldFacts WITH Op <- ArrangeStep, Inv <- Arranges, Pick <- Max, At <- Ith

AddStep(o, e, w) == AddWorkspace(e, w, o)
Adding == INSTANCE FoldFacts WITH Op <- AddStep, Inv <- Focuses, Pick <- Max, At <- Ith

RestoreStep(o, e, p) == RestoreFrom(e, o, p)
Restoring == INSTANCE FoldFacts WITH Op <- RestoreStep, Inv <- Focuses, Pick <- Max, At <- Ith

EvacuateStep(z, e, w) == EvacuateWorkspace(e, w)
Evacuating == INSTANCE FoldFacts WITH Op <- EvacuateStep, Inv <- Arranges, Pick <- Max, At <- Ith

DestroyStep(z, e, l) == LoseLayer(e, l)
Destroying == INSTANCE FoldFacts WITH Op <- DestroyStep, Inv <- Leads, Pick <- Max, At <- Ith

MoveStep(w, e, c) == MoveFloating(e, c, w)
Moving == INSTANCE FoldFacts WITH Op <- MoveStep, Inv <- Focuses, Pick <- AnyOf, At <- Own

\* The lock of y is in place, and led to e.
StaysLocked(y, e) == y.lock # None /\ Leads(y, e)
LockStep(z, e, o) == DestroyLockSurface(e, o)
Locking == INSTANCE FoldFacts WITH Op <- LockStep, Inv <- StaysLocked, Pick <- AnyOf, At <- Own

\* The last position of a part of a list is in it.
LEMMA Positions ==
  ASSUME NEW X, NEW s \in Seq(X)
  PROVE  IsFiniteSet(DOMAIN s) /\ \A T \in SUBSET (DOMAIN s) : T # {} => Max(T) \in T
<1>0. IsFiniteSet(DOMAIN s)
  <2>1. DOMAIN s = 1..Len(s) /\ Len(s) \in Int /\ 1 \in Int
    OBVIOUS
  <2> QED
    BY <2>1, FS_Interval
<1> SUFFICES ASSUME NEW T \in SUBSET (DOMAIN s), T # {} PROVE Max(T) \in T
  BY <1>0
<1> DEFINE U == {m \in Nat : \A y \in T : y <= m}
<1>1. U \in SUBSET Nat /\ Len(s) \in U
  OBVIOUS
<1>2. PICK m \in U : \A k \in U : m <= k
  <2> HIDE DEF U
  <2> QED
    BY <1>1, Keeping!Least
<1>3. m \in T
  <2> SUFFICES ASSUME m \notin T PROVE FALSE
    OBVIOUS
  <2>1. \A y \in T : y <= m - 1 /\ m - 1 \in Nat
    BY <1>2
  <2>2. m - 1 \in U
    BY <2>1
  <2> QED
    BY <1>2, <2>2
<1> QED
  BY <1>2, <1>3 DEF Max

\* What Keep makes of a list is a list over X if each of its steps makes one.
LEMMA KeepFold ==
  ASSUME NEW X, NEW s \in Seq(X), NEW y, NEW S, InList(y, <<>>),
         \A a : \A x \in X : InList(y, a) => InList(y, KeepStep(S, a, x))
  PROVE  InList(y, Keep(s, S))
<1> DEFINE D == DOMAIN s
           G(h) == [T \in SUBSET D |->
                      IF T = {} THEN <<>>
                      ELSE KeepStep(S, h[T \ {Max(T)}], s[Max(T)])]
           f == CHOOSE h : h = G(h)
<1>1. Keep(s, S) = f[D]
  BY DEF Keep, KeepStep, FoldLeft, MapThenFoldSet
<1>2. Keeping!Listed(D) /\ Keeping!Picks(D)
  BY Positions DEF Keeping!Listed, Keeping!Picks, IsFiniteSet
<1>3. \A h : Keeping!Solves(S, <<>>, s, SUBSET D, h) <=> h = G(h)
  BY DEF Keeping!Solves, Keeping!Stage, KeepStep, Ith
<1>4. (\E h : Keeping!Solves(S, <<>>, s, SUBSET D, h))
        => Keeping!Solves(S, <<>>, s, SUBSET D, f)
  BY <1>3
<1>5. \A i \in D : \A a : InList(y, a) => InList(y, KeepStep(S, a, Ith(s, i)))
  BY DEF KeepStep, Ith
<1> HIDE DEF D, f, G
<1> QED
  BY <1>1, <1>2, <1>4, <1>5, Keeping!FoldKeeps

\* Considering workspaces in turn keeps what considering one keeps.
LEMMA ConsiderFold ==
  ASSUME NEW X, NEW s \in Seq(X), NEW y, NEW base, Focuses(y, base),
         \A a : \A x \in X : Focuses(y, a) => Focuses(y, ConsiderOther(a, x))
  PROVE  Focuses(y, FoldLeft(ConsiderOther, base, s))
<1> DEFINE D == DOMAIN s
           G(h) == [T \in SUBSET D |->
                      IF T = {} THEN base
                      ELSE ConsiderOther(h[T \ {Max(T)}], s[Max(T)])]
           f == CHOOSE h : h = G(h)
<1>1. FoldLeft(ConsiderOther, base, s) = f[D]
  BY DEF FoldLeft, MapThenFoldSet
<1>2. Considering!Listed(D) /\ Considering!Picks(D)
  BY Positions DEF Considering!Listed, Considering!Picks, IsFiniteSet
<1>3. \A h : Considering!Solves(0, base, s, SUBSET D, h) <=> h = G(h)
  BY DEF Considering!Solves, Considering!Stage, ConsiderStep, Ith
<1>4. (\E h : Considering!Solves(0, base, s, SUBSET D, h))
        => Considering!Solves(0, base, s, SUBSET D, f)
  BY <1>3
<1>5. \A i \in D : \A a : Focuses(y, a) => Focuses(y, ConsiderStep(0, a, Ith(s, i)))
  BY DEF ConsiderStep, Ith
<1> HIDE DEF D, f, G
<1> QED
  BY <1>1, <1>2, <1>4, <1>5, Considering!FoldKeeps

\* Focusing nodes in turn keeps what focusing one keeps.
LEMMA FocusFold ==
  ASSUME NEW X, NEW s \in Seq(X), NEW y, NEW base, Focuses(y, base),
         \A a : \A x \in X : Focuses(y, a) => Focuses(y, FocusNode(a, x))
  PROVE  Focuses(y, FoldLeft(FocusNode, base, s))
<1> DEFINE D == DOMAIN s
           G(h) == [T \in SUBSET D |->
                      IF T = {} THEN base
                      ELSE FocusNode(h[T \ {Max(T)}], s[Max(T)])]
           f == CHOOSE h : h = G(h)
<1>1. FoldLeft(FocusNode, base, s) = f[D]
  BY DEF FoldLeft, MapThenFoldSet
<1>2. Focusing!Listed(D) /\ Focusing!Picks(D)
  BY Positions DEF Focusing!Listed, Focusing!Picks, IsFiniteSet
<1>3. \A h : Focusing!Solves(0, base, s, SUBSET D, h) <=> h = G(h)
  BY DEF Focusing!Solves, Focusing!Stage, FocusStep, Ith
<1>4. (\E h : Focusing!Solves(0, base, s, SUBSET D, h))
        => Focusing!Solves(0, base, s, SUBSET D, f)
  BY <1>3
<1>5. \A i \in D : \A a : Focuses(y, a) => Focuses(y, FocusStep(0, a, Ith(s, i)))
  BY DEF FocusStep, Ith
<1> HIDE DEF D, f, G
<1> QED
  BY <1>1, <1>2, <1>4, <1>5, Focusing!FoldKeeps

\* ... the same with seat_set_focus,
LEMMA SetFocusFold ==
  ASSUME NEW X, NEW s \in Seq(X), NEW y, NEW base, Arranges(y, base),
         \A a : \A x \in X : Arranges(y, a) => Arranges(y, SetFocus(a, x))
  PROVE  Arranges(y, FoldLeft(SetFocus, base, s))
<1> DEFINE D == DOMAIN s
           G(h) == [T \in SUBSET D |->
                      IF T = {} THEN base
                      ELSE SetFocus(h[T \ {Max(T)}], s[Max(T)])]
           f == CHOOSE h : h = G(h)
<1>1. FoldLeft(SetFocus, base, s) = f[D]
  BY DEF FoldLeft, MapThenFoldSet
<1>2. Setting!Listed(D) /\ Setting!Picks(D)
  BY Positions DEF Setting!Listed, Setting!Picks, IsFiniteSet
<1>3. \A h : Setting!Solves(0, base, s, SUBSET D, h) <=> h = G(h)
  BY DEF Setting!Solves, Setting!Stage, SetFocusStep, Ith
<1>4. (\E h : Setting!Solves(0, base, s, SUBSET D, h))
        => Setting!Solves(0, base, s, SUBSET D, f)
  BY <1>3
<1>5. \A i \in D : \A a : Arranges(y, a) => Arranges(y, SetFocusStep(0, a, Ith(s, i)))
  BY DEF SetFocusStep, Ith
<1> HIDE DEF D, f, G
<1> QED
  BY <1>1, <1>2, <1>4, <1>5, Setting!FoldKeeps

\* ... arrange_layers on outputs,
LEMMA ArrangeFold ==
  ASSUME NEW X, NEW s \in Seq(X), NEW y, NEW base, Arranges(y, base),
         \A a : \A x \in X : Arranges(y, a) => Arranges(y, ArrangeLayers(a, x))
  PROVE  Arranges(y, FoldLeft(ArrangeLayers, base, s))
<1> DEFINE D == DOMAIN s
           G(h) == [T \in SUBSET D |->
                      IF T = {} THEN base
                      ELSE ArrangeLayers(h[T \ {Max(T)}], s[Max(T)])]
           f == CHOOSE h : h = G(h)
<1>1. FoldLeft(ArrangeLayers, base, s) = f[D]
  BY DEF FoldLeft, MapThenFoldSet
<1>2. Arranging!Listed(D) /\ Arranging!Picks(D)
  BY Positions DEF Arranging!Listed, Arranging!Picks, IsFiniteSet
<1>3. \A h : Arranging!Solves(0, base, s, SUBSET D, h) <=> h = G(h)
  BY DEF Arranging!Solves, Arranging!Stage, ArrangeStep, Ith
<1>4. (\E h : Arranging!Solves(0, base, s, SUBSET D, h))
        => Arranging!Solves(0, base, s, SUBSET D, f)
  BY <1>3
<1>5. \A i \in D : \A a : Arranges(y, a) => Arranges(y, ArrangeStep(0, a, Ith(s, i)))
  BY DEF ArrangeStep, Ith
<1> HIDE DEF D, f, G
<1> QED
  BY <1>1, <1>2, <1>4, <1>5, Arranging!FoldKeeps

\* ... workspaces that are added to an output,
LEMMA AddFold ==
  ASSUME NEW X, NEW s \in Seq(X), NEW y, NEW o, NEW base, Focuses(y, base),
         \A a : \A x \in X : Focuses(y, a) => Focuses(y, AddWorkspace(a, x, o))
  PROVE  Focuses(y, AddAll(base, s, o))
<1> DEFINE D == DOMAIN s
           G(h) == [T \in SUBSET D |->
                      IF T = {} THEN base
                      ELSE AddWorkspace(h[T \ {Max(T)}], s[Max(T)], o)]
           f == CHOOSE h : h = G(h)
<1>1. AddAll(base, s, o) = f[D]
  BY DEF AddAll, FoldLeft, MapThenFoldSet
<1>2. Adding!Listed(D) /\ Adding!Picks(D)
  BY Positions DEF Adding!Listed, Adding!Picks, IsFiniteSet
<1>3. \A h : Adding!Solves(o, base, s, SUBSET D, h) <=> h = G(h)
  BY DEF Adding!Solves, Adding!Stage, AddStep, Ith
<1>4. (\E h : Adding!Solves(o, base, s, SUBSET D, h))
        => Adding!Solves(o, base, s, SUBSET D, f)
  BY <1>3
<1>5. \A i \in D : \A a : Focuses(y, a) => Focuses(y, AddStep(o, a, Ith(s, i)))
  BY DEF AddStep, Ith
<1> HIDE DEF D, f, G
<1> QED
  BY <1>1, <1>2, <1>4, <1>5, Adding!FoldKeeps

\* ... outputs that give workspaces back,
LEMMA RestoreFold ==
  ASSUME NEW X, NEW s \in Seq(X), NEW y, NEW o, NEW base, Focuses(y, base),
         \A a : \A x \in X : Focuses(y, a) => Focuses(y, RestoreFrom(a, o, x))
  PROVE  Focuses(y, RestoreFromAll(base, s, o))
<1> DEFINE D == DOMAIN s
           G(h) == [T \in SUBSET D |->
                      IF T = {} THEN base
                      ELSE RestoreFrom(h[T \ {Max(T)}], o, s[Max(T)])]
           f == CHOOSE h : h = G(h)
<1>1. RestoreFromAll(base, s, o) = f[D]
  BY DEF RestoreFromAll, FoldLeft, MapThenFoldSet
<1>2. Restoring!Listed(D) /\ Restoring!Picks(D)
  BY Positions DEF Restoring!Listed, Restoring!Picks, IsFiniteSet
<1>3. \A h : Restoring!Solves(o, base, s, SUBSET D, h) <=> h = G(h)
  BY DEF Restoring!Solves, Restoring!Stage, RestoreStep, Ith
<1>4. (\E h : Restoring!Solves(o, base, s, SUBSET D, h))
        => Restoring!Solves(o, base, s, SUBSET D, f)
  BY <1>3
<1>5. \A i \in D : \A a : Focuses(y, a) => Focuses(y, RestoreStep(o, a, Ith(s, i)))
  BY DEF RestoreStep, Ith
<1> HIDE DEF D, f, G
<1> QED
  BY <1>1, <1>2, <1>4, <1>5, Restoring!FoldKeeps

\* ... workspaces that leave an output,
LEMMA EvacuateFold ==
  ASSUME NEW X, NEW s \in Seq(X), NEW y, NEW base, Arranges(y, base),
         \A a : \A x \in X : Arranges(y, a) => Arranges(y, EvacuateWorkspace(a, x))
  PROVE  Arranges(y, FoldLeft(EvacuateWorkspace, base, s))
<1> DEFINE D == DOMAIN s
           G(h) == [T \in SUBSET D |->
                      IF T = {} THEN base
                      ELSE EvacuateWorkspace(h[T \ {Max(T)}], s[Max(T)])]
           f == CHOOSE h : h = G(h)
<1>1. FoldLeft(EvacuateWorkspace, base, s) = f[D]
  BY DEF FoldLeft, MapThenFoldSet
<1>2. Evacuating!Listed(D) /\ Evacuating!Picks(D)
  BY Positions DEF Evacuating!Listed, Evacuating!Picks, IsFiniteSet
<1>3. \A h : Evacuating!Solves(0, base, s, SUBSET D, h) <=> h = G(h)
  BY DEF Evacuating!Solves, Evacuating!Stage, EvacuateStep, Ith
<1>4. (\E h : Evacuating!Solves(0, base, s, SUBSET D, h))
        => Evacuating!Solves(0, base, s, SUBSET D, f)
  BY <1>3
<1>5. \A i \in D : \A a : Arranges(y, a) => Arranges(y, EvacuateStep(0, a, Ith(s, i)))
  BY DEF EvacuateStep, Ith
<1> HIDE DEF D, f, G
<1> QED
  BY <1>1, <1>2, <1>4, <1>5, Evacuating!FoldKeeps

\* ... layer surfaces that go with their output,
LEMMA DestroyFold ==
  ASSUME NEW X, NEW s \in Seq(X), NEW y, NEW base, Leads(y, base),
         \A a : \A x \in X : Leads(y, a) => Leads(y, LoseLayer(a, x))
  PROVE  Leads(y, FoldLeft(LoseLayer, base, s))
<1> DEFINE D == DOMAIN s
           G(h) == [T \in SUBSET D |->
                      IF T = {} THEN base
                      ELSE LoseLayer(h[T \ {Max(T)}], s[Max(T)])]
           f == CHOOSE h : h = G(h)
<1>1. FoldLeft(LoseLayer, base, s) = f[D]
  BY DEF FoldLeft, MapThenFoldSet
<1>2. Destroying!Listed(D) /\ Destroying!Picks(D)
  BY Positions DEF Destroying!Listed, Destroying!Picks, IsFiniteSet
<1>3. \A h : Destroying!Solves(0, base, s, SUBSET D, h) <=> h = G(h)
  BY DEF Destroying!Solves, Destroying!Stage, DestroyStep, Ith
<1>4. (\E h : Destroying!Solves(0, base, s, SUBSET D, h))
        => Destroying!Solves(0, base, s, SUBSET D, f)
  BY <1>3
<1>5. \A i \in D : \A a : Leads(y, a) => Leads(y, DestroyStep(0, a, Ith(s, i)))
  BY DEF DestroyStep, Ith
<1> HIDE DEF D, f, G
<1> QED
  BY <1>1, <1>2, <1>4, <1>5, Destroying!FoldKeeps

\* ... floating windows that move,
LEMMA MoveFold ==
  ASSUME NEW S, IsFiniteSet(S), NEW y, NEW w, NEW base, Focuses(y, base),
         \A a : \A x \in S : Focuses(y, a) => Focuses(y, MoveFloating(a, x, w))
  PROVE  Focuses(y, MoveAll(base, S, w))
<1> DEFINE D == S
           G(h) == [T \in SUBSET D |->
                      IF T = {} THEN base
                      ELSE MoveFloating(h[T \ {AnyOf(T)}], AnyOf(T), w)]
           f == CHOOSE h : h = G(h)
<1>1. MoveAll(base, S, w) = f[D]
  BY DEF MoveAll, FoldSet, AnyOf, MapThenFoldSet
<1>2. Moving!Listed(D) /\ Moving!Picks(D)
  BY DEF Moving!Listed, Moving!Picks, IsFiniteSet, AnyOf
<1>3. \A h : Moving!Solves(w, base, 0, SUBSET D, h) <=> h = G(h)
  BY DEF Moving!Solves, Moving!Stage, MoveStep, Own
<1>4. (\E h : Moving!Solves(w, base, 0, SUBSET D, h))
        => Moving!Solves(w, base, 0, SUBSET D, f)
  BY <1>3
<1>5. \A i \in D : \A a : Focuses(y, a) => Focuses(y, MoveStep(w, a, Own(0, i)))
  BY DEF MoveStep, Own
<1> HIDE DEF D, f, G
<1> QED
  BY <1>1, <1>2, <1>4, <1>5, Moving!FoldKeeps

\* ... and lock surfaces that are destroyed.
LEMMA LockFold ==
  ASSUME NEW S, IsFiniteSet(S), NEW y, NEW base, StaysLocked(y, base),
         \A a : \A x \in S : StaysLocked(y, a) => StaysLocked(y, DestroyLockSurface(a, x))
  PROVE  StaysLocked(y, DestroyLockSurfaces(base, S))
<1> DEFINE D == S
           G(h) == [T \in SUBSET D |->
                      IF T = {} THEN base
                      ELSE DestroyLockSurface(h[T \ {AnyOf(T)}], AnyOf(T))]
           f == CHOOSE h : h = G(h)
<1>1. DestroyLockSurfaces(base, S) = f[D]
  BY DEF DestroyLockSurfaces, FoldSet, AnyOf, MapThenFoldSet
<1>2. Locking!Listed(D) /\ Locking!Picks(D)
  BY DEF Locking!Listed, Locking!Picks, IsFiniteSet, AnyOf
<1>3. \A h : Locking!Solves(0, base, 0, SUBSET D, h) <=> h = G(h)
  BY DEF Locking!Solves, Locking!Stage, LockStep, Own
<1>4. (\E h : Locking!Solves(0, base, 0, SUBSET D, h))
        => Locking!Solves(0, base, 0, SUBSET D, f)
  BY <1>3
<1>5. \A i \in D : \A a : StaysLocked(y, a) => StaysLocked(y, LockStep(0, a, Own(0, i)))
  BY DEF LockStep, Own
<1> HIDE DEF D, f, G
<1> QED
  BY <1>1, <1>2, <1>4, <1>5, Locking!FoldKeeps

-----------------------------------------------------------------------------
\* Who touches nothing of it keeps it all.
LEMMA UntouchedFocuses ==
  ASSUME NEW e, NEW r, Sound(e), Untouched(e, r) PROVE Focuses(e, r)
BY DEF Untouched, Fields, Focuses, Arranges, Leads, Sound, Held, Typed, LayerSound

\* A step that does nothing keeps everything.
LEMMA ItselfFocuses == ASSUME NEW e, Sound(e) PROVE Focuses(e, e)
BY DEF Focuses, Arranges, Leads, Sound, Held

\* One after the other: two functions of the focus,
LEMMA FocusesTwice ==
  ASSUME NEW e, NEW r, NEW t, Focuses(e, r), Focuses(r, t) PROVE Focuses(e, t)
BY DEF Focuses, Arranges, Leads, Held

\* ... two that may change the layer surface in focus,
LEMMA ArrangesTwice ==
  ASSUME NEW e, NEW r, NEW t, Arranges(e, r), Arranges(r, t) PROVE Arranges(e, t)
BY DEF Arranges, Leads, Held

\* ... and any two.
LEMMA LeadsTwice ==
  ASSUME NEW e, NEW r, NEW t, Leads(e, r), Leads(r, t) PROVE Leads(e, t)
BY DEF Leads, Held

\* Who keeps the layer surface in focus keeps the rest as well.
LEMMA FocusesArranges ==
  ASSUME NEW e, NEW r, Focuses(e, r) PROVE Arranges(e, r) /\ Leads(e, r) /\ Sound(r)
BY DEF Focuses, Arranges, Leads

\* Who keeps the surfaces leads to a sound desktop.
LEMMA ArrangesLeads ==
  ASSUME NEW e, NEW r, Arranges(e, r) PROVE Leads(e, r) /\ Sound(r)
BY DEF Arranges, Leads

\* seat_set_raw_focus only changes the stack.
LEMMA RawFocusKeeps == ASSUME NEW e, Sound(e), NEW n PROVE Focuses(e, RawFocus(e, n))
<1>1. Untouched(e, RawFocus(e, n))
  BY DEF Untouched, RawFocus, Fields, Sound, Typed
<1> QED
  BY <1>1, UntouchedFocuses

\* handle_new_node only changes the stack and the tree.
LEMMA NewNodeKeeps == ASSUME NEW e, Sound(e), NEW n, NEW p PROVE Focuses(e, NewNode(e, n, p))
<1>1. Untouched(e, NewNode(e, n, p))
  BY DEF Untouched, NewNode, Fields, Sound, Typed
<1> QED
  BY <1>1, UntouchedFocuses

\* A node leaves the stack.
LEMMA ForgetKeeps == ASSUME NEW e, Sound(e), NEW n PROVE Focuses(e, Forget(e, n))
<1>1. Untouched(e, Forget(e, n))
  BY DEF Untouched, Forget, Fields, Sound, Typed
<1> QED
  BY <1>1, UntouchedFocuses

\* container_detach only changes the tree.
LEMMA DetachKeeps == ASSUME NEW e, Sound(e), NEW n PROVE Focuses(e, Detach(e, n))
<1>1. Untouched(e, Detach(e, n))
  BY DEF Untouched, Detach, Fields, Sound, Typed
<1> QED
  BY <1>1, UntouchedFocuses

\* A floating window moves.
LEMMA MoveFloatingKeeps ==
  ASSUME NEW e, Sound(e), NEW c, NEW w PROVE Focuses(e, MoveFloating(e, c, w))
<1>1. Untouched(e, MoveFloating(e, c, w))
  BY DEF Untouched, MoveFloating, Fields, Sound, Typed
<1> QED
  BY <1>1, UntouchedFocuses

\* seat_send_focus gives the keyboard to a window only without a lock.
LEMMA SendFocusKeeps == ASSUME NEW e, Sound(e), NEW n PROVE Focuses(e, SendFocus(e, n))
BY DEF SendFocus, InputAllowed, Fields, Sound, Typed, LayerSound, Focuses, Arranges, Leads, Held

\* view_close_popups
LEMMA ClosePopupsKeeps == ASSUME NEW e, Sound(e), NEW v PROVE Focuses(e, ClosePopups(e, v))
<1>1. Untouched(e, ClosePopups(e, v))
  BY DEF Untouched, ClosePopups, Fields, Sound, Typed
<1> QED
  BY <1>1, UntouchedFocuses

\* Launcher contexts follow a node.
LEMMA RedirectContextsKeeps ==
  ASSUME NEW e, Sound(e), NEW n, NEW to PROVE Focuses(e, RedirectContexts(e, n, to))
<1>1. Untouched(e, RedirectContexts(e, n, to))
  BY DEF Untouched, RedirectContexts, Fields, Sound, Typed
<1> QED
  BY <1>1, UntouchedFocuses

\* Taking the focus from a node takes the keyboard away.
LEMMA SendUnfocusKeeps == ASSUME NEW e, Sound(e), NEW n PROVE Focuses(e, SendUnfocus(e, n))
BY FocusAssumption
   DEF SendUnfocus, Fields, Sound, Typed, LayerSound, Focuses, Arranges, Leads, Held

\* What is kept of a list is a list of elements of S.
LEMMA Keeps ==
  ASSUME NEW X, NEW s \in Seq(X), NEW S PROVE Keep(s, S) \in Seq(S)
<1>1. InList(S, <<>>) /\ \A a : \A x \in X : InList(S, a) => InList(S, KeepStep(S, a, x))
  BY DEF InList, KeepStep
<1>2. InList(S, Keep(s, S))
  BY <1>1, KeepFold
<1> QED
  BY <1>2 DEF InList

\* Any sequence is a list.
LEMMA ListOf == ASSUME NEW X, NEW s \in Seq(X) PROVE IsList(s)
BY DEF IsList, ToSet

\* The lists of workspaces may change.
LEMMA SpacesFocuses ==
  ASSUME NEW e, NEW r, Sound(e), Fields \subseteq DOMAIN r,
         \A f \in Fields \ {"spaces"} : r[f] = e[f],
         DOMAIN r.spaces = AllOutputs, \A o \in AllOutputs : IsList(r.spaces[o])
  PROVE  Focuses(e, r)
BY DEF Fields, Focuses, Arranges, Leads, Sound, Held, Typed, LayerSound

\* workspace_detach leaves lists of workspaces.
LEMMA DetachWorkspaceKeeps ==
  ASSUME NEW e, Sound(e), NEW w PROVE Focuses(e, DetachWorkspace(e, w))
<1> DEFINE r == DetachWorkspace(e, w)
<1>1. Fields \subseteq DOMAIN r /\ \A f \in Fields \ {"spaces"} : r[f] = e[f]
  BY DEF DetachWorkspace, Fields, Sound, Typed
<1>2. r.spaces = [o \in AllOutputs |-> Keep(e.spaces[o], Workspaces \ {w})]
  BY DEF DetachWorkspace, Fields, Sound, Typed
<1>3. \A o \in AllOutputs : IsList(Keep(e.spaces[o], Workspaces \ {w}))
  BY Keeps, ListOf DEF Sound, Typed, IsList
<1>4. DOMAIN r.spaces = AllOutputs /\ \A o \in AllOutputs : IsList(r.spaces[o])
  BY <1>2, <1>3
<1> HIDE DEF r
<1>5. Focuses(e, r)
  BY <1>1, <1>4, SpacesFocuses
<1> QED
  BY <1>5 DEF r

\* The end of workspace_begin_destroy
LEMMA WithoutWorkspaceKeeps ==
  ASSUME NEW e, Sound(e), NEW w PROVE Focuses(e, WithoutWorkspace(e, w))
<1> DEFINE home == IF e.up[w] = None THEN Root ELSE e.up[w]
           r == RedirectContexts(e, w, home)
           t == DetachWorkspace(r, w)
<1>1. Focuses(e, r)
  BY RedirectContextsKeeps
<1>2. Focuses(r, t)
  BY <1>1, FocusesArranges, DetachWorkspaceKeeps
<1>3. Focuses(e, t) /\ Sound(t)
  BY <1>1, <1>2, FocusesTwice, FocusesArranges
<1>4. Untouched(t, WithoutWorkspace(e, w))
  <2> HIDE DEF t
  <2> DEFINE q == [t EXCEPT !.live = @ \ {w}, !.full[w] = None, !.flagged = @ \ {w}]
  <2>1. Untouched(t, q)
    BY <1>3 DEF Untouched, Fields, Sound, Typed
  <2>2. WithoutWorkspace(e, w) = q
    BY DEF WithoutWorkspace, t
  <2> QED
    BY <2>1, <2>2
<1> QED
  BY <1>3, <1>4, UntouchedFocuses, FocusesTwice

\* workspace_consider_destroy, of another workspace
LEMMA ConsiderOtherKeeps ==
  ASSUME NEW e, Sound(e), NEW w PROVE Focuses(e, ConsiderOther(e, w))
<1>1. Focuses(e, Forget(e, w)) /\ Sound(Forget(e, w))
  BY ForgetKeeps, FocusesArranges
<1>2. Focuses(Forget(e, w), WithoutWorkspace(Forget(e, w), w))
  BY <1>1, WithoutWorkspaceKeeps
<1> QED
  BY <1>1, <1>2, FocusesTwice, ItselfFocuses DEF ConsiderOther

\* ... of several
LEMMA ConsidersKeeps ==
  ASSUME NEW e, Sound(e), NEW X, NEW s \in Seq(X)
  PROVE  Focuses(e, FoldLeft(ConsiderOther, e, s))
<1>1. \A a : \A x \in X : Focuses(e, a) => Focuses(e, ConsiderOther(a, x))
  BY ConsiderOtherKeeps, FocusesTwice, FocusesArranges
<1> QED
  BY <1>1, ItselfFocuses, ConsiderFold

\* seat_set_focus(NULL)
LEMMA ClearFocusKeeps == ASSUME NEW e, Sound(e) PROVE Focuses(e, ClearFocus(e))
<1> DEFINE r == SendUnfocus(e, GetFocus(e))
<1>1. Focuses(e, r) /\ Sound(r)
  BY SendUnfocusKeeps, FocusesArranges
<1>2. Untouched(r, [r EXCEPT !.has = FALSE])
  <2> HIDE DEF r
  <2> QED
    BY <1>1 DEF Untouched, Fields, Sound, Typed
<1>3. Focuses(e, [r EXCEPT !.has = FALSE])
  BY <1>1, <1>2, UntouchedFocuses, FocusesTwice
<1> QED
  BY <1>3, ItselfFocuses DEF ClearFocus

\* The keyboard returns to the surface of the lock, which is not a window.
LEMMA RelockKeeps == ASSUME NEW e, Sound(e) PROVE Focuses(e, Relock(e))
<1>1. CASE e.lock = None
  BY <1>1, ItselfFocuses DEF Relock
<1>2. CASE e.lock # None
  <2>1. e.lock.focused \notin Windows
    BY <1>2, FocusAssumption, LayerAssumption DEF Sound, Typed, Locks
  <2> QED
    BY <1>2, <2>1
       DEF Relock, Fields, Sound, Typed, LayerSound, Focuses, Arranges, Leads, Held
<1> QED
  BY <1>1, <1>2

\* workspace_detect_urgent only changes the flags of workspaces.
LEMMA DetectUrgentKeeps == ASSUME NEW e, Sound(e), NEW w PROVE Focuses(e, DetectUrgent(e, w))
<1>1. Untouched(e, DetectUrgent(e, w))
  BY DEF Untouched, DetectUrgent, Fields, Sound, Typed
<1> QED
  BY <1>1, UntouchedFocuses

\* view_set_urgent
LEMMA SetUrgentKeeps ==
  ASSUME NEW e, Sound(e), NEW v, NEW on PROVE Focuses(e, SetUrgent(e, v, on))
<1> DEFINE r == [e EXCEPT !.urgent = SelectSeq(@, LAMBDA u : u # v) \o IF on THEN <<v>> ELSE <<>>,
                          !.timed = @ \ {v}]
<1>1. Untouched(e, r)
  BY DEF Untouched, Fields, Sound, Typed
<1>2. Focuses(e, r) /\ Sound(r)
  BY <1>1, UntouchedFocuses, FocusesArranges
<1>3. Focuses(r, DetectUrgent(r, WorkspaceOf(e, v)))
  BY <1>2, DetectUrgentKeeps
<1> QED
  BY <1>2, <1>3, FocusesTwice, ItselfFocuses DEF SetUrgent

\* The urgency of the window that gets the focus ends, or will.
LEMMA CalmKeeps ==
  ASSUME NEW e, Sound(e), NEW n, NEW from, NEW w PROVE Focuses(e, Calm(e, n, from, w))
<1>1. Untouched(e, [e EXCEPT !.timed = @ \cup {n}])
  BY DEF Untouched, Fields, Sound, Typed
<1> QED
  BY <1>1, UntouchedFocuses, ItselfFocuses, SetUrgentKeeps DEF Calm

\* Sticky windows follow the focus.
LEMMA FollowKeeps ==
  ASSUME NEW e, Sound(e), NEW old, NEW w PROVE Focuses(e, Follow(e, old, w))
<1> DEFINE S == {c \in OnWorkspace(e, old) \cap Sticky : IsFloating(e, c)}
<1>1. IsFiniteSet(S)
  BY FS_Subset, FocusAssumption
<1>2. Focuses(e, MoveAll(e, S, w))
  <2>1. \A a : \A c \in S : Focuses(e, a) => Focuses(e, MoveFloating(a, c, w))
    BY MoveFloatingKeeps, FocusesTwice, FocusesArranges
  <2> HIDE DEF S
  <2> QED
    BY <1>1, <2>1, ItselfFocuses, MoveFold
<1> QED
  BY <1>2, ItselfFocuses DEF Follow

\* A node and its workspace become the first of the stack.
LEMMA RaisedToKeeps ==
  ASSUME NEW e, Sound(e), NEW n, NEW w PROVE Focuses(e, RaisedTo(e, n, w))
<1>1. Focuses(e, RawFocus(e, w)) /\ Sound(RawFocus(e, w))
  BY RawFocusKeeps, FocusesArranges
<1> DEFINE r == RawFocus(RawFocus(e, w), n)
<1>2. Focuses(e, r) /\ Sound(r)
  BY <1>1, RawFocusKeeps, FocusesTwice, FocusesArranges
<1>3. Focuses(e, SendFocus(r, n))
  BY <1>2, SendFocusKeeps, FocusesTwice
<1> QED
  BY <1>1, <1>3 DEF RaisedTo

\* ... with the column of the node
LEMMA RaisedKeeps ==
  ASSUME NEW e, Sound(e), NEW n, NEW w PROVE Focuses(e, Raised(e, n, w))
<1>1. Focuses(e, RawFocus(e, Up(e, n))) /\ Sound(RawFocus(e, Up(e, n)))
  BY RawFocusKeeps, FocusesArranges
<1>2. Focuses(e, RaisedTo(RawFocus(e, Up(e, n)), n, w))
  BY <1>1, RaisedToKeeps, FocusesTwice
<1> QED
  BY <1>2, RaisedToKeeps DEF Raised

\* seat_set_workspace_focus, when the focus changes
LEMMA EnterKeeps == ASSUME NEW e, Sound(e), NEW n, NEW w PROVE Focuses(e, Enter(e, n, w))
<1> DEFINE old == IF e.up[w] = None THEN None ELSE ActiveWorkspace(e, e.up[w])
           from == FocusedWorkspace(e)
           r == Raised(ClearFocus(e), n, w)
           f == [r EXCEPT !.has = TRUE, !.space = w]
           p == ClosePopups(Follow(f, old, w), GetFocus(e))
           c == Calm(p, n, from, w)
<1>1. Focuses(e, ClearFocus(e)) /\ Sound(ClearFocus(e))
  BY ClearFocusKeeps, FocusesArranges
<1>2. Focuses(e, r) /\ Sound(r)
  BY <1>1, RaisedKeeps, FocusesTwice, FocusesArranges
<1>3. Untouched(r, f)
  <2> HIDE DEF r
  <2> QED
    BY <1>2 DEF Untouched, Fields, Sound, Typed
<1>4. Focuses(e, f) /\ Sound(f)
  <2> HIDE DEF r, f
  <2> QED
    BY <1>2, <1>3, UntouchedFocuses, FocusesTwice, FocusesArranges
<1>5. Focuses(e, Follow(f, old, w)) /\ Sound(Follow(f, old, w))
  <2> HIDE DEF f, old
  <2> QED
    BY <1>4, FollowKeeps, FocusesTwice, FocusesArranges
<1>6. Focuses(e, p) /\ Sound(p)
  <2> HIDE DEF f, old
  <2> QED
    BY <1>5, ClosePopupsKeeps, FocusesTwice, FocusesArranges
<1>7. Focuses(e, c)
  <2> HIDE DEF p, from
  <2> QED
    BY <1>6, CalmKeeps, FocusesTwice
<1>8. Focuses(e, FoldLeft(ConsiderOther, c, <<old, from>>))
  <2> HIDE DEF c, old, from
  <2>1. <<old, from>> \in Seq({old, from})
    OBVIOUS
  <2>2. Sound(c)
    BY <1>7, FocusesArranges
  <2> QED
    BY <1>7, <2>1, <2>2, ConsidersKeeps, FocusesTwice
<1> QED
  BY <1>8 DEF Enter

\* seat_set_focus without a layer surface in focus
LEMMA FocusNodeKeeps == ASSUME NEW e, Sound(e), NEW n PROVE Focuses(e, FocusNode(e, n))
<1> DEFINE r == IF n = None THEN ClearFocus(ClosePopups(e, GetFocus(e))) ELSE SetNodeFocus(e, n)
<1>1. Focuses(e, ClosePopups(e, GetFocus(e))) /\ Sound(ClosePopups(e, GetFocus(e)))
  BY ClosePopupsKeeps, FocusesArranges
<1>2. Focuses(e, ClearFocus(ClosePopups(e, GetFocus(e))))
  BY <1>1, ClearFocusKeeps, FocusesTwice
<1>3. Focuses(e, SetNodeFocus(e, n))
  BY EnterKeeps, ItselfFocuses DEF SetNodeFocus
<1>4. Focuses(e, r) /\ Sound(r)
  BY <1>2, <1>3, FocusesArranges
<1>5. Focuses(e, Relock(r))
  <2> HIDE DEF r
  <2> QED
    BY <1>4, RelockKeeps, FocusesTwice
<1> QED
  BY <1>5 DEF FocusNode

\* The focus goes to each of the nodes in turn.
LEMMA FocusNodesKeeps ==
  ASSUME NEW e, Sound(e), NEW X, NEW s \in Seq(X)
  PROVE  Focuses(e, FoldLeft(FocusNode, e, s))
<1>1. \A a : \A x \in X : Focuses(e, a) => Focuses(e, FocusNode(a, x))
  BY FocusNodeKeeps, FocusesTwice, FocusesArranges
<1> QED
  BY <1>1, ItselfFocuses, FocusFold

\* The nodes that the focus returns to are a list.
LEMMA ReturningIsList == ASSUME NEW e PROVE \E X : Returning(e) \in Seq(X)
<1> DEFINE n == FocusInactive(e, Root)
<1>1. <<None, n>> \in Seq({None, n}) /\ <<>> \in Seq({None, n})
  OBVIOUS
<1> QED
  BY <1>1 DEF Returning

\* A desktop whose layer surface, the one with the focus, may just have been unmapped.
LEMMA LayerlessIs ==
  ASSUME NEW e, Typed(e)
  PROVE  LET r == Layerless(e)
         IN  /\ Sound(r) /\ r.layer = None
             /\ r.lock = e.lock /\ r.shell = e.shell /\ r.order = e.order /\ r.outs = e.outs
             /\ r.kbd = e.kbd
BY DEF Layerless, Fields, Sound, Typed, LayerSound

\* seat_set_focus_layer(NULL) leaves no layer surface in focus: the one that had it may
\* have been unmapped just before.
LEMMA DropLayerKeeps ==
  ASSUME NEW e, Typed(e) PROVE Arranges(e, DropLayer(e)) /\ DropLayer(e).layer = None
<1>1. Sound(Layerless(e)) /\ Layerless(e).layer = None /\ Arranges(e, Layerless(e))
  BY LayerlessIs DEF Arranges, Leads, Held
<1>2. Focuses(Layerless(e), DropLayer(e))
  BY <1>1, FocusNodesKeeps, ReturningIsList DEF DropLayer
<1> QED
  BY <1>1, <1>2, FocusesArranges, ArrangesTwice DEF Focuses

\* seat_set_focus_surface
LEMMA FocusSurfaceKeeps ==
  ASSUME NEW e, Sound(e), NEW l \in Layers
  PROVE  LET r == FocusSurface(e, l) IN Arranges(e, r) /\ r.layer = e.layer
<1> DEFINE c == IF e.has THEN ClearFocus(e) ELSE e
<1>1. Focuses(e, c)
  BY ClearFocusKeeps, ItselfFocuses
<1>2. Focuses(c, [c EXCEPT !.kbd = l])
  <2> HIDE DEF c
  <2> QED
    BY <1>1, LayerAssumption
       DEF Fields, Sound, Typed, LayerSound, Focuses, Arranges, Leads, Held
<1>3. Focuses(e, [c EXCEPT !.kbd = l])
  BY <1>1, <1>2, FocusesTwice
<1> QED
  BY <1>3 DEF FocusSurface, Focuses

\* seat_set_focus_layer asserts that the layer surface is mapped.
LEMMA GrabLayerKeeps ==
  ASSUME NEW e, Sound(e), NEW l \in Layers, e.shell[l].mapped
  PROVE  Arranges(e, GrabLayer(e, l))
<1> DEFINE x == e.excl \/ (/\ e.shell[l].level \in {"top", "overlay"}
                           /\ e.shell[l].wants = "exclusive")
           k == [e EXCEPT !.excl = x]
           f == FocusSurface(k, l)
           g == [f EXCEPT !.layer = l]
<1>1. Focuses(e, k) /\ Sound(k)
  <2> HIDE DEF x
  <2>1. Untouched(e, k)
    BY DEF Untouched, Fields, Sound, Typed
  <2> QED
    BY <2>1, UntouchedFocuses, FocusesArranges
<1>2. Arranges(k, f)
  <2> HIDE DEF k
  <2> QED
    BY <1>1, FocusSurfaceKeeps
<1>3. Arranges(e, f)
  <2> HIDE DEF k, f
  <2> QED
    BY <1>1, <1>2, FocusesArranges, ArrangesTwice
<1>4. Arranges(e, g)
  <2> HIDE DEF f
  <2> QED
    BY <1>3 DEF Arranges, Leads, Held, Sound, Typed, LayerSound, Fields
<1>5. GrabLayer(e, l) = IF e.layer = l THEN k ELSE g
  BY DEF GrabLayer
<1> HIDE DEF k, g
<1> QED
  BY <1>1, <1>4, <1>5, FocusesArranges

\* seat_set_focus: the surface that it gives the focus back to is still mapped.
LEMMA SetFocusKeeps == ASSUME NEW e, Sound(e), NEW n PROVE Arranges(e, SetFocus(e, n))
<1> DEFINE s == Append(Returning(e), n)
           f == FoldLeft(FocusNode, Layerless(e), s)
           l == IF e.excl THEN e.layer ELSE None
           g == Regrab(f, l)
<1>1. Sound(Layerless(e)) /\ Arranges(e, Layerless(e))
  BY LayerlessIs DEF Arranges, Leads, Held, Sound
<1>2. \E X : s \in Seq(X)
  <2>1. PICK X : Returning(e) \in Seq(X)
    BY ReturningIsList
  <2>2. s \in Seq(X \cup {n})
    BY <2>1
  <2> QED
    BY <2>2
<1>3. Focuses(Layerless(e), f)
  <2> HIDE DEF s
  <2> QED
    BY <1>1, <1>2, FocusNodesKeeps
<1>4. Arranges(e, f) /\ Sound(f)
  <2> HIDE DEF f
  <2> QED
    BY <1>1, <1>3, FocusesArranges, ArrangesTwice
<1>5. Arranges(e, g) /\ Sound(g)
  <2>1. CASE l = None
    BY <1>4, <2>1 DEF Regrab
  <2>2. CASE l # None
    <3> HIDE DEF f
    <3>1. l \in Layers /\ f.shell[l].mapped
      BY <1>4, <2>2 DEF Sound, LayerSound, Arranges
    <3>2. g = GrabLayer(f, l)
      BY <2>2 DEF Regrab
    <3> HIDE DEF l, g
    <3> QED
      BY <1>4, <3>1, <3>2, GrabLayerKeeps, ArrangesTwice, ArrangesLeads
  <2> QED
    BY <2>1, <2>2
<1>6. Arranges(e, Relock(g))
  <2> HIDE DEF g
  <2> QED
    BY <1>5, RelockKeeps, FocusesArranges, ArrangesTwice
<1>7. SetFocus(e, n) = Relock(g)
  BY DEF SetFocus
<1> QED
  BY <1>6, <1>7

-----------------------------------------------------------------------------
(* Nodes that are destroyed.                                                *)

\* A step that does nothing keeps the rest as well.
LEMMA ItselfArranges == ASSUME NEW e, Sound(e) PROVE Arranges(e, e) /\ Leads(e, e)
BY ItselfFocuses, FocusesArranges

\* The focus goes from one node to the other.
LEMMA SetFocusesKeeps ==
  ASSUME NEW e, Sound(e), NEW X, NEW s \in Seq(X)
  PROVE  Arranges(e, FoldLeft(SetFocus, e, s))
<1>1. \A a : \A x \in X : Arranges(e, a) => Arranges(e, SetFocus(a, x))
  BY SetFocusKeeps, ArrangesTwice, ArrangesLeads
<1> QED
  BY <1>1, ItselfArranges, SetFocusFold

\* handle_seat_node_destroy, of the workspace of the seat
LEMMA LeaveWorkspaceKeeps ==
  ASSUME NEW e, Sound(e), NEW w PROVE Arranges(e, LeaveWorkspace(e, w))
<1> DEFINE r == IF e.stack = <<>> THEN [e EXCEPT !.space = None] ELSE e
           n == FocusInactive(e, Root)
           s == IF n = None THEN <<None>> ELSE <<None, n>>
<1>1. Arranges(e, r) /\ Sound(r)
  <2>1. Untouched(e, [e EXCEPT !.space = None])
    BY DEF Untouched, Fields, Sound, Typed
  <2> QED
    BY <2>1, UntouchedFocuses, ItselfFocuses, FocusesArranges
<1>2. \E X : s \in Seq(X)
  <2>1. s \in Seq({None, n})
    OBVIOUS
  <2> QED
    BY <2>1
<1>3. Arranges(e, FoldLeft(SetFocus, r, s))
  <2> HIDE DEF r, s
  <2> QED
    BY <1>1, <1>2, SetFocusesKeeps, ArrangesTwice
<1> QED
  BY <1>3, ItselfArranges DEF LeaveWorkspace

\* workspace_begin_destroy
LEMMA DestroyWorkspaceKeeps ==
  ASSUME NEW e, Sound(e), NEW w PROVE Arranges(e, DestroyWorkspace(e, w))
<1> DEFINE r == LeaveWorkspace(Forget(e, w), w)
<1>1. Arranges(e, r) /\ Sound(r)
  BY ForgetKeeps, FocusesArranges, LeaveWorkspaceKeeps, ArrangesTwice, ArrangesLeads
<1>2. Arranges(e, WithoutWorkspace(r, w))
  <2> HIDE DEF r
  <2> QED
    BY <1>1, WithoutWorkspaceKeeps, FocusesArranges, ArrangesTwice
<1> QED
  BY <1>2 DEF DestroyWorkspace

\* workspace_consider_destroy
LEMMA ConsiderDestroyKeeps ==
  ASSUME NEW e, Sound(e), NEW w PROVE Arranges(e, ConsiderDestroy(e, w))
BY DestroyWorkspaceKeeps, ItselfArranges DEF ConsiderDestroy

\* Two nodes change their place in the stack.
LEMMA RawFocusTwiceKeeps ==
  ASSUME NEW e, Sound(e), NEW n, NEW m
  PROVE  Arranges(e, RawFocus(RawFocus(e, n), m)) /\ Sound(RawFocus(RawFocus(e, n), m))
BY RawFocusKeeps, FocusesArranges, ArrangesTwice

\* handle_seat_node_destroy, of a container: the focus passes to another node,
LEMMA PassFocusKeeps ==
  ASSUME NEW e, Sound(e), NEW next, NEW needed PROVE Arranges(e, PassFocus(e, next, needed))
<1> DEFINE n == FocusInactive(e, Root)
           w == IF n \in Containers THEN WorkspaceOf(e, n) ELSE None
           b == IF w # None THEN RawFocus(RawFocus(e, next), w) ELSE RawFocus(e, next)
<1>1. Arranges(e, b) /\ Sound(b)
  BY RawFocusTwiceKeeps, RawFocusKeeps, FocusesArranges
<1>2. Arranges(e, RawFocus(b, n))
  <2> HIDE DEF b, n
  <2> QED
    BY <1>1, RawFocusKeeps, FocusesArranges, ArrangesTwice
<1>3. Arranges(e, SendFocus(e, next)) /\ Arranges(e, SetFocus(e, next)) /\ Arranges(e, e)
  BY SendFocusKeeps, FocusesArranges, SetFocusKeeps, ItselfArranges
<1>4. PassFocus(e, next, needed) \in {e, RawFocus(b, n), SendFocus(e, next), SetFocus(e, next)}
  BY DEF PassFocus
<1> HIDE DEF b, n
<1> QED
  BY <1>2, <1>3, <1>4

\* ... if the container has it.
LEMMA ForgetContainerKeeps ==
  ASSUME NEW e, Sound(e), NEW c PROVE Arranges(e, ForgetContainer(e, c))
<1>1. Arranges(e, Forget(e, c)) /\ Sound(Forget(e, c))
  BY ForgetKeeps, FocusesArranges
<1> DEFINE needed == GetFocus(e) # None /\ (GetFocus(e) = c \/ c \in Ancestors(e, GetFocus(e)))
<1>2. Arranges(Forget(e, c), PassFocus(Forget(e, c), NextFocus(Forget(e, c), c), needed))
  <2> HIDE DEF needed
  <2> QED
    BY <1>1, PassFocusKeeps
<1> QED
  BY <1>1, <1>2, ArrangesTwice DEF ForgetContainer

\* container_begin_destroy
LEMMA DestroyContainerKeeps ==
  ASSUME NEW e, Sound(e), NEW c PROVE Arranges(e, DestroyContainer(e, c))
<1> DEFINE r == [e EXCEPT !.full = [w \in Workspaces |-> IF @[w] = c THEN None ELSE @[w]]]
           f == ForgetContainer(r, c)
<1>1. Arranges(e, r) /\ Sound(r)
  <2>1. Untouched(e, r)
    BY DEF Untouched, Fields, Sound, Typed
  <2> HIDE DEF r
  <2> QED
    BY <2>1, UntouchedFocuses, FocusesArranges
<1>2. Arranges(e, f) /\ Sound(f)
  <2> HIDE DEF r
  <2> QED
    BY <1>1, ForgetContainerKeeps, ArrangesTwice, ArrangesLeads
<1>3. Arranges(e, Detach(f, c))
  <2> HIDE DEF f
  <2> QED
    BY <1>2, DetachKeeps, FocusesArranges, ArrangesTwice
<1> QED
  BY <1>3 DEF DestroyContainer

\* container_reap_empty
LEMMA ReapEmptyKeeps == ASSUME NEW e, Sound(e), NEW k PROVE Arranges(e, ReapEmpty(e, k))
<1> DEFINE r == DestroyContainer(e, k)
<1>1. Arranges(e, r) /\ Sound(r)
  BY DestroyContainerKeeps, ArrangesLeads
<1>2. Arranges(e, ConsiderDestroy(r, WorkspaceOf(e, k)))
  <2> HIDE DEF r
  <2> QED
    BY <1>1, ConsiderDestroyKeeps, ArrangesTwice
<1> QED
  BY <1>2, ItselfArranges DEF ReapEmpty

-----------------------------------------------------------------------------
(* Layer surfaces.                                                          *)

\* The surface that arrange_layers gives the focus to is mapped.
LEMMA TopmostIsMapped ==
  ASSUME NEW e, Sound(e), NEW o, Topmost(e, o) # None
  PROVE  Topmost(e, o) \in Layers /\ e.shell[Topmost(e, o)].mapped
<1> DEFINE s == TopmostOf(e, o, "top") \o TopmostOf(e, o, "overlay")
<1>1. \A level : TopmostOf(e, o, level) \in Seq(Mapped(e))
  <2> TAKE level
  <2> DEFINE S == {l \in Mapped(e) : e.shell[l].at = o /\ e.shell[l].level = level
                                      /\ e.shell[l].wants = "exclusive"}
  <2>1. TopmostOf(e, o, level) = Keep(e.order, S)
    BY DEF TopmostOf
  <2>2. Keep(e.order, S) \in Seq(S)
    BY Keeps DEF Sound, Typed
  <2>3. S \subseteq Mapped(e)
    OBVIOUS
  <2> HIDE DEF S
  <2> QED
    BY <2>1, <2>2, <2>3
<1>2. s \in Seq(Mapped(e))
  BY <1>1
<1>3. Topmost(e, o) = IF s = <<>> THEN None ELSE s[Len(s)]
  BY DEF Topmost, Last
<1>4. Topmost(e, o) \in Mapped(e)
  <2> HIDE DEF s
  <2> QED
    BY <1>2, <1>3
<1> QED
  BY <1>4 DEF Mapped

\* arrange_layers
LEMMA ArrangeLayersKeeps ==
  ASSUME NEW e, Sound(e), NEW o PROVE Arranges(e, ArrangeLayers(e, o))
<1> DEFINE r == [e EXCEPT !.excl = FALSE]
           top == Topmost(e, o)
<1>1. Focuses(e, r) /\ Arranges(e, r) /\ Sound(r)
  <2>1. Untouched(e, r)
    BY DEF Untouched, Fields, Sound, Typed
  <2> HIDE DEF r
  <2> QED
    BY <2>1, UntouchedFocuses, FocusesArranges
<1>2. top # None => Arranges(e, GrabLayer(r, top))
  <2> SUFFICES ASSUME top # None PROVE Arranges(e, GrabLayer(r, top))
    OBVIOUS
  <2>1. top \in Layers /\ r.shell[top].mapped
    BY <1>1, TopmostIsMapped DEF Arranges
  <2> HIDE DEF r, top
  <2> QED
    BY <1>1, <2>1, GrabLayerKeeps, ArrangesTwice
<1>3. Arranges(e, DropLayer(r))
  <2> HIDE DEF r
  <2> QED
    BY <1>1, DropLayerKeeps, ArrangesTwice DEF Sound
<1>4. \/ ArrangeLayers(e, o) \in {r, DropLayer(r)}
      \/ top # None /\ ArrangeLayers(e, o) = GrabLayer(r, top)
  BY DEF ArrangeLayers
<1> HIDE DEF r, top
<1> QED
  BY <1>1, <1>2, <1>3, <1>4

\* ... of several outputs
LEMMA ArrangesKeeps ==
  ASSUME NEW e, Sound(e), NEW X, NEW s \in Seq(X)
  PROVE  Arranges(e, FoldLeft(ArrangeLayers, e, s))
<1>1. \A a : \A x \in X : Arranges(e, a) => Arranges(e, ArrangeLayers(a, x))
  BY ArrangeLayersKeeps, ArrangesTwice, ArrangesLeads
<1> QED
  BY <1>1, ItselfArranges, ArrangeFold

\* A change of the state of one layer surface
LEMMA ShellSound ==
  ASSUME NEW e, Typed(e), NEW l \in Layers, NEW x \in Surfaces, NEW order \in Seq(Layers),
         e.layer # None => e.layer \in Layers /\ (e.layer # l => e.shell[e.layer].mapped),
         e.layer = l => x.mapped,
         NEW r, r = [e EXCEPT !.order = order, !.shell[l] = x]
  PROVE  /\ Leads(e, r) /\ r.lock = e.lock /\ r.layer = e.layer /\ r.outs = e.outs
         /\ r.shell = [e.shell EXCEPT ![l] = x]
BY DEF Leads, Held, Sound, Typed, LayerSound, Fields

\* A layer surface that is not there has its type.
LEMMA NoSurfaceIs == NoSurface \in Surfaces
BY DEF NoSurface, Surfaces

\* handle_layer_shell_surface
LEMMA NewLayerKeeps ==
  ASSUME NEW e, Sound(e), NEW l \in Layers, NEW o \in Outputs, e.shell[l].at = None
  PROVE  Leads(e, NewLayer(e, l, o))
<1> DEFINE x == [NoSurface EXCEPT !.at = o]
<1>1. x \in Surfaces
  BY DEF NoSurface, Surfaces
<1>2. Append(e.order, l) \in Seq(Layers)
  BY DEF Sound, Typed
<1>3. NewLayer(e, l, o) = [e EXCEPT !.order = Append(e.order, l), !.shell[l] = x]
  BY DEF NewLayer, Sound, Typed, Fields
<1>4. e.layer # l
  BY LayerAssumption DEF Sound, Typed, LayerSound, Surfaces
<1>5. /\ Typed(e) /\ (e.layer = l => x.mapped)
      /\ e.layer # None => e.layer \in Layers /\ (e.layer # l => e.shell[e.layer].mapped)
  BY <1>4 DEF Sound, LayerSound
<1> DEFINE order == Append(e.order, l)
<1> HIDE DEF x, order
<1>6. Leads(e, [e EXCEPT !.order = order, !.shell[l] = x])
  BY <1>1, <1>2, <1>5, ShellSound DEF order
<1> QED
  BY <1>3, <1>6 DEF order

\* handle_unmap: the surface has the focus no longer.
LEMMA UnmappedKeeps ==
  ASSUME NEW e, Sound(e), NEW l \in Layers
  PROVE  LET r == Unmapped(e, l)
         IN  /\ Leads(e, r) /\ r.layer # l /\ r.lock = e.lock /\ r.outs = e.outs
             /\ r.order = e.order /\ \A k \in Layers \ {l} : r.shell[k] = e.shell[k]
<1> DEFINE h == [e EXCEPT !.shell[l].mapped = FALSE]
           r == Unmapped(e, l)
<1>1. /\ Typed(h) /\ h.layer = e.layer /\ h.lock = e.lock /\ h.outs = e.outs /\ h.kbd = e.kbd
      /\ h.order = e.order /\ \A k \in Layers \ {l} : h.shell[k] = e.shell[k]
  BY DEF Sound, Typed, Fields, Surfaces
<1>2. CASE e.layer = l
  <2>1. r = DropLayer(h)
    BY <1>2 DEF Unmapped
  <2> HIDE DEF h, r
  <2>2. Arranges(h, r) /\ r.layer = None
    BY <1>1, <2>1, DropLayerKeeps
  <2> QED
    BY <1>1, <2>2, LayerAssumption DEF Arranges, Leads, Held, r
<1>3. CASE e.layer # l
  <2>1. r = h
    BY <1>3 DEF Unmapped
  <2> HIDE DEF h, r
  <2>2. Sound(h)
    BY <1>1, <1>3 DEF Sound, LayerSound
  <2> QED
    BY <1>1, <1>3, <2>1, <2>2 DEF Leads, Held, r
<1> QED
  BY <1>2, <1>3

\* A commit that unmaps the surface
LEMMA UnmapLayerKeeps ==
  ASSUME NEW e, Sound(e), NEW l \in Layers PROVE Leads(e, UnmapLayer(e, l))
<1>1. Leads(e, Unmapped(e, l)) /\ Sound(Unmapped(e, l))
  BY UnmappedKeeps DEF Leads
<1> QED
  BY <1>1, ArrangeLayersKeeps, ArrangesLeads, LeadsTwice DEF UnmapLayer

\* The surface is gone, and the others are what they were.
LEMMA WithoutLayerKeeps ==
  ASSUME NEW e, Sound(e), NEW l \in Layers
  PROVE  LET r == WithoutLayer(e, l)
         IN  Leads(e, r) /\ \A k \in Layers \ {l} : r.shell[k] = e.shell[k]
<1> DEFINE u == Unmapped(e, l)
           r == WithoutLayer(e, l)
           order == Keep(u.order, Layers \ {l})
<1>1. /\ Leads(e, u) /\ u.layer # l /\ Sound(u)
      /\ \A k \in Layers \ {l} : u.shell[k] = e.shell[k]
  BY UnmappedKeeps DEF Leads
<1>2. order \in Seq(Layers)
  <2>1. order \in Seq(Layers \ {l})
    <3> HIDE DEF u
    <3> QED
      BY <1>1, Keeps DEF Sound, Typed
  <2> HIDE DEF order
  <2> QED
    BY <2>1
<1>3. r = [u EXCEPT !.order = order, !.shell[l] = NoSurface]
  <2> HIDE DEF u
  <2>1. r = [u EXCEPT !.shell[l] = NoSurface, !.order = Keep(@, Layers \ {l})]
    BY DEF WithoutLayer, u
  <2> QED
    BY <1>1, <2>1 DEF Sound, Typed, Fields
<1>4. Leads(u, r) /\ r.shell = [u.shell EXCEPT ![l] = NoSurface]
  <2> HIDE DEF u, order, r
  <2> QED
    BY <1>1, <1>2, <1>3, NoSurfaceIs DEF Leads, Held, Sound, Typed, LayerSound, Fields
<1> HIDE DEF u, r
<1>5. Leads(e, r)
  BY <1>1, <1>4, LeadsTwice
<1>6. \A k \in Layers \ {l} : r.shell[k] = e.shell[k]
  BY <1>1, <1>4 DEF Sound, Typed
<1> QED
  BY <1>5, <1>6 DEF r

\* Who is destroyed loses the keyboard.
LEMMA SurfaceGoneKeeps == ASSUME NEW e, Sound(e), NEW s PROVE Focuses(e, SurfaceGone(e, s))
BY FocusAssumption
   DEF SurfaceGone, Fields, Sound, Typed, LayerSound, Focuses, Arranges, Leads, Held

\* handle_node_destroy: the surface of the same client that gets the focus is mapped.
LEMMA DestroyLayerKeeps ==
  ASSUME NEW e, Sound(e), NEW l \in Layers, NEW disabled \in BOOLEAN
  PROVE  Leads(e, DestroyLayer(e, l, disabled))
<1> DEFINE o == e.shell[l].at
           others == OthersOfClient(e, l, IF disabled THEN None ELSE o)
           w == WithoutLayer(e, l)
           g == GrabOther(w, others)
           s == IF disabled THEN <<>> ELSE <<o>>
           a == FoldLeft(ArrangeLayers, g, s)
<1>1. Leads(e, w) /\ Sound(w) /\ \A k \in Layers \ {l} : w.shell[k] = e.shell[k]
  BY WithoutLayerKeeps DEF Leads
<1>2. others \subseteq {k \in Layers \ {l} : e.shell[k].mapped}
  BY DEF OthersOfClient, Mapped
<1>3. Leads(w, g) /\ Sound(g)
  <2>1. CASE others = {} \/ w.lock # None
    BY <1>1, <2>1, ItselfArranges DEF GrabOther
  <2>2. CASE ~(others = {} \/ w.lock # None)
    <3> HIDE DEF w, others
    <3> DEFINE k == CHOOSE k \in others : TRUE
    <3>1. k \in others
      BY <2>2
    <3>2. k \in Layers /\ w.shell[k].mapped
      <4> HIDE DEF k
      <4> QED
        BY <1>1, <1>2, <3>1
    <3>3. g = GrabLayer(w, k)
      BY <2>2 DEF GrabOther
    <3> HIDE DEF k, g
    <3> QED
      BY <1>1, <3>2, <3>3, GrabLayerKeeps, ArrangesLeads
  <2> QED
    BY <2>1, <2>2
<1>4. \E X : s \in Seq(X)
  <2>1. s \in Seq({o})
    <3> HIDE DEF o
    <3>1. <<o>> \in Seq({o}) /\ <<>> \in Seq({o})
      OBVIOUS
    <3>2. s = <<>> \/ s = <<o>>
      BY Zenon
    <3> HIDE DEF s
    <3> QED
      BY <3>1, <3>2
  <2> QED
    BY <2>1
<1>5. Leads(e, a) /\ Sound(a)
  <2> HIDE DEF g, s, w
  <2> QED
    BY <1>1, <1>3, <1>4, ArrangesKeeps, ArrangesLeads, LeadsTwice
<1>6. Leads(e, SurfaceGone(a, l))
  <2> HIDE DEF a
  <2> QED
    BY <1>5, SurfaceGoneKeeps, FocusesArranges, LeadsTwice
<1> QED
  BY <1>6 DEF DestroyLayer

\* The list of layer surfaces after a change of the level of one
LEMMA RestackedKeeps ==
  ASSUME NEW e, Sound(e), NEW l \in Layers, NEW level
  PROVE  LET r == Restacked(e, l, level)
         IN  /\ Sound(r) /\ r.shell = e.shell /\ r.lock = e.lock /\ r.layer = e.layer
             /\ r.kbd = e.kbd
<1> DEFINE order == Keep(e.order, Layers \ {l}) \o <<l>>
<1>1. order \in Seq(Layers)
  <2>1. Keep(e.order, Layers \ {l}) \in Seq(Layers \ {l})
    BY Keeps DEF Sound, Typed
  <2> QED
    BY <2>1
<1>2. Restacked(e, l, level) \in {e, [e EXCEPT !.order = order]}
  BY DEF Restacked, Sound, Typed, Fields
<1> HIDE DEF order
<1> QED
  BY <1>1, <1>2 DEF Sound, Typed, LayerSound, Fields

\* A layer surface that is mapped gets another level and another wish.
LEMMA RestatedKeeps ==
  ASSUME NEW e, Sound(e), NEW l \in Layers, NEW level \in Levels, NEW x \in Surfaces, x.mapped
  PROVE  LET r == [Restacked(e, l, level) EXCEPT !.shell[l] = x]
         IN  Leads(e, r) /\ r.shell[l].mapped
<1> DEFINE q == Restacked(e, l, level)
           r == [q EXCEPT !.shell[l] = x]
<1>1. /\ Sound(q) /\ q.shell = e.shell /\ q.lock = e.lock /\ q.layer = e.layer /\ q.kbd = e.kbd
  BY RestackedKeeps
<1> HIDE DEF q
<1>2. Leads(e, r) /\ r.shell[l].mapped
  BY <1>1 DEF Leads, Held, Sound, Typed, LayerSound, Fields
<1> QED
  BY <1>2 DEF q

\* handle_surface_commit, of a surface that stays mapped
LEMMA CommitLayerKeeps ==
  ASSUME NEW e, Sound(e), NEW l \in Layers, NEW level \in Levels, NEW wants \in Wants,
         e.shell[l].mapped
  PROVE  Leads(e, CommitLayer(e, l, level, wants))
<1> DEFINE q == Restacked(e, l, level)
           x == [e.shell[l] EXCEPT !.level = level, !.wants = wants]
           r == [q EXCEPT !.shell[l] = x]
<1>1. x \in Surfaces /\ x.mapped
  BY LayerAssumption DEF Sound, Typed, Surfaces
<1>2. Leads(e, r) /\ Sound(r)
  <2> HIDE DEF x
  <2> QED
    BY <1>1, RestatedKeeps DEF Leads
<1>3. Leads(e, ArrangeLayers(r, e.shell[l].at))
  <2> HIDE DEF r
  <2> QED
    BY <1>2, ArrangeLayersKeeps, ArrangesLeads, LeadsTwice
<1>4. [q EXCEPT !.shell[l].level = level, !.shell[l].wants = wants] = r
  <2>1. Sound(q) /\ q.shell = e.shell
    BY RestackedKeeps
  <2> HIDE DEF q
  <2> QED
    BY <2>1 DEF Sound, Typed, Fields
<1> QED
  BY <1>3, <1>4 DEF CommitLayer

\* ... and of one that is mapped by it
LEMMA MapLayerKeeps ==
  ASSUME NEW e, Sound(e), NEW l \in Layers, NEW level \in Levels, NEW wants \in Wants,
         e.shell[l].at # None
  PROVE  Leads(e, MapLayer(e, l, level, wants))
<1> DEFINE first == e.layer = None \/ Rank(e.shell[e.layer].level) >= Rank(level)
           asks == wants # "none" /\ level # "bottom"
           o == e.shell[l].at
           x == [e.shell[l] EXCEPT !.level = level, !.wants = wants, !.mapped = TRUE]
           q == Restacked(e, l, level)
           r == [q EXCEPT !.shell[l] = x]
           g == IF first /\ asks THEN GrabLayer(r, l) ELSE r
           s == IF asks THEN <<o, o>> ELSE <<o>>
<1>1. x \in Surfaces /\ x.mapped
  <2> DEFINE y == e.shell[l]
  <2>1. y \in Surfaces /\ y.at # None
    BY DEF Sound, Typed
  <2>2. x = [y EXCEPT !.level = level, !.wants = wants, !.mapped = TRUE]
    OBVIOUS
  <2> HIDE DEF x, y
  <2> QED
    BY <2>1, <2>2, LayerAssumption DEF Surfaces
<1>2. Leads(e, r) /\ Sound(r) /\ r.shell[l].mapped
  <2> HIDE DEF x
  <2> QED
    BY <1>1, RestatedKeeps DEF Leads
<1>3. Leads(e, g) /\ Sound(g)
  <2> HIDE DEF r, first, asks
  <2>1. Leads(r, GrabLayer(r, l)) /\ Leads(r, r)
    BY <1>2, GrabLayerKeeps, ItselfArranges, ArrangesLeads
  <2> QED
    BY <1>2, <2>1, LeadsTwice DEF Leads
<1>4. \E X : s \in Seq(X)
  <2> HIDE DEF o, asks
  <2>1. <<o>> \in Seq({o}) /\ <<o, o>> \in Seq({o})
    OBVIOUS
  <2>2. s = <<o>> \/ s = <<o, o>>
    BY Zenon
  <2> HIDE DEF s
  <2> QED
    BY <2>1, <2>2
<1>5. Leads(e, FoldLeft(ArrangeLayers, g, s))
  <2> HIDE DEF g, s
  <2> QED
    BY <1>3, <1>4, ArrangesKeeps, ArrangesLeads, LeadsTwice
<1>6. [q EXCEPT !.shell[l] = [@ EXCEPT !.level = level, !.wants = wants, !.mapped = TRUE]] = r
  <2>1. Sound(q) /\ q.shell = e.shell
    BY RestackedKeeps
  <2> HIDE DEF q
  <2> QED
    BY <2>1 DEF Sound, Typed, Fields
<1>7. MapLayer(e, l, level, wants) = FoldLeft(ArrangeLayers, g, s)
  <2> HIDE DEF x
  <2> QED
    BY <1>6 DEF MapLayer
<1> QED
  BY <1>5, <1>7

-----------------------------------------------------------------------------
(* The session lock.                                                        *)

\* focus_surface, which gives the keyboard to a lock surface or to nobody
LEMMA FocusLockKeeps ==
  ASSUME NEW e, Sound(e), e.lock # None, NEW s \in LockSurfaces \cup {None}
  PROVE  Leads(e, FocusLock(e, s))
<1> DEFINE r == FocusLock(e, s)
           lock == [e.lock EXCEPT !.focused = s]
<1>1. e.lock \in Locks
  BY DEF Sound, Typed
<1>2. lock \in Locks
  BY <1>1 DEF Locks
<1>3. r = [e EXCEPT !.lock = lock, !.kbd = s]
  BY DEF FocusLock, Sound, Typed, Fields
<1>4. s \notin Windows
  BY FocusAssumption, LayerAssumption
<1> HIDE DEF lock, r
<1>5. Leads(e, r)
  BY <1>2, <1>3, <1>4, LayerAssumption DEF Leads, Held, Sound, Typed, LayerSound, Fields
<1> QED
  BY <1>5 DEF r

\* A lock surface comes or goes.
LEMMA LockStateKeeps ==
  ASSUME NEW e, Sound(e), e.lock # None, NEW o \in Outputs,
         NEW state \in {"no output", "none", "mapped"}
  PROVE  Leads(e, [e EXCEPT !.lock.surface[o] = state])
<1> DEFINE r == [e EXCEPT !.lock.surface[o] = state]
           lock == [e.lock EXCEPT !.surface[o] = state]
<1>1. e.lock \in Locks
  BY DEF Sound, Typed
<1>2. lock \in Locks
  BY <1>1 DEF Locks
<1>3. r = [e EXCEPT !.lock = lock]
  BY DEF Sound, Typed, Fields
<1> HIDE DEF lock, r
<1>4. Leads(e, r)
  BY <1>2, <1>3, LayerAssumption DEF Leads, Held, Sound, Typed, LayerSound, Fields
<1> QED
  BY <1>4 DEF r

\* handle_surface_map
LEMMA MapLockSurfaceKeeps ==
  ASSUME NEW e, Sound(e), e.lock # None, NEW o \in Outputs
  PROVE  Leads(e, MapLockSurface(e, o))
<1> DEFINE r == [e EXCEPT !.lock.surface[o] = "mapped"]
<1>1. Leads(e, r) /\ Sound(r) /\ r.lock # None
  BY LockStateKeeps DEF Leads, Held
<1>2. LockSurface(o) \in LockSurfaces
  BY DEF LockSurfaces
<1>3. Leads(e, FocusLock(r, LockSurface(o)))
  <2> HIDE DEF r
  <2> QED
    BY <1>1, <1>2, FocusLockKeeps, LeadsTwice
<1> QED
  BY <1>1, <1>3 DEF MapLockSurface

\* handle_surface_destroy: the focus passes to another surface of the lock.
LEMMA DestroyLockSurfaceKeeps ==
  ASSUME NEW e, Sound(e), e.lock # None, NEW o \in Outputs
  PROVE  Leads(e, DestroyLockSurface(e, o))
<1> DEFINE others == {LockSurface(p) : p \in {p \in Outputs \ {o} : e.lock.surface[p] = "mapped"}}
           r == [e EXCEPT !.lock.surface[o] = "none"]
           f == IF e.lock.focused = LockSurface(o) THEN FocusLock(r, Only(others)) ELSE r
<1>1. Leads(e, r) /\ Sound(r) /\ r.lock # None
  BY LockStateKeeps DEF Leads, Held
<1>2. Only(others) \in LockSurfaces \cup {None}
  <2>1. others \subseteq LockSurfaces
    BY DEF LockSurfaces
  <2> HIDE DEF others
  <2> QED
    BY <2>1 DEF Only
<1>3. Leads(e, f) /\ Sound(f)
  <2> HIDE DEF r, others
  <2> QED
    BY <1>1, <1>2, FocusLockKeeps, LeadsTwice DEF Leads
<1>4. Leads(e, SurfaceGone(f, LockSurface(o)))
  <2> HIDE DEF f
  <2> QED
    BY <1>3, SurfaceGoneKeeps, FocusesArranges, LeadsTwice
<1> QED
  BY <1>4 DEF DestroyLockSurface

\* handle_abandon: the lock stays.
LEMMA AbandonLockKeeps ==
  ASSUME NEW e, Sound(e), e.lock # None PROVE Leads(e, AbandonLock(e))
<1> DEFINE S == {o \in Outputs : e.lock.surface[o] = "mapped"}
           r == DestroyLockSurfaces(e, S)
<1>1. IsFiniteSet(S)
  BY FS_Subset, FocusAssumption
<1>2. StaysLocked(e, e)
  BY ItselfArranges DEF StaysLocked
<1>3. \A a : \A o \in S : StaysLocked(e, a) => StaysLocked(e, DestroyLockSurface(a, o))
  BY DestroyLockSurfaceKeeps, LeadsTwice DEF StaysLocked, Leads, Held
<1>4. Leads(e, r)
  <2>1. StaysLocked(e, r)
    <3> HIDE DEF S
    <3> QED
      BY <1>1, <1>2, <1>3, LockFold
  <2> QED
    BY <2>1 DEF StaysLocked
<1> DEFINE lock == [r.lock EXCEPT !.abandoned = TRUE]
           a == [r EXCEPT !.lock = lock]
<1>5. AbandonLock(e) = [r EXCEPT !.lock.abandoned = TRUE]
  BY DEF AbandonLock, LockSurfacesGone
<1> HIDE DEF r
<1>6. r.lock \in Locks
  BY <1>4 DEF Leads, Held, Sound, Typed
<1>7. lock \in Locks
  BY <1>6 DEF Locks
<1>8. AbandonLock(e) = a
  BY <1>4, <1>5 DEF Leads, Sound, Typed, Fields
<1> HIDE DEF lock
<1>9. Leads(e, a)
  BY <1>4, <1>7, LayerAssumption DEF Leads, Held, Sound, Typed, LayerSound, Fields
<1> QED
  BY <1>8, <1>9

\* A desktop with another lock, or none
LEMMA OtherLockSound ==
  ASSUME NEW e, Sound(e), NEW lock \in Locks \cup {None}
  PROVE  Sound([e EXCEPT !.lock = lock])
BY DEF Sound, Typed, LayerSound, Fields

\* handle_session_lock: there is a lock.
LEMMA GrantLockSound ==
  ASSUME NEW e, Sound(e), NEW S PROVE Sound(GrantLock(e, S)) /\ GrantLock(e, S).lock # None
<1> DEFINE r == [e EXCEPT !.lock = None]
           f == DropLayer(r)
           c == Relock(ClearFocus(f))
           u == UnfocusAll(r)
<1>1. Sound(r)
  BY OtherLockSound
<1>2. Sound(f)
  <2> HIDE DEF r
  <2> QED
    BY <1>1, DropLayerKeeps, ArrangesLeads DEF Sound
<1>3. Sound(c)
  <2> HIDE DEF f
  <2> QED
    BY <1>2, ClearFocusKeeps, RelockKeeps, FocusesArranges
<1>4. u = f \/ u = c
  <2> HIDE DEF r
  <2> QED
    BY DEF UnfocusAll
<1>5. Sound(u)
  BY <1>2, <1>3, <1>4
<1>6. NewLockOn(S) \in Locks
  BY DEF NewLockOn, Locks
<1>7. GrantLock(e, S) = [u EXCEPT !.lock = NewLockOn(S)]
  BY DEF GrantLock
<1> DEFINE lock == NewLockOn(S)
           g == [u EXCEPT !.lock = lock]
<1> HIDE DEF u, lock
<1>8. Sound(g)
  BY <1>5, <1>6, OtherLockSound DEF lock
<1>9. g.lock = lock
  BY <1>5 DEF Sound, Typed, Fields
<1> QED
  BY <1>6, <1>7, <1>8, <1>9, LayerAssumption DEF lock

\* handle_unlock
LEMMA UnlockSound == ASSUME NEW e, Sound(e) PROVE Sound(Unlock(e))
<1> DEFINE last == FocusInactive(e, Root)
           again == IF last = None THEN <<>> ELSE <<None, last>>
           r == [e EXCEPT !.lock = None, !.kbd = None]
           f == FoldLeft(SetFocus, r, again)
<1>1. Sound(r)
  BY DEF Sound, Typed, LayerSound, Fields
<1>2. again \in Seq({None, last})
  <2> HIDE DEF last
  <2>1. <<>> \in Seq({None, last}) /\ <<None, last>> \in Seq({None, last})
    OBVIOUS
  <2>2. again = <<>> \/ again = <<None, last>>
    BY Zenon
  <2> HIDE DEF again
  <2> QED
    BY <2>1, <2>2
<1>3. Sound(f)
  <2> HIDE DEF r, again
  <2> QED
    BY <1>1, <1>2, SetFocusesKeeps, ArrangesLeads
<1>4. Sound(FoldLeft(ArrangeLayers, f, e.outs))
  <2> HIDE DEF f
  <2>1. e.outs \in Seq(Outputs)
    BY DEF Sound, Typed
  <2> QED
    BY <1>3, <2>1, ArrangesKeeps, ArrangesLeads
<1> QED
  BY <1>4 DEF Unlock

-----------------------------------------------------------------------------
(* Workspaces and outputs.                                                  *)

\* workspace_output_add_priority
LEMMA AddPriorityKeeps ==
  ASSUME NEW e, Sound(e), NEW w, NEW o PROVE Focuses(e, AddPriority(e, w, o))
<1>1. Untouched(e, AddPriority(e, w, o))
  BY DEF Untouched, AddPriority, Fields, Sound, Typed
<1> QED
  BY <1>1, UntouchedFocuses

\* workspace_output_raise_priority
LEMMA RaisePriorityKeeps ==
  ASSUME NEW e, Sound(e), NEW w, NEW old, NEW new
  PROVE  Focuses(e, RaisePriority(e, w, old, new))
<1>1. \E s : RaisePriority(e, w, old, new) \in {e, [e EXCEPT !.homes[w] = s]}
  BY DEF RaisePriority
<1>2. \A s : Untouched(e, [e EXCEPT !.homes[w] = s])
  BY DEF Untouched, Fields, Sound, Typed
<1> QED
  BY <1>1, <1>2, UntouchedFocuses, ItselfFocuses

\* The list of workspaces of one output may change.
LEMMA SpaceKeeps ==
  ASSUME NEW e, Sound(e), NEW o, NEW s, o \in AllOutputs => IsList(s)
  PROVE  Focuses(e, [e EXCEPT !.spaces[o] = s])
<1> DEFINE r == [e EXCEPT !.spaces[o] = s]
<1>1. Fields \subseteq DOMAIN r /\ \A f \in Fields \ {"spaces"} : r[f] = e[f]
  BY DEF Fields, Sound, Typed
<1>2. r.spaces = [e.spaces EXCEPT ![o] = s]
  BY DEF Fields, Sound, Typed
<1>3. DOMAIN r.spaces = AllOutputs /\ \A p \in AllOutputs : IsList(r.spaces[p])
  BY <1>2 DEF Sound, Typed
<1> HIDE DEF r
<1>4. Focuses(e, r)
  BY <1>1, <1>3, SpacesFocuses
<1> QED
  BY <1>4 DEF r

\* A list with one more element is a list,
LEMMA AppendIsList == ASSUME NEW s, IsList(s), NEW w PROVE IsList(Append(s, w))
<1>1. Append(s, w) \in Seq(ToSet(s) \cup {w})
  BY DEF IsList
<1> QED
  BY <1>1, ListOf

\* ... and so is a sorted one.
LEMMA SortIsList == ASSUME NEW s, IsList(s) PROVE IsList(SortByNumber(s))
<1> DEFINE S == ToSet(s)
           t == SortByNumber(s)
<1>1. IsFiniteSet(S)
  <2>1. s \in Seq(S)
    BY DEF IsList
  <2>2. IsFiniteSet(DOMAIN s)
    BY <2>1, Positions
  <2>3. s \in Surjection(DOMAIN s, S)
    BY <2>1 DEF ToSet, Surjection
  <2> QED
    BY <2>2, <2>3, FS_Surjection
<1>2. Cardinality(S) \in Nat
  BY <1>1, FS_CardinalityType
<1>3. DOMAIN t = 1..Cardinality(S) /\ t = [i \in DOMAIN t |-> t[i]]
  BY DEF SortByNumber
<1>4. \A i \in DOMAIN t : t[i] \in ToSet(t)
  BY DEF ToSet
<1> HIDE DEF t, S
<1>5. t \in Seq(ToSet(t))
  BY <1>2, <1>3, <1>4
<1> QED
  BY <1>5 DEF IsList, t

\* A workspace is appended to those of an output.
LEMMA AppendSpaceKeeps ==
  ASSUME NEW e, Sound(e), NEW w, NEW o
  PROVE  Focuses(e, [e EXCEPT !.spaces[o] = Append(@, w)])
<1> DEFINE s == Append(e.spaces[o], w)
<1>1. o \in AllOutputs => IsList(s)
  BY AppendIsList DEF Sound, Typed
<1>2. Focuses(e, [e EXCEPT !.spaces[o] = s])
  <2> HIDE DEF s
  <2> QED
    BY <1>1, SpaceKeeps
<1> QED
  BY <1>2

\* output_sort_workspaces
LEMMA SortKeeps == ASSUME NEW e, Sound(e), NEW o PROVE Focuses(e, Sort(e, o))
<1> DEFINE s == SortByNumber(e.spaces[o])
<1>1. o \in AllOutputs => IsList(s)
  BY SortIsList DEF Sound, Typed
<1>2. Focuses(e, [e EXCEPT !.spaces[o] = s])
  <2> HIDE DEF s
  <2> QED
    BY <1>1, SpaceKeeps
<1> QED
  BY <1>2 DEF Sort

\* output_add_workspace
LEMMA AddWorkspaceKeeps ==
  ASSUME NEW e, Sound(e), NEW w, NEW o PROVE Focuses(e, AddWorkspace(e, w, o))
<1> DEFINE r == DetachWorkspace(e, w)
           u == [r EXCEPT !.up[w] = o]
<1>1. Focuses(e, r) /\ Sound(r)
  BY DetachWorkspaceKeeps, FocusesArranges
<1>2. Untouched(r, u)
  <2> HIDE DEF r
  <2> QED
    BY <1>1 DEF Untouched, Fields, Sound, Typed
<1>3. Focuses(e, u) /\ Sound(u)
  <2> HIDE DEF r, u
  <2> QED
    BY <1>1, <1>2, UntouchedFocuses, FocusesTwice, FocusesArranges
<1>4. Focuses(e, [u EXCEPT !.spaces[o] = Append(@, w)])
  <2> HIDE DEF u
  <2> QED
    BY <1>3, AppendSpaceKeeps, FocusesTwice
<1>5. AddWorkspace(e, w, o) = [u EXCEPT !.spaces[o] = Append(@, w)]
  <2>1. AddWorkspace(e, w, o) = [r EXCEPT !.up[w] = o, !.spaces[o] = Append(@, w)]
    BY DEF AddWorkspace
  <2> HIDE DEF r
  <2> QED
    BY <2>1
<1> QED
  BY <1>4, <1>5

\* ... of several workspaces
LEMMA AddAllKeeps ==
  ASSUME NEW e, Sound(e), NEW X, NEW s \in Seq(X), NEW o PROVE Focuses(e, AddAll(e, s, o))
<1>1. \A a : \A x \in X : Focuses(e, a) => Focuses(e, AddWorkspace(a, x, o))
  BY AddWorkspaceKeeps, FocusesTwice, FocusesArranges
<1> QED
  BY <1>1, ItselfFocuses, AddFold

\* workspace_create
LEMMA CreateWorkspaceKeeps ==
  ASSUME NEW e, Sound(e), NEW w, NEW o PROVE Focuses(e, CreateWorkspace(e, w, o))
<1> DEFINE h == [e EXCEPT !.homes[w] = <<>>]
           p == AddPriority(h, w, o)
           a == [p EXCEPT !.spaces[o] = Append(@, w)]
           n == NewNode(a, w, o)
<1>1. Untouched(e, h)
  BY DEF Untouched, Fields, Sound, Typed
<1>2. Focuses(e, h) /\ Sound(h)
  BY <1>1, UntouchedFocuses, FocusesArranges
<1>3. Focuses(e, p) /\ Sound(p)
  <2> HIDE DEF h
  <2> QED
    BY <1>2, AddPriorityKeeps, FocusesTwice, FocusesArranges
<1>4. Focuses(e, a) /\ Sound(a)
  <2> HIDE DEF p
  <2> QED
    BY <1>3, AppendSpaceKeeps, FocusesTwice, FocusesArranges
<1>5. Focuses(e, n) /\ Sound(n)
  <2> HIDE DEF a
  <2> QED
    BY <1>4, NewNodeKeeps, FocusesTwice, FocusesArranges
<1>6. Focuses(e, Sort(n, o))
  <2> HIDE DEF n
  <2> QED
    BY <1>5, SortKeeps, FocusesTwice
<1> QED
  BY <1>6 DEF CreateWorkspace

\* An output without workspaces gets one.
LEMMA RefillKeeps == ASSUME NEW e, Sound(e), NEW p PROVE Focuses(e, Refill(e, p))
BY CreateWorkspaceKeeps, ItselfFocuses DEF Refill

\* restore_workspaces, from one output
LEMMA RestoreFromKeeps ==
  ASSUME NEW e, Sound(e), NEW o, NEW p \in AllOutputs PROVE Focuses(e, RestoreFrom(e, o, p))
<1> DEFINE S == {w \in Workspaces : Highest(e, w) = o}
           back == Keep(e.spaces[p], S)
           a == AddAll(e, back, o)
<1>1. back \in Seq(S)
  <2>1. e.spaces[p] \in Seq(ToSet(e.spaces[p]))
    BY DEF Sound, Typed, IsList
  <2> HIDE DEF S
  <2> QED
    BY <2>1, Keeps
<1>2. Focuses(e, a) /\ Sound(a)
  <2> HIDE DEF back, S
  <2> QED
    BY <1>1, AddAllKeeps, FocusesArranges
<1>3. Focuses(e, Refill(a, p))
  <2> HIDE DEF a
  <2> QED
    BY <1>2, RefillKeeps, FocusesTwice
<1> QED
  BY <1>3, ItselfFocuses DEF RestoreFrom

\* ... from all of them, and from the fallback output
LEMMA RestoreKeeps == ASSUME NEW e, Sound(e), NEW o PROVE Focuses(e, Restore(e, o))
<1> DEFINE a == RestoreFromAll(e, e.outs, o)
           r == Rescue(a, o)
<1>1. Focuses(e, a) /\ Sound(a)
  <2>1. \A q : \A x \in AllOutputs : Focuses(e, q) => Focuses(e, RestoreFrom(q, o, x))
    BY RestoreFromKeeps, FocusesTwice, FocusesArranges
  <2>2. e.outs \in Seq(AllOutputs)
    BY DEF Sound, Typed, AllOutputs
  <2> QED
    BY <2>1, <2>2, ItselfFocuses, RestoreFold, FocusesArranges
<1>2. Focuses(e, r) /\ Sound(r)
  <2> HIDE DEF a
  <2>1. a.spaces[Fallback] \in Seq(ToSet(a.spaces[Fallback]))
    BY <1>1 DEF Sound, Typed, IsList, AllOutputs
  <2> QED
    BY <1>1, <2>1, AddAllKeeps, FocusesTwice, FocusesArranges DEF Rescue
<1>3. Focuses(e, Sort(r, o))
  <2> HIDE DEF r
  <2> QED
    BY <1>2, SortKeeps, FocusesTwice
<1> QED
  BY <1>3 DEF Restore

\* output_enable, the workspace of an output that has none
LEMMA FilledKeeps == ASSUME NEW e, Sound(e), NEW o PROVE Arranges(e, Filled(e, o))
<1> DEFINE w == NextNumber(e)
           m == CreateWorkspace(e, w, o)
<1>1. Arranges(e, m) /\ Sound(m)
  BY CreateWorkspaceKeeps, FocusesArranges
<1>2. Arranges(e, SetFocus(m, w))
  <2> HIDE DEF m, w
  <2> QED
    BY <1>1, SetFocusKeeps, ArrangesTwice
<1> QED
  BY <1>1, <1>2, ItselfArranges DEF Filled

\* The list of the enabled outputs may change.
LEMMA OutsLeads ==
  ASSUME NEW e, Sound(e), NEW s \in Seq(Outputs)
  PROVE  Leads(e, [e EXCEPT !.outs = s])
BY DEF Leads, Held, Sound, Typed, LayerSound, Fields

\* output_enable
LEMMA EnableOutputKeeps ==
  ASSUME NEW e, Sound(e), NEW o \in Outputs PROVE Leads(e, EnableOutput(e, o))
<1> DEFINE outs == Append(e.outs, o)
           l == [e EXCEPT !.outs = outs]
           r == Restore(l, o)
           f == Filled(r, o)
<1>1. outs \in Seq(Outputs)
  BY DEF Sound, Typed
<1>2. Leads(e, l) /\ Sound(l)
  <2> HIDE DEF outs
  <2> QED
    BY <1>1, OutsLeads DEF Leads
<1>3. Leads(e, r) /\ Sound(r)
  <2> HIDE DEF l
  <2> QED
    BY <1>2, RestoreKeeps, FocusesArranges, LeadsTwice
<1>4. Leads(e, f) /\ Sound(f)
  <2> HIDE DEF r
  <2> QED
    BY <1>3, FilledKeeps, ArrangesLeads, LeadsTwice
<1>5. l.outs \in Seq(Outputs)
  BY <1>2 DEF Sound, Typed
<1>6. Leads(e, FoldLeft(ArrangeLayers, f, l.outs))
  <2> HIDE DEF f, l
  <2> QED
    BY <1>4, <1>5, ArrangesKeeps, ArrangesLeads, LeadsTwice
<1> QED
  BY <1>6 DEF EnableOutput

\* evacuate_sticky
LEMMA EvacuateStickyKeeps ==
  ASSUME NEW e, Sound(e), NEW w, NEW v PROVE Focuses(e, EvacuateSticky(e, w, v))
<1> DEFINE S == OnWorkspace(e, w)
           m == MoveAll(e, S, v)
<1>1. IsFiniteSet(S)
  BY FS_Subset, FocusAssumption DEF OnWorkspace, Containers
<1>2. Focuses(e, m) /\ Sound(m)
  <2>1. \A a : \A c \in S : Focuses(e, a) => Focuses(e, MoveFloating(a, c, v))
    BY MoveFloatingKeeps, FocusesTwice, FocusesArranges
  <2> HIDE DEF S
  <2> QED
    BY <1>1, <2>1, ItselfFocuses, MoveFold, FocusesArranges
<1>3. Focuses(e, DetectUrgent(m, v))
  <2> HIDE DEF m
  <2> QED
    BY <1>2, DetectUrgentKeeps, FocusesTwice
<1> QED
  BY <1>3 DEF EvacuateSticky

\* output_evacuate: a workspace is destroyed or goes to another output.
LEMMA ResettleKeeps ==
  ASSUME NEW e, Sound(e), NEW w, NEW to, NEW shown PROVE Arranges(e, Resettle(e, w, to, shown))
<1> DEFINE p == AddPriority(e, w, to)
           a == AddWorkspace(p, w, to)
           s == Sort(a, to)
<1>1. Focuses(e, p) /\ Sound(p)
  BY AddPriorityKeeps, FocusesArranges
<1>2. Focuses(e, a) /\ Sound(a)
  <2> HIDE DEF p
  <2> QED
    BY <1>1, AddWorkspaceKeeps, FocusesTwice, FocusesArranges
<1>3. Arranges(e, s) /\ Sound(s)
  <2> HIDE DEF a
  <2> QED
    BY <1>2, SortKeeps, FocusesTwice, FocusesArranges
<1>4. Arranges(e, ConsiderDestroy(s, shown))
  <2> HIDE DEF s
  <2> QED
    BY <1>3, ConsiderDestroyKeeps, ArrangesTwice
<1> QED
  BY <1>4, DestroyWorkspaceKeeps DEF Resettle

\* ... with its sticky windows
LEMMA EvacuateWorkspaceKeeps ==
  ASSUME NEW e, Sound(e), NEW w PROVE Arranges(e, EvacuateWorkspace(e, w))
<1> DEFINE to == Head(SelectSeq(e.homes[w] \o e.outs, LAMBDA o : o \in ToSet(e.outs))
                        \o <<Fallback>>)
           off == DetachWorkspace(e, w)
           shown == ActiveWorkspace(off, to)
           s == EvacuateSticky(off, w, shown)
           q == IF Emptied(off, w) /\ shown # None THEN s ELSE off
<1>1. Arranges(e, off) /\ Sound(off)
  BY DetachWorkspaceKeeps, FocusesArranges
<1>2. Arranges(e, s) /\ Sound(s)
  <2> HIDE DEF off, shown
  <2> QED
    BY <1>1, EvacuateStickyKeeps, FocusesArranges, ArrangesTwice
<1>3. Arranges(e, q) /\ Sound(q)
  <2> HIDE DEF off, shown, s
  <2> QED
    BY <1>1, <1>2
<1>4. Arranges(e, Resettle(q, w, to, shown))
  <2> HIDE DEF q, to, shown
  <2> QED
    BY <1>3, ResettleKeeps, ArrangesTwice
<1> QED
  BY <1>4 DEF EvacuateWorkspace

\* output_evacuate
LEMMA EvacuateKeeps ==
  ASSUME NEW e, Sound(e), NEW o \in Outputs PROVE Arranges(e, Evacuate(e, o))
<1>1. \A a : \A x \in ToSet(e.spaces[o]) : Arranges(e, a) => Arranges(e, EvacuateWorkspace(a, x))
  BY EvacuateWorkspaceKeeps, ArrangesTwice, ArrangesLeads
<1>2. e.spaces[o] \in Seq(ToSet(e.spaces[o]))
  BY DEF Sound, Typed, IsList, AllOutputs
<1> QED
  BY <1>1, <1>2, ItselfArranges, EvacuateFold DEF Evacuate

\* handle_output_destroy, of all layer surfaces of an output
LEMMA LoseLayersKeeps ==
  ASSUME NEW e, Sound(e), NEW s \in Seq(Layers) PROVE Leads(e, FoldLeft(LoseLayer, e, s))
<1>1. \A a : \A x \in Layers : Leads(e, a) => Leads(e, LoseLayer(a, x))
  <2>1. \A a : \A x \in Layers : Sound(a) => Leads(a, LoseLayer(a, x))
    BY DestroyLayerKeeps DEF LoseLayer
  <2> QED
    BY <2>1, LeadsTwice DEF Leads
<1> QED
  BY <1>1, ItselfArranges, DestroyFold

\* output_disable
LEMMA DisableOutputKeeps ==
  ASSUME NEW e, Sound(e), NEW o \in Outputs PROVE Leads(e, DisableOutput(e, o))
<1> DEFINE S == {l \in Layers : e.shell[l].at = o}
           lost == Keep(e.order, S)
           f == FoldLeft(LoseLayer, e, lost)
           outs == Keep(f.outs, Outputs \ {o})
           r == [f EXCEPT !.outs = outs]
<1>1. lost \in Seq(Layers)
  <2>1. lost \in Seq(S) /\ S \subseteq Layers
    BY Keeps DEF Sound, Typed
  <2> HIDE DEF lost, S
  <2> QED
    BY <2>1
<1>2. Leads(e, f) /\ Sound(f)
  <2> HIDE DEF lost
  <2> QED
    BY <1>1, LoseLayersKeeps DEF Leads
<1>3. outs \in Seq(Outputs)
  <2> HIDE DEF f
  <2>1. outs \in Seq(Outputs \ {o})
    BY <1>2, Keeps DEF Sound, Typed
  <2> HIDE DEF outs
  <2> QED
    BY <2>1
<1>4. Leads(e, r) /\ Sound(r)
  <2> HIDE DEF f, outs
  <2> QED
    BY <1>2, <1>3, OutsLeads, LeadsTwice DEF Leads
<1>5. Leads(e, Evacuate(r, o))
  <2> HIDE DEF r
  <2> QED
    BY <1>4, EvacuateKeeps, ArrangesLeads, LeadsTwice
<1> QED
  BY <1>5 DEF DisableOutput

\* lock_node_handle_destroy: the lock loses its surface on the output, and stays.
LEMMA LockWithoutKeeps ==
  ASSUME NEW e, Sound(e), NEW o \in Outputs PROVE Leads(e, LockWithout(e, o))
<1>1. CASE e.lock = None
  BY <1>1, ItselfArranges DEF LockWithout
<1>2. CASE e.lock # None
  <2> DEFINE r == IF e.lock.surface[o] = "mapped" THEN DestroyLockSurface(e, o) ELSE e
  <2>1. Leads(e, r) /\ Sound(r) /\ r.lock # None
    BY <1>2, DestroyLockSurfaceKeeps, ItselfArranges DEF Leads, Held
  <2>2. LockWithout(e, o) = [r EXCEPT !.lock.surface[o] = "no output"]
    BY <1>2 DEF LockWithout
  <2> HIDE DEF r
  <2> QED
    BY <2>1, <2>2, LockStateKeeps, LeadsTwice
<1> QED
  BY <1>1, <1>2

\* arrange_root
LEMMA RearrangedKeeps == ASSUME NEW e, Sound(e) PROVE Arranges(e, Rearranged(e))
BY ArrangesKeeps DEF Rearranged, Sound, Typed

\* An output is unplugged.
LEMMA UnplugOutputKeeps ==
  ASSUME NEW e, Sound(e), NEW o \in Outputs PROVE Leads(e, UnplugOutput(e, o))
<1> DEFINE a == DisableOutput(e, o)
           b == LockWithout(a, o)
           c == Rearranged(b)
<1>1. Leads(e, a) /\ Sound(a)
  BY DisableOutputKeeps DEF Leads
<1>2. Leads(e, b) /\ Sound(b)
  <2> HIDE DEF a
  <2> QED
    BY <1>1, LockWithoutKeeps, LeadsTwice DEF Leads
<1>3. Leads(e, c) /\ Sound(c)
  <2> HIDE DEF b
  <2> QED
    BY <1>2, RearrangedKeeps, ArrangesLeads, LeadsTwice
<1>4. Leads(e, RedirectContexts(c, o, Root))
  <2> HIDE DEF c
  <2> QED
    BY <1>3, RedirectContextsKeeps, FocusesArranges, LeadsTwice
<1> QED
  BY <1>4 DEF UnplugOutput

\* An output is plugged in, during a lock perhaps.
LEMMA PlugOutputKeeps ==
  ASSUME NEW e, Sound(e), NEW o \in Outputs PROVE Leads(e, PlugOutput(e, o))
<1> DEFINE r == [e EXCEPT !.lock.surface[o] = "none"]
           q == IF e.lock = None THEN e ELSE r
<1>1. Leads(e, q) /\ Sound(q)
  BY LockStateKeeps, ItselfArranges DEF Leads
<1>2. Leads(e, EnableOutput(q, o))
  <2> HIDE DEF q
  <2> QED
    BY <1>1, EnableOutputKeeps, LeadsTwice
<1> QED
  BY <1>2 DEF PlugOutput

\* workspace_move_to_output leaves no output without workspaces.
LEMMA NotEmptyKeeps == ASSUME NEW e, Sound(e), NEW o PROVE Arranges(e, NotEmpty(e, o))
<1> DEFINE w == NextNumber(e)
           m == CreateWorkspace(e, w, o)
<1>1. Arranges(e, m) /\ Sound(m)
  BY CreateWorkspaceKeeps, FocusesArranges
<1>2. Arranges(e, RawFocus(m, w))
  <2> HIDE DEF m, w
  <2> QED
    BY <1>1, RawFocusKeeps, FocusesArranges, ArrangesTwice
<1> QED
  BY <1>2, ItselfArranges DEF NotEmpty

\* The focus goes to a workspace.
LEMMA FocusInKeeps == ASSUME NEW e, Sound(e), NEW w PROVE Arranges(e, FocusIn(e, w))
BY SetFocusKeeps DEF FocusIn

\* cmd_move_workspace
LEMMA MoveWorkspaceKeeps ==
  ASSUME NEW e, Sound(e), NEW w, NEW o PROVE Arranges(e, MoveWorkspace(e, w, o))
<1> DEFINE there == ActiveWorkspace(DetachWorkspace(e, w), o)
           a == AddWorkspace(e, w, o)
           n == NotEmpty(a, e.up[w])
           c == ConsiderDestroy(n, there)
           s == Sort(c, o)
           f == FocusIn(s, w)
<1>1. Arranges(e, a) /\ Sound(a)
  BY AddWorkspaceKeeps, FocusesArranges
<1>2. Arranges(e, n) /\ Sound(n)
  <2> HIDE DEF a
  <2> QED
    BY <1>1, NotEmptyKeeps, ArrangesTwice, ArrangesLeads
<1>3. Arranges(e, c) /\ Sound(c)
  <2> HIDE DEF n, there
  <2> QED
    BY <1>2, ConsiderDestroyKeeps, ArrangesTwice, ArrangesLeads
<1>4. Arranges(e, s) /\ Sound(s)
  <2> HIDE DEF c
  <2> QED
    BY <1>3, SortKeeps, FocusesArranges, ArrangesTwice
<1>5. Arranges(e, f) /\ Sound(f)
  <2> HIDE DEF s
  <2> QED
    BY <1>4, FocusInKeeps, ArrangesTwice, ArrangesLeads
<1>6. Arranges(e, RaisePriority(f, w, e.up[w], o))
  <2> HIDE DEF f
  <2> QED
    BY <1>5, RaisePriorityKeeps, FocusesArranges, ArrangesTwice
<1> QED
  BY <1>6 DEF MoveWorkspace, Relocate

\* A workspace is created by its name.
LEMMA NamedKeeps ==
  ASSUME NEW e, Sound(e), NEW w PROVE Arranges(e, Named(e, w)) /\ Sound(Named(e, w))
BY CreateWorkspaceKeeps, FocusesArranges, ItselfArranges DEF Named

\* workspace_switch
LEMMA SwitchToKeeps == ASSUME NEW e, Sound(e), NEW w PROVE Arranges(e, SwitchTo(e, w))
BY NamedKeeps, FocusInKeeps, ArrangesTwice DEF SwitchTo

-----------------------------------------------------------------------------
(* Windows.                                                                 *)

\* A node gets another parent.
LEMMA UpKeeps ==
  ASSUME NEW e, Sound(e), NEW n, NEW p
  PROVE  Focuses(e, [e EXCEPT !.up[n] = p]) /\ Sound([e EXCEPT !.up[n] = p])
<1>1. Untouched(e, [e EXCEPT !.up[n] = p])
  BY DEF Untouched, Fields, Sound, Typed
<1> QED
  BY <1>1, UntouchedFocuses, FocusesArranges

\* Another window, or none, covers a workspace.
LEMMA FullKeeps ==
  ASSUME NEW e, Sound(e), NEW w, NEW v
  PROVE  Focuses(e, [e EXCEPT !.full[w] = v]) /\ Sound([e EXCEPT !.full[w] = v])
<1>1. Untouched(e, [e EXCEPT !.full[w] = v])
  BY DEF Untouched, Fields, Sound, Typed
<1> QED
  BY <1>1, UntouchedFocuses, FocusesArranges

\* container_set_fullscreen
LEMMA FullscreenKeeps ==
  ASSUME NEW e, Sound(e), NEW v PROVE Arranges(e, Fullscreen(e, v))
<1> DEFINE w == WorkspaceOf(e, v)
           c == [e EXCEPT !.full[w] = v]
           n == FocusInactive(c, Root)
<1>1. Arranges(e, c) /\ Sound(c)
  <2> HIDE DEF w
  <2> QED
    BY FullKeeps, FocusesArranges
<1>2. Arranges(e, SetFocus(c, v)) /\ Arranges(e, RawFocus(RawFocus(c, v), n))
  <2> HIDE DEF c, n
  <2> QED
    BY <1>1, SetFocusKeeps, RawFocusTwiceKeeps, ArrangesTwice
<1> QED
  BY <1>2 DEF Fullscreen

\* layout_add_view
LEMMA PlacedKeeps ==
  ASSUME NEW e, Sound(e), NEW v, NEW w, NEW k PROVE Focuses(e, Placed(e, v, w, k))
<1> DEFINE n == NewNode(e, v, k)
           u == [n EXCEPT !.up[v] = k]
<1>1. \A p : Focuses(e, NewNode(e, v, p)) /\ Sound(NewNode(e, v, p))
  BY NewNodeKeeps, FocusesArranges
<1>2. Focuses(e, u) /\ Sound(u)
  <2>1. Focuses(e, n) /\ Sound(n)
    BY <1>1
  <2> HIDE DEF n
  <2> QED
    BY <2>1, UpKeeps, FocusesTwice
<1>3. Focuses(e, NewNode(u, k, w))
  <2> HIDE DEF u
  <2> QED
    BY <1>2, NewNodeKeeps, FocusesTwice
<1> QED
  BY <1>1, <1>3 DEF Placed

\* workspace_focus_fullscreen
LEMMA FocusFullscreenKeeps ==
  ASSUME NEW e, Sound(e), NEW w PROVE Focuses(e, FocusFullscreen(e, w))
BY RawFocusKeeps, ItselfFocuses DEF FocusFullscreen

\* A window moves into a column.
LEMMA IntoColumnKeeps ==
  ASSUME NEW e, Sound(e), NEW c, NEW w, NEW k PROVE Focuses(e, IntoColumn(e, c, w, k))
<1> DEFINE n == IF k \in e.live THEN e ELSE NewNode(e, k, w)
<1>1. Focuses(e, n) /\ Sound(n)
  BY NewNodeKeeps, ItselfFocuses, FocusesArranges
<1>2. Focuses(e, [n EXCEPT !.up[c] = k])
  <2> HIDE DEF n
  <2> QED
    BY <1>1, UpKeeps, FocusesTwice
<1> QED
  BY <1>2 DEF IntoColumn

\* container_move_to_workspace
LEMMA MoveToKeeps ==
  ASSUME NEW e, Sound(e), NEW c, NEW w, NEW k PROVE Arranges(e, MoveTo(e, c, w, k))
<1> DEFINE column == IF c \in Columns THEN c ELSE e.up[c]
           g == DestroyContainer(e, column)
           t == ConsiderDestroy(g, e.up[column])
           q == IF ViewsOf(e, column) # {c} THEN e ELSE t
<1>1. Arranges(e, MoveFloating(e, c, w)) /\ Arranges(e, [e EXCEPT !.up[column] = w])
  <2> HIDE DEF column
  <2> QED
    BY MoveFloatingKeeps, UpKeeps, FocusesArranges
<1>2. Arranges(e, g) /\ Sound(g)
  <2> HIDE DEF column
  <2> QED
    BY DestroyContainerKeeps, ArrangesLeads
<1>3. Arranges(e, t) /\ Sound(t)
  <2> HIDE DEF g, column
  <2> QED
    BY <1>2, ConsiderDestroyKeeps, ArrangesTwice, ArrangesLeads
<1>4. Arranges(e, q) /\ Sound(q)
  <2> HIDE DEF t, column
  <2> QED
    BY <1>3, ItselfArranges
<1>5. Arranges(e, IntoColumn(q, c, w, k))
  <2> HIDE DEF q
  <2> QED
    BY <1>4, IntoColumnKeeps, FocusesArranges, ArrangesTwice
<1>6. MoveTo(e, c, w, k) \in {MoveFloating(e, c, w), [e EXCEPT !.up[column] = w],
                              IntoColumn(q, c, w, k)}
  BY DEF MoveTo
<1> HIDE DEF column, q
<1> QED
  BY <1>1, <1>5, <1>6

\* What the container leaves behind is reaped.
LEMMA LeftBehindKeeps ==
  ASSUME NEW e, Sound(e), NEW column, NEW old PROVE Arranges(e, LeftBehind(e, column, old))
BY ConsiderDestroyKeeps, ReapEmptyKeeps, ItselfArranges DEF LeftBehind

\* The other output shows again what it showed.
LEMMA RestoreActiveKeeps ==
  ASSUME NEW e, Sound(e), NEW o, NEW last PROVE Arranges(e, RestoreActive(e, o, last))
BY RawFocusKeeps, FocusesArranges, ItselfArranges DEF RestoreActive

\* cmd_move_container, until the container is there,
LEMMA ArrivedKeeps ==
  ASSUME NEW e, Sound(e), NEW c, NEW w, NEW k, NEW last
  PROVE  Arranges(e, Arrived(e, c, w, k, last))
<1> DEFINE m == MoveTo(e, c, w, k)
           a == DetectUrgent(m, WorkspaceOf(e, c))
           b == DetectUrgent(a, w)
           f == FocusFullscreen(b, w)
<1>1. Arranges(e, m) /\ Sound(m)
  BY MoveToKeeps, ArrangesLeads
<1>2. Arranges(e, a) /\ Sound(a)
  <2> HIDE DEF m
  <2> QED
    BY <1>1, DetectUrgentKeeps, FocusesArranges, ArrangesTwice
<1>3. Arranges(e, b) /\ Sound(b)
  <2> HIDE DEF a
  <2> QED
    BY <1>2, DetectUrgentKeeps, FocusesArranges, ArrangesTwice
<1>4. Arranges(e, f) /\ Sound(f)
  <2> HIDE DEF b
  <2> QED
    BY <1>3, FocusFullscreenKeeps, FocusesArranges, ArrangesTwice
<1>5. Arranges(e, RestoreActive(f, e.up[w], last))
  <2> HIDE DEF f
  <2> QED
    BY <1>4, RestoreActiveKeeps, ArrangesTwice
<1> QED
  BY <1>5 DEF Arrived

\* ... until the focus is set,
LEMMA RefocusedKeeps ==
  ASSUME NEW e, Sound(e), NEW c, NEW column, NEW old, NEW focus
  PROVE  Arranges(e, Refocused(e, c, column, old, focus))
BY SetFocusKeeps DEF Refocused

\* ... and to its end
LEMMA MoveFromKeeps ==
  ASSUME NEW e, Sound(e), NEW c, NEW w, NEW k, NEW column
  PROVE  Arranges(e, MoveFrom(e, c, w, k, column))
<1> DEFINE old == WorkspaceOf(e, c)
           last == IF e.up[w] # e.up[old] THEN ActiveWorkspace(e, e.up[w]) ELSE None
           a == Arrived(e, c, w, k, last)
           r == Refocused(a, c, column, old, GetFocus(e))
<1>1. Arranges(e, a) /\ Sound(a)
  <2> HIDE DEF last
  <2> QED
    BY ArrivedKeeps, ArrangesLeads
<1>2. Arranges(e, r) /\ Sound(r)
  <2> HIDE DEF a, old
  <2> QED
    BY <1>1, RefocusedKeeps, ArrangesTwice, ArrangesLeads
<1>3. Arranges(e, LeftBehind(r, column, old))
  <2> HIDE DEF r, old
  <2> QED
    BY <1>2, LeftBehindKeeps, ArrangesTwice
<1> QED
  BY <1>3 DEF MoveFrom

\* cmd_move_container
LEMMA MoveContainerKeeps ==
  ASSUME NEW e, Sound(e), NEW c, NEW w, NEW k PROVE Arranges(e, MoveContainer(e, c, w, k))
<1> DEFINE column == IF e.up[c] \in Columns THEN e.up[c] ELSE None
           n == Named(e, w)
<1>1. Arranges(e, n) /\ Sound(n)
  BY NamedKeeps
<1>2. Arranges(e, MoveFrom(n, c, w, k, column))
  <2> HIDE DEF n, column
  <2> QED
    BY <1>1, MoveFromKeeps, ArrangesTwice
<1> QED
  BY <1>2 DEF MoveContainer

-----------------------------------------------------------------------------
(* The steps of the desktop.                                                *)

\* view_map
LEMMA OpenLeads ==
  ASSUME Sound(d), NEW v, NEW w, NEW k, NEW f, Open(v, w, k, f) PROVE Leads(d, d')
<1> DEFINE Covering(e) == IF f THEN Fullscreen(e, v) ELSE e
           Focused(e) == IF ShouldFocus(e, v) THEN SetFocus(e, v) ELSE e
           p == Placed(d, v, w, k)
           c == Covering(p)
<1>1. d' = Focused(c)
  BY DEF Open, Do
<1>2. Arranges(d, p) /\ Sound(p)
  BY PlacedKeeps, FocusesArranges
<1>3. Arranges(d, c) /\ Sound(c)
  <2> HIDE DEF p
  <2> QED
    BY <1>2, FullscreenKeeps, ArrangesTwice, ArrangesLeads
<1>4. Arranges(d, Focused(c))
  <2> HIDE DEF c
  <2> QED
    BY <1>3, SetFocusKeeps, ArrangesTwice
<1> QED
  BY <1>1, <1>4, ArrangesLeads

\* view_unmap
LEMMA CloseLeads == ASSUME Sound(d), NEW v, Close(v) PROVE Leads(d, d')
<1> DEFINE Reap(e) == IF d.up[v] \in Columns THEN ReapEmpty(e, d.up[v])
                      ELSE ConsiderDestroy(e, d.up[v])
           g == DestroyContainer(d, v)
           r == Reap(g)
<1>1. d' = SurfaceGone(r, v)
  BY DEF Close, Do
<1>2. Arranges(d, g) /\ Sound(g)
  BY DestroyContainerKeeps, ArrangesLeads
<1>3. Arranges(d, r) /\ Sound(r)
  <2> HIDE DEF g
  <2> QED
    BY <1>2, ReapEmptyKeeps, ConsiderDestroyKeeps, ArrangesTwice, ArrangesLeads
<1>4. Arranges(d, SurfaceGone(r, v))
  <2> HIDE DEF r
  <2> QED
    BY <1>3, SurfaceGoneKeeps, FocusesArranges, ArrangesTwice
<1> QED
  BY <1>1, <1>4, ArrangesLeads

\* The fullscreen command
LEMMA ToggleFullscreenLeads == ASSUME Sound(d), NEW v, ToggleFullscreen(v) PROVE Leads(d, d')
<1>1. d' \in {[d EXCEPT !.full[WorkspaceOf(d, v)] = None], Fullscreen(d, v)}
  BY DEF ToggleFullscreen, Do
<1> QED
  BY <1>1, FullKeeps, FullscreenKeeps, FocusesArranges, ArrangesLeads

\* The focus commands
LEMMA FocusLeads ==
  ASSUME Sound(d), \/ \E v \in Windows : FocusWindow(v)
                   \/ FocusParent \/ FocusChild \/ FocusMode
                   \/ \E o \in Outputs : FocusOutput(o)
  PROVE  Leads(d, d')
<1>1. \/ \E n : d' = SetFocus(d, n)
      \/ \E w, n : d' = SetFocus([d EXCEPT !.full[w] = None], n)
  BY DEF FocusWindow, FocusParent, FocusChild, FocusMode, FocusOutput, Do
<1>2. \A w : Leads(d, [d EXCEPT !.full[w] = None]) /\ Sound([d EXCEPT !.full[w] = None])
  BY FullKeeps, FocusesArranges
<1>3. ASSUME NEW e, Leads(d, e), NEW n PROVE Leads(d, SetFocus(e, n))
  BY <1>3, SetFocusKeeps, ArrangesLeads, LeadsTwice DEF Leads
<1>4. Leads(d, d)
  BY ItselfArranges
<1> QED
  BY <1>1, <1>2, <1>3, <1>4

\* The move command, of a container
LEMMA MoveLeads == ASSUME Sound(d), NEW c, NEW w, NEW k, Move(c, w, k) PROVE Leads(d, d')
<1> DEFINE old == WorkspaceOf(d, c)
           shown == IF d.full[old] = c THEN [d EXCEPT !.full[old] = None] ELSE d
<1>1. d' = MoveContainer(shown, c, w, k)
  BY DEF Move, Do
<1>2. Leads(d, shown) /\ Sound(shown)
  <2> HIDE DEF old
  <2> QED
    BY FullKeeps, FocusesArranges, ItselfArranges
<1> HIDE DEF shown
<1> QED
  BY <1>1, <1>2, MoveContainerKeeps, ArrangesLeads, LeadsTwice

\* The commands that switch and move workspaces
LEMMA SpaceLeads ==
  ASSUME Sound(d), (\E w \in Workspaces : Switch(w)) \/ \E o \in Outputs : MoveWorkspaceTo(o)
  PROVE  Leads(d, d')
<1>1. (\E w : d' = SwitchTo(d, w)) \/ (\E w, o : d' = MoveWorkspace(d, w, o))
  BY DEF Switch, MoveWorkspaceTo, Do
<1> QED
  BY <1>1, SwitchToKeeps, MoveWorkspaceKeeps, ArrangesLeads

\* Outputs that come and go
LEMMA OutputLeads ==
  ASSUME Sound(d), NEW o \in Outputs, Plug(o) \/ Unplug(o) PROVE Leads(d, d')
BY PlugOutputKeeps, UnplugOutputKeeps DEF Plug, Unplug

\* Layer surfaces: only one that is there is mapped, and only one that is mapped is in
\* focus.
LEMMA LayerLeads ==
  ASSUME Sound(d), NEW l \in Layers,
         \/ \E o \in Outputs : LayerOpens(l, o)
         \/ \E level \in Levels, wants \in Wants :
              LayerMaps(l, level, wants) \/ LayerCommits(l, level, wants)
         \/ LayerUnmaps(l) \/ LayerCloses(l)
  PROVE  Leads(d, d')
<1>1. ASSUME NEW o \in Outputs, LayerOpens(l, o) PROVE Leads(d, d')
  BY <1>1, NewLayerKeeps DEF LayerOpens, Do
<1>2. ASSUME NEW level \in Levels, NEW wants \in Wants, LayerMaps(l, level, wants)
      PROVE  Leads(d, d')
  BY <1>2, MapLayerKeeps DEF LayerMaps, Do
<1>3. ASSUME NEW level \in Levels, NEW wants \in Wants, LayerCommits(l, level, wants)
      PROVE  Leads(d, d')
  BY <1>3, CommitLayerKeeps DEF LayerCommits, Do
<1>4. ASSUME LayerUnmaps(l) PROVE Leads(d, d')
  BY <1>4, UnmapLayerKeeps DEF LayerUnmaps, Do
<1>5. ASSUME LayerCloses(l) PROVE Leads(d, d')
  <2>1. d' = DestroyLayer(d, l, FALSE)
    BY <1>5, Zenon DEF LayerCloses, Do
  <2>2. Leads(d, DestroyLayer(d, l, FALSE))
    BY DestroyLayerKeeps, Zenon
  <2> QED
    BY <2>1, <2>2
<1> QED
  BY <1>1, <1>2, <1>3, <1>4, <1>5

\* The client of the lock, until it unlocks
LEMMA LockLeads ==
  ASSUME Sound(d), \/ LockClientExits
                   \/ \E o \in Outputs : LockSurfaceMaps(o) \/ LockSurfaceCloses(o)
  PROVE  Leads(d, d')
<1>1. ASSUME LockClientExits PROVE Leads(d, d')
  BY <1>1, AbandonLockKeeps DEF LockClientExits, Do
<1>2. ASSUME NEW o \in Outputs, LockSurfaceMaps(o) PROVE Leads(d, d')
  BY <1>2, MapLockSurfaceKeeps DEF LockSurfaceMaps, Do
<1>3. ASSUME NEW o \in Outputs, LockSurfaceCloses(o) PROVE Leads(d, d')
  BY <1>3, DestroyLockSurfaceKeeps DEF LockSurfaceCloses, Do
<1> QED
  BY <1>1, <1>2, <1>3

\* The desktop is sound when the program starts.
LEMMA BootSound == ASSUME Init PROVE Sound(d)
<1>1. d = Boot
  BY DEF Init
<1>2. [l \in Layers |-> NoSurface] \in [Layers -> Surfaces]
  BY NoSurfaceIs
<1>3. IsList(<<>>)
  BY DEF IsList
<1>4. Boot.layer = None /\ Boot.lock = None /\ Boot.outs = <<>> /\ Boot.order = <<>>
      /\ Boot.spaces = [o \in AllOutputs |-> <<>>] /\ Boot.shell = [l \in Layers |-> NoSurface]
      /\ Fields \subseteq DOMAIN Boot
  BY DEF Boot, Fields
<1> QED
  BY <1>1, <1>2, <1>3, <1>4 DEF Sound, Typed, LayerSound

\* Every step leads to a desktop that is sound; only Lock and UnlockSession may not
\* keep what the lock promises, and a new lock is a lock.
LEMMA StepLeads ==
  ASSUME Sound(d), [Next]_vars
  PROVE  /\ Sound(d')
         /\ Leads(d, d') \/ (Lock /\ d'.lock # None) \/ UnlockSession
<1>1. CASE Lock
  <2>1. d' = GrantLock(d, plugged)
    BY <1>1 DEF Lock, Do
  <2> QED
    BY <1>1, <2>1, GrantLockSound
<1>2. CASE UnlockSession
  BY <1>2, UnlockSound DEF UnlockSession, Do
<1>3. CASE UNCHANGED vars
  BY <1>3, ItselfArranges DEF vars
<1>4. CASE Next /\ ~Lock /\ ~UnlockSession
  <2>1. Leads(d, d')
    BY <1>4, OpenLeads, CloseLeads, ToggleFullscreenLeads, FocusLeads, MoveLeads, SpaceLeads,
       OutputLeads, LayerLeads, LockLeads DEF Next
  <2> QED
    BY <2>1 DEF Leads
<1> QED
  BY <1>1, <1>2, <1>3, <1>4

\* The inductive invariant, in every behaviour
LEMMA Invariance == Spec => []Sound(d)
<1>1. Init => Sound(d)
  BY BootSound
<1>2. Sound(d) /\ [Next]_vars => Sound(d)'
  BY StepLeads
<1> QED
  BY <1>1, <1>2, PTL DEF Spec

\* The assertion of seat_set_focus_layer never fails, and a surface that has the focus
\* loses it no later than it is unmapped or destroyed, whatever the outputs, the other
\* surfaces and the lock do at the time.
THEOREM LayerCorrect == Spec => []FocusedLayerMapped
<1>1. Sound(d) => FocusedLayerMapped
  BY DEF Sound, LayerSound, FocusedLayerMapped
<1> QED
  BY <1>1, Invariance, PTL

\* A lock stays until its client unlocks, and as long as it is not replaced by another no
\* function of the seat gives the keyboard to a window.
THEOREM LockCorrect == Spec => LockKeepsKeyboard
<1>1. Sound(d) /\ [Next]_vars =>
        [d.lock # None =>
           \/ UnlockSession
           \/ d'.lock # None /\ (d.kbd \notin Windows => d'.kbd \notin Windows \/ Lock)]_vars
  BY StepLeads DEF Leads, Held
<1> QED
  BY <1>1, Invariance, PTL DEF Spec, LockKeepsKeyboard

=============================================================================
