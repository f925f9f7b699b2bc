------------------------------- MODULE FoldFacts -------------------------------
(***************************************************************************)
(* A fold of the community modules keeps what each of its steps keeps.     *)
(*                                                                         *)
(* FoldLeft and FoldSet are MapThenFoldSet, whose value is that of a       *)
(* recursive function on the subsets of a finite set D: the positions of   *)
(* a list, or the elements of a set.  Op(z, a, x) is the step from the     *)
(* value a with the element x, where z is what else the step reads; Inv(y, *)
(* a) relates the value a to a value y, usually the one at the beginning;  *)
(* Pick(T) is the position of T that comes last, and At(s, i) the element  *)
(* of s at the position i.  A module that folds takes an instance of this  *)
(* one for each step it folds with.                                        *)
(***************************************************************************)
EXTENDS Integers, Sequences, FiniteSetTheorems, WellFoundedInduction, TLAPS

CONSTANTS Op(_, _, _), Inv(_, _), Pick(_), At(_, _)

\* A list has all the elements of D: D is finite.
Listed(D) == \E q \in Seq(D) : \A x \in D : \E n \in 1..Len(q) : q[n] = x

Picks(D) == \A T \in SUBSET D : T # {} => Pick(T) \in T

\* The value for the positions T, where h has those for fewer positions.
Stage(z, base, s, h, T) ==
  IF T = {} THEN base ELSE Op(z, h[T \ {Pick(T)}], At(s, Pick(T)))

Solves(z, base, s, DD, h) == h = [T \in DD |-> Stage(z, base, s, h, T)]

\* The subsets of D with at most n elements
UpTo(D, n) == {T \in SUBSET D : Cardinality(T) <= n}

\* A set of natural numbers has a least element.
LEMMA Least ==
  ASSUME NEW U \in SUBSET Nat, U # {}
  PROVE  \E n \in U : \A m \in U : n <= m
<1> DEFINE R == {ss \in Nat \X Nat : ss[1] < ss[2]}
<1>1. IsWellFoundedOn(R, Nat)
  BY NatLessThanWellFounded DEF OpToRel
<1>2. PICK n \in U : \A m \in U : <<m, n>> \notin R
  <2> HIDE DEF R
  <2> QED
    BY <1>1, WFMin
<1>3. \A m \in U : <<m, n>> \in Nat \X Nat /\ <<m, n>>[1] = m /\ <<m, n>>[2] = n
  OBVIOUS
<1>4. \A m \in U : ~(m < n)
  BY <1>2, <1>3
<1> QED
  BY <1>4

\* A set that is listed is finite, and so are its subsets.
LEMMA Sizes ==
  ASSUME NEW D, Listed(D)
  PROVE  /\ IsFiniteSet(D) /\ Cardinality(D) \in Nat
         /\ \A T \in SUBSET D : IsFiniteSet(T) /\ Cardinality(T) \in Nat
<1>1. IsFiniteSet(D)
  BY DEF Listed, IsFiniteSet
<1> QED
  BY <1>1, FS_Subset, FS_CardinalityType

\* A set without one of its elements is smaller.
LEMMA Smaller ==
  ASSUME NEW D, Listed(D), NEW T \in SUBSET D, NEW x \in T
  PROVE  /\ T \ {x} \in SUBSET D /\ Cardinality(T) \in Nat
         /\ Cardinality(T \ {x}) = Cardinality(T) - 1 /\ Cardinality(T) > 0
<1>1. IsFiniteSet(T)
  BY Sizes
<1>2. /\ Cardinality(T) \in Nat /\ Cardinality(T \ {x}) = Cardinality(T) - 1
      /\ Cardinality(T \ {x}) \in Nat
  BY <1>1, FS_RemoveElement, FS_CardinalityType
<1> QED
  BY <1>2

\* The recursive function exists: its part on the subsets with at most n elements
\* does, for every n.
LEMMA Solvable ==
  ASSUME NEW D, Listed(D), Picks(D), NEW z, NEW base, NEW s
  PROVE  \E h : Solves(z, base, s, SUBSET D, h)
<1> DEFINE Q(n) == \E h : Solves(z, base, s, UpTo(D, n), h)
           Bad == {n \in Nat : ~Q(n)}
<1>1. Q(0)
  <2> DEFINE h == [T \in UpTo(D, 0) |-> base]
  <2>1. \A T \in UpTo(D, 0) : T = {}
    BY Sizes, FS_EmptySet DEF UpTo
  <2>2. h = [T \in UpTo(D, 0) |-> Stage(z, base, s, h, T)]
    BY <2>1 DEF Stage
  <2> HIDE DEF h
  <2> QED
    BY <2>2 DEF Solves
<1>2. ASSUME NEW n \in Nat, Q(n) PROVE Q(n + 1)
  <2>1. PICK f : Solves(z, base, s, UpTo(D, n), f)
    BY <1>2
  <2> DEFINE h == [T \in UpTo(D, n + 1) |-> Stage(z, base, s, f, T)]
  <2>2. \A T \in UpTo(D, n + 1) :
          T # {} => T \ {Pick(T)} \in UpTo(D, n) /\ T \ {Pick(T)} \in UpTo(D, n + 1)
    BY Smaller DEF UpTo, Picks
  <2>3. \A T \in UpTo(D, n) : T \in UpTo(D, n + 1)
    BY Sizes DEF UpTo
  <2>4. \A T \in UpTo(D, n) : h[T] = f[T]
    BY <2>1, <2>3 DEF Solves
  <2>5. \A T \in UpTo(D, n + 1) : Stage(z, base, s, h, T) = Stage(z, base, s, f, T)
    <3> HIDE DEF h
    <3> TAKE T \in UpTo(D, n + 1)
    <3>1. T # {} => h[T \ {Pick(T)}] = f[T \ {Pick(T)}]
      BY <2>2, <2>4
    <3> QED
      BY <3>1 DEF Stage
  <2>6. h = [T \in UpTo(D, n + 1) |-> Stage(z, base, s, h, T)]
    BY <2>5
  <2> HIDE DEF h
  <2> QED
    BY <2>6 DEF Solves
<1>3. Bad = {}
  <2> SUFFICES ASSUME Bad # {} PROVE FALSE
    OBVIOUS
  <2>1. PICK n \in Bad : \A m \in Bad : n <= m
    <3> Bad \in SUBSET Nat
      OBVIOUS
    <3> HIDE DEF Bad
    <3> QED
      BY Least
  <2>2. n # 0
    BY <1>1, <2>1
  <2>3. n - 1 \in Nat /\ n - 1 \notin Bad
    BY <2>1, <2>2
  <2> HIDE DEF Q
  <2> QED
    BY <1>2, <2>1, <2>3
<1>4. UpTo(D, Cardinality(D)) = SUBSET D
  BY Sizes, FS_Subset DEF UpTo
<1>5. Q(Cardinality(D))
  BY <1>3, Sizes
<1> QED
  BY <1>4, <1>5

\* What holds of the base and is kept by each step holds of the value for every set
\* of positions: there is no smallest one for which it does not.
LEMMA SolutionKeeps ==
  ASSUME NEW D, Listed(D), Picks(D), NEW y, NEW z, NEW base, NEW s, NEW h,
         Solves(z, base, s, SUBSET D, h),
         Inv(y, base), \A i \in D : \A a : Inv(y, a) => Inv(y, Op(z, a, At(s, i)))
  PROVE  \A T \in SUBSET D : Inv(y, h[T])
<1> DEFINE Bad == {n \in Nat : \E T \in SUBSET D : Cardinality(T) = n /\ ~Inv(y, h[T])}
<1>1. Bad = {}
  <2> SUFFICES ASSUME Bad # {} PROVE FALSE
    OBVIOUS
  <2>1. PICK n \in Bad : \A m \in Bad : n <= m
    <3> Bad \in SUBSET Nat
      OBVIOUS
    <3> HIDE DEF Bad
    <3> QED
      BY Least
  <2>2. PICK T \in SUBSET D : Cardinality(T) = n /\ ~Inv(y, h[T])
    BY <2>1
  <2>3. h[T] = Stage(z, base, s, h, T)
    BY DEF Solves
  <2>4. T # {}
    BY <2>2, <2>3 DEF Stage
  <2> DEFINE x == Pick(T)
             R == T \ {x}
  <2>5. x \in T
    BY <2>4 DEF Picks
  <2>6. R \in SUBSET D /\ Cardinality(T) \in Nat /\ Cardinality(R) = Cardinality(T) - 1
        /\ Cardinality(T) > 0
    <3> HIDE DEF x
    <3> QED
      BY <2>5, Smaller
  <2>7. Cardinality(R) \in Nat /\ ~(n <= Cardinality(R))
    BY <2>2, <2>6
  <2>8. Inv(y, h[R])
    <3> HIDE DEF R
    <3> QED
      BY <2>1, <2>6, <2>7
  <2>9. h[T] = Op(z, h[R], At(s, x))
    BY <2>3, <2>4 DEF Stage
  <2>10. Inv(y, Op(z, h[R], At(s, x)))
    <3> HIDE DEF R, x
    <3> QED
      BY <2>5, <2>8
  <2> QED
    BY <2>2, <2>9, <2>10
<1>2. \A T \in SUBSET D : Cardinality(T) \in Nat
  BY Sizes
<1> QED
  BY <1>1, <1>2

\* The value f[D] of a fold, where f is CHOOSEn to solve the recursion, keeps what
\* each step keeps.
THEOREM FoldKeeps ==
  ASSUME NEW D, Listed(D), Picks(D), NEW y, NEW z, NEW base, NEW s, NEW f,
         (\E h : Solves(z, base, s, SUBSET D, h)) => Solves(z, base, s, SUBSET D, f),
         Inv(y, base), \A i \in D : \A a : Inv(y, a) => Inv(y, Op(z, a, At(s, i)))
  PROVE  Inv(y, f[D])
<1>1. Solves(z, base, s, SUBSET D, f)
  BY Solvable
<1>2. D \in SUBSET D
  OBVIOUS
<1> QED
  BY <1>1, <1>2, SolutionKeeps

=============================================================================
