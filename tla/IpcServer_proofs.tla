--------------------------- MODULE IpcServer_proofs ---------------------------
(***************************************************************************)
(* What messages and reads do to the streams of the clients of IpcServer,  *)
(* and what its functions preserve, for any number of clients, any         *)
(* messages and any limit.                                                 *)
(***************************************************************************)
EXTENDS IpcServer, FiniteSetTheorems, SequenceTheorems, TLAPS

-----------------------------------------------------------------------------
(* Induction and recursion over the natural numbers.                        *)

\* A set of natural numbers has a least element.
LEMMA Least == ASSUME NEW T \in SUBSET Nat, T # {} PROVE \E x \in T : \A y \in T : x <= y
<1> DEFINE F == {0..k : k \in T}
<1>1. F \subseteq FiniteSubsetsOf(Nat)
  <2>1. ASSUME NEW k \in T PROVE 0..k \in FiniteSubsetsOf(Nat)
    <3>1. 0..k \subseteq Nat /\ k \in Int OBVIOUS
    <3>2. IsFiniteSet(0..k) BY <3>1, FS_Interval
    <3> QED BY <3>1, <3>2 DEF FiniteSubsetsOf
  <2> QED BY <2>1
<1>2. F # {} OBVIOUS
<1>3. PICK s \in F : \A r \in F : <<r, s>> \notin StrictSubsetOrdering(Nat)
  <2> HIDE DEF F
  <2> QED BY <1>1, <1>2, WFMin, FS_StrictSubsetOrderingWellFounded
<1>4. PICK x \in T : s = 0..x OBVIOUS
<1>5. ASSUME NEW y \in T, y < x PROVE FALSE
  <2>1. 0..y \subseteq 0..x /\ 0..y # 0..x BY <1>5
  <2>2. <<0..y, 0..x>> \in StrictSubsetOrdering(Nat) BY <2>1 DEF StrictSubsetOrdering
  <2> QED BY <2>2, <1>3, <1>4
<1>6. QED BY <1>5

\* A set that has 0 and with every number the next one has them all.
LEMMA NatSet == ASSUME NEW S, 0 \in S, \A n \in Nat : n \in S => n + 1 \in S PROVE Nat \subseteq S
<1>1. SUFFICES ASSUME Nat \ S # {} PROVE FALSE OBVIOUS
<1>2. PICK x \in Nat \ S : \A y \in Nat \ S : x <= y BY <1>1, Least
<1>3. x # 0 OBVIOUS
<1>4. x - 1 \in Nat /\ x - 1 \in S BY <1>2, <1>3
<1>5. QED BY <1>4, <1>2

\* f is the repetition of a step from a first value.
Iterates(f, S, base, step) ==
  f \in [Nat -> S] /\ f[0] = base /\ \A k \in Nat : f[k + 1] = step[f[k]]

\* A step on a set can be repeated.
LEMMA Iteration ==
  ASSUME NEW S, NEW base \in S, NEW step \in [S -> S]
  PROVE  \E f : Iterates(f, S, base, step)
<1> DEFINE Up(n, f) == /\ f \in [0..n -> S] /\ f[0] = base
                       /\ \A k \in Nat : k < n => f[k + 1] = step[f[k]]
           Ns == {n \in Nat : \E f : Up(n, f)}
<1>1. 0 \in Ns
  <2>1. Up(0, [k \in 0..0 |-> base]) OBVIOUS
  <2> QED BY <2>1
<1>2. ASSUME NEW n \in Nat, n \in Ns PROVE n + 1 \in Ns
  <2>1. PICK f : Up(n, f) BY <1>2
  <2> DEFINE g == [k \in 0..n + 1 |-> IF k = n + 1 THEN step[f[n]] ELSE f[k]]
  <2>2. g \in [0..n + 1 -> S] BY <2>1
  <2>3. g[0] = base BY <2>1
  <2>4. ASSUME NEW k \in Nat, k < n + 1 PROVE g[k + 1] = step[g[k]] BY <2>1, <2>4
  <2>5. Up(n + 1, g)
    <3> HIDE DEF g
    <3> QED BY <2>2, <2>3, <2>4
  <2> HIDE DEF g, Up
  <2>6. \E e : Up(n + 1, e) BY <2>5
  <2> QED BY <2>6
<1>3. Nat \subseteq Ns
  <2> HIDE DEF Ns
  <2> QED BY <1>1, <1>2, NatSet
<1>4. ASSUME NEW n \in Nat, NEW m \in Nat, n <= m, NEW f, NEW g, Up(n, f), Up(m, g)
      PROVE  f[n] = g[n]
  <2> DEFINE Same == {k \in Nat : k <= n => f[k] = g[k]}
  <2>1. 0 \in Same BY <1>4
  <2>2. ASSUME NEW k \in Nat, k \in Same PROVE k + 1 \in Same BY <1>4, <2>2
  <2>3. Nat \subseteq Same
    <3> HIDE DEF Same
    <3> QED BY <2>1, <2>2, NatSet
  <2> QED BY <2>3
<1> DEFINE up == [n \in Nat |-> CHOOSE f : Up(n, f)]
           h == [n \in Nat |-> up[n][n]]
<1>5. ASSUME NEW n \in Nat PROVE Up(n, up[n])
  <2>1. \E f : Up(n, f) BY <1>3
  <2> HIDE DEF Up
  <2> QED BY <2>1
<1>6. h \in [Nat -> S]
  <2>1. ASSUME NEW n \in Nat PROVE up[n][n] \in S
    <3> HIDE DEF up
    <3> QED BY <1>5
  <2> HIDE DEF up
  <2> QED BY <2>1
<1>7. h[0] = base
  <2> HIDE DEF up
  <2> QED BY <1>5
<1>8. ASSUME NEW k \in Nat PROVE h[k + 1] = step[h[k]]
  <2>1. Up(k, up[k]) /\ Up(k + 1, up[k + 1])
    <3> HIDE DEF up, Up
    <3> QED BY <1>5
  <2>2. up[k][k] = up[k + 1][k]
    <3> HIDE DEF up, Up
    <3> QED BY <2>1, <1>4
  <2> HIDE DEF up
  <2>3. up[k + 1][k + 1] = step[up[k + 1][k]] BY <2>1
  <2> QED BY <2>2, <2>3
<1> HIDE DEF h
<1> QED BY <1>6, <1>7, <1>8 DEF Iterates

-----------------------------------------------------------------------------
(* What is on its way to a client.                                          *)

\* The types of messages
Kinds == EventTypes \cup {"reply"}

Messages(V) == [type : Kinds, val : V, n : Nat]
UnitsOf(V) == [m : Messages(V), part : {"header", "payload"}]

\* Whole messages with the events after seen, up to last
Stream(q, seen, last) == Whole(q) /\ Numbered(q, seen + 1, last)

\* Two more at the end of a sequence
LEMMA AppendTwo ==
  ASSUME NEW U, NEW q \in Seq(U), NEW u \in U, NEW v \in U
  PROVE  /\ q \o <<u, v>> \in Seq(U)
         /\ Len(q \o <<u, v>>) = Len(q) + 2
         /\ \A i \in 1..Len(q) : (q \o <<u, v>>)[i] = q[i]
         /\ (q \o <<u, v>>)[Len(q) + 1] = u
         /\ (q \o <<u, v>>)[Len(q) + 2] = v
<1>1. <<u, v>> \in Seq(U) /\ Len(<<u, v>>) = 2 OBVIOUS
<1> DEFINE t == <<u, v>>
<1>2. t[1] = u /\ t[2] = v OBVIOUS
<1> HIDE DEF t
<1>3. /\ t \in Seq(U) /\ Len(t) = 2 BY <1>1 DEF t
<1>4. /\ q \o t \in Seq(U) /\ Len(q \o t) = Len(q) + 2
      /\ \A i \in 1..Len(q) + 2 : (q \o t)[i] = IF i <= Len(q) THEN q[i] ELSE t[i - Len(q)]
  <2>1. /\ q \o t \in Seq(U) /\ Len(q \o t) = Len(q) + Len(t)
        /\ \A i \in 1..Len(q) + Len(t) :
             (q \o t)[i] = IF i <= Len(q) THEN q[i] ELSE t[i - Len(q)]
    BY <1>3, ConcatProperties
  <2> QED BY <1>3, <2>1
<1>5. Len(q) \in Nat OBVIOUS
<1>6. /\ \A i \in 1..Len(q) : (q \o t)[i] = q[i]
      /\ (q \o t)[Len(q) + 1] = t[1]
      /\ (q \o t)[Len(q) + 2] = t[2]
  BY <1>4, <1>5
<1> QED BY <1>2, <1>4, <1>6 DEF t

\* A message after whole messages leaves them whole.
LEMMA WholeAppend ==
  ASSUME NEW V, NEW q \in Seq(UnitsOf(V)), NEW m \in Messages(V), Len(q) % 2 = 0, Whole(q)
  PROVE  /\ q \o Units(m) \in Seq(UnitsOf(V))
         /\ Len(q \o Units(m)) = Len(q) + 2
         /\ Len(q \o Units(m)) % 2 = 0
         /\ Whole(q \o Units(m))
         /\ m.n = 0 => Events(q \o Units(m)) = Events(q)
         /\ m.n # 0 => Events(q \o Units(m)) = Events(q) \cup {Len(q) + 2}
         /\ \A i \in 1..Len(q) : (q \o Units(m))[i] = q[i]
         /\ (q \o Units(m))[Len(q) + 2].m = m
<1> DEFINE u == [m |-> m, part |-> "header"]
           v == [m |-> m, part |-> "payload"]
           r == q \o Units(m)
           l == Len(q)
<1>1. u \in UnitsOf(V) /\ v \in UnitsOf(V) BY DEF UnitsOf
<1>2. r = q \o <<u, v>> BY DEF Units
<1>3. u.m = m /\ v.m = m /\ u.part = "header" /\ v.part = "payload" OBVIOUS
<1>4. m.n \in Nat BY DEF Messages
<1> HIDE DEF u, v, r
<1>5. /\ r \in Seq(UnitsOf(V)) /\ Len(r) = Len(q) + 2
      /\ \A i \in 1..Len(q) : r[i] = q[i]
      /\ r[Len(q) + 1] = u /\ r[Len(q) + 2] = v
  BY <1>1, <1>2, AppendTwo
<1>6. l \in Nat /\ l % 2 = 0 OBVIOUS
<1>7. /\ DOMAIN q = 1..l /\ DOMAIN r = 1..l + 2 /\ Len(r) = l + 2
      /\ \A i \in 1..l : r[i] = q[i]
      /\ r[l + 1] = u /\ r[l + 2] = v
  BY <1>5
<1> HIDE DEF l
<1>8. \A i \in 1..l + 2 : i \in 1..l \/ i = l + 1 \/ i = l + 2 BY <1>6
<1>9. (l + 1) % 2 = 1 /\ (l + 2) % 2 = 0 BY <1>6
<1>10. Whole(r)
  <2>1. ASSUME NEW i \in 1..l + 2
        PROVE  r[i].part = IF i % 2 = 1 THEN "header" ELSE "payload"
    <3>1. CASE i \in 1..l BY <3>1, <1>7 DEF Whole
    <3>2. CASE i = l + 1 BY <3>2, <1>7, <1>9, <1>3
    <3>3. CASE i = l + 2 BY <3>3, <1>7, <1>9, <1>3
    <3> QED BY <3>1, <3>2, <3>3, <1>8
  <2>2. ASSUME NEW i \in 1..l + 2, i % 2 = 0 PROVE r[i].m = r[i - 1].m
    <3>1. CASE i \in 1..l
      <4>1. i - 1 \in 1..l BY <3>1, <2>2, <1>6
      <4> QED BY <4>1, <3>1, <2>2, <1>7 DEF Whole
    <3>2. CASE i = l + 1 BY <3>2, <2>2, <1>9
    <3>3. CASE i = l + 2
      <4>1. i - 1 = l + 1 BY <3>3, <1>6
      <4> QED BY <4>1, <3>3, <1>7, <1>3
    <3> QED BY <3>1, <3>2, <3>3, <1>8
  <2> QED BY <2>1, <2>2, <1>7 DEF Whole
<1>11. /\ m.n = 0 => Events(r) = Events(q)
       /\ m.n # 0 => Events(r) = Events(q) \cup {l + 2}
  <2>1. \A i \in 1..l : i \in Events(r) <=> i \in Events(q) BY <1>6, <1>7 DEF Events
  <2>2. l + 1 \notin Events(r) BY <1>7, <1>3 DEF Events
  <2>3. l + 2 \in Events(r) <=> m.n # 0 BY <1>6, <1>7, <1>3, <1>4 DEF Events
  <2>4. Events(r) \subseteq 1..l + 2 /\ Events(q) \subseteq 1..l BY <1>7 DEF Events
  <2> QED BY <2>1, <2>2, <2>3, <2>4, <1>8, <1>6
<1>12. (l + 2) % 2 = 0 BY <1>9
<1> QED BY <1>5, <1>7, <1>10, <1>11, <1>12, <1>3 DEF l, r

\* Concatenation is associative, and what is concatenated is a sequence.
Regrouped(S, x, y, u) ==
  /\ (x \o y) \o u = x \o (y \o u) /\ x \o (y \o u) \in Seq(S)
  /\ x \o y \in Seq(S)

\* Any three sequences can be concatenated in either order.
LEMMA Regroup ==
  ASSUME NEW S, NEW x \in Seq(S), NEW y \in Seq(S), NEW u \in Seq(S) PROVE Regrouped(S, x, y, u)
<1>1. (x \o y) \o u = x \o (y \o u) BY ConcatAssociative, SMTT(60)
<1>2. y \o u \in Seq(S) /\ x \o y \in Seq(S) BY ConcatProperties
<1>3. x \o (y \o u) \in Seq(S) BY <1>2, ConcatProperties
<1> QED BY <1>1, <1>2, <1>3 DEF Regrouped

\* A reply after a stream of whole messages
LEMMA StreamReply ==
  ASSUME NEW V, NEW q \in Seq(UnitsOf(V)), NEW m \in Messages(V), Len(q) % 2 = 0, m.n = 0,
         NEW seen \in Nat, NEW last \in Nat, Stream(q, seen, last)
  PROVE  Stream(q \o Units(m), seen, last)
<1> DEFINE r == q \o Units(m)
<1>0. Whole(q) BY DEF Stream
<1>1. /\ Whole(r) /\ Events(r) = Events(q)
      /\ \A i \in 1..Len(q) : r[i] = q[i]
  <2>2. Whole(r) /\ \A i \in 1..Len(q) : r[i] = q[i] BY <1>0, WholeAppend
  <2>3. Events(r) = Events(q) BY <1>0, WholeAppend
  <2> QED BY <2>2, <2>3
<1>2. Events(q) \subseteq 1..Len(q) BY DEF Events
<1>3. \A i \in Events(q) : r[i] = q[i] BY <1>1, <1>2
<1> HIDE DEF r
<1>5. Numbered(r, seen + 1, last) BY <1>3, <1>1 DEF Stream, Numbered
<1> QED BY <1>1, <1>5 DEF Stream, r

\* The next event after a stream of whole messages
LEMMA StreamEvent ==
  ASSUME NEW V, NEW q \in Seq(UnitsOf(V)), NEW m \in Messages(V), Len(q) % 2 = 0,
         NEW seen \in Nat, NEW last \in Nat, seen <= last, m.n = last + 1, Stream(q, seen, last)
  PROVE  Stream(q \o Units(m), seen, last + 1)
<1> DEFINE r == q \o Units(m)
           e == Len(q) + 2
<1>1. /\ Whole(r) /\ Events(r) = Events(q) \cup {e}
      /\ \A i \in 1..Len(q) : r[i] = q[i]
      /\ r[e].m = m
  BY WholeAppend DEF Stream
<1>2. Events(q) \subseteq 1..Len(q) /\ Len(q) \in Nat BY DEF Events
<1>3. \A i \in Events(q) : r[i] = q[i] /\ i < e BY <1>1, <1>2
<1> HIDE DEF r, e
<1>4. \A i \in Events(q) : q[i].m.n \in (seen + 1)..last BY DEF Stream, Numbered
<1>5. ASSUME NEW i \in Events(r), NEW j \in Events(r), i < j PROVE r[i].m.n < r[j].m.n
  <2>1. CASE i = e BY <1>1, <1>3, <2>1, <1>5, <1>2 DEF e
  <2>2. CASE i \in Events(q) /\ j = e BY <1>1, <1>3, <1>4, <2>2
  <2>3. CASE i \in Events(q) /\ j \in Events(q) BY <1>3, <2>3, <1>5 DEF Stream, Numbered
  <2> QED BY <2>1, <2>2, <2>3, <1>1
<1>6. {r[i].m.n : i \in Events(r)} = (seen + 1)..(last + 1)
  <2>1. {r[i].m.n : i \in Events(r)} = {q[i].m.n : i \in Events(q)} \cup {last + 1}
    BY <1>1, <1>3
  <2>2. (seen + 1)..(last + 1) = ((seen + 1)..last) \cup {last + 1} OBVIOUS
  <2>3. {q[i].m.n : i \in Events(q)} = (seen + 1)..last BY DEF Stream, Numbered
  <2> QED BY <2>1, <2>2, <2>3
<1> QED BY <1>1, <1>5, <1>6 DEF Stream, Numbered, r

\* The beginning of a stream is one, up to an earlier event.
LEMMA StreamPrefix ==
  ASSUME NEW V, NEW p \in Seq(UnitsOf(V)), NEW q \in Seq(UnitsOf(V)),
         NEW seen \in Nat, NEW last \in Nat, seen <= last, Stream(p \o q, seen, last)
  PROVE  \E l \in seen..last : Stream(p, seen, l)
<1> DEFINE r == p \o q
<1>1. /\ Len(p) \in Nat /\ Len(q) \in Nat /\ Len(r) = Len(p) + Len(q) /\ DOMAIN r = 1..Len(r)
      /\ DOMAIN p = 1..Len(p)
      /\ \A i \in 1..Len(p) : r[i] = p[i]
  BY ConcatProperties
<1> HIDE DEF r
<1>2. Whole(r) /\ Numbered(r, seen + 1, last) BY DEF Stream, r
<1>3. Whole(p)
  <2>1. \A i \in 1..Len(p) : i \in DOMAIN r BY <1>1
  <2>2. ASSUME NEW i \in 1..Len(p), i % 2 = 0 PROVE p[i].m = p[i - 1].m
    <3>1. i - 1 \in 1..Len(p) BY <2>2, <1>1
    <3> QED BY <3>1, <2>1, <2>2, <1>1, <1>2 DEF Whole
  <2> QED BY <2>1, <2>2, <1>1, <1>2 DEF Whole
<1>4. Events(p) = {i \in Events(r) : i <= Len(p)} BY <1>1 DEF Events
<1>5. \A i \in Events(p) : p[i] = r[i] /\ i \in Events(r) BY <1>1, <1>4 DEF Events
<1> DEFINE P == {p[i].m.n : i \in Events(p)}
           T == {l \in Nat : seen <= l /\ \A k \in P : k <= l}
<1>6. P \subseteq (seen + 1)..last BY <1>2, <1>5 DEF Numbered
<1>7. \A k \in P, j \in (seen + 1)..last : j < k => j \in P
  <2>1. TAKE k \in P, j \in (seen + 1)..last
  <2>2. HAVE j < k
  <2>3. PICK i \in Events(p) : p[i].m.n = k OBVIOUS
  <2>4. PICK h \in Events(r) : r[h].m.n = j BY <1>2 DEF Numbered
  <2>5. k \in Int /\ j \in Int /\ i \in Int /\ h \in Int BY <1>6, <1>1 DEF Events
  <2>6. ~ (i < h) BY <2>2, <2>3, <2>4, <2>5, <1>2, <1>5 DEF Numbered
  <2>7. h \in Events(p) BY <2>5, <2>6, <1>4, <1>1
  <2> QED BY <2>7, <2>4, <1>5
<1>8. last \in T BY <1>6
<1> HIDE DEF P
<1>9. PICK l \in T : \A x \in T : l <= x
  <2> HIDE DEF T
  <2>1. T \subseteq Nat BY DEF T
  <2> QED BY <1>8, <2>1, Least
<1>10. P = (seen + 1)..l
  <2>0. l \in Nat /\ seen <= l /\ \A k \in P : k <= l OBVIOUS
  <2>1. P \subseteq (seen + 1)..l BY <1>6, <2>0
  <2>2. CASE l = seen
    <3>1. (seen + 1)..l = {} BY <2>0, <2>2
    <3> QED BY <3>1, <2>1
  <2>3. CASE l # seen
    <3>1. l \in P
      <4>1. SUFFICES ASSUME l \notin P PROVE FALSE OBVIOUS
      <4>2. l - 1 \in T BY <4>1, <2>0, <2>3, <1>6
      <4> QED BY <4>2, <1>9, <2>0
    <3>2. l <= last BY <1>8, <1>9
    <3>3. ASSUME NEW k \in (seen + 1)..l PROVE k \in P
      <4>1. k \in (seen + 1)..last BY <3>2, <2>0
      <4>2. k = l \/ k < l BY <2>0
      <4> QED BY <4>1, <4>2, <3>1, <1>7
    <3>4. (seen + 1)..l \subseteq P BY <3>3
    <3> QED BY <2>1, <3>4
  <2> QED BY <2>2, <2>3
<1>11. Numbered(p, seen + 1, l)
  <2>1. \A i, j \in Events(p) : i < j => p[i].m.n < p[j].m.n BY <1>2, <1>5 DEF Numbered
  <2> QED BY <2>1, <1>10 DEF Numbered, P
<1>12. l \in seen..last BY <1>8, <1>9
<1> QED BY <1>3, <1>11, <1>12 DEF Stream

\* What is left of a stream once its first message is read
LEMMA StreamTail ==
  ASSUME NEW V, NEW q \in Seq(UnitsOf(V)), Len(q) >= 2,
         NEW seen \in Nat, NEW last \in Nat, seen <= last, Stream(q, seen, last),
         NEW now, now = IF q[1].m.n > 0 THEN q[1].m.n ELSE seen
  PROVE  now \in seen..last /\ Stream(Tail(Tail(q)), now, last)
<1> DEFINE r == Tail(Tail(q))
           l == Len(q)
<1>1. /\ r \in Seq(UnitsOf(V)) /\ Len(r) = Len(q) - 2
      /\ \A i \in 1..Len(q) - 2 : r[i] = q[i + 2]
  <2>1. q # <<>> /\ Tail(q) \in Seq(UnitsOf(V)) /\ Len(Tail(q)) = Len(q) - 1 OBVIOUS
  <2>2. Tail(q) # <<>>
    <3>1. Len(Tail(q)) # 0 BY <2>1
    <3> QED BY <3>1, <2>1, EmptySeq
  <2>3. \A i \in 1..Len(q) - 1 : Tail(q)[i] = q[i + 1] BY <2>1, HeadTailProperties
  <2>4. \A i \in 1..Len(q) - 2 : Tail(Tail(q))[i] = Tail(q)[i + 1] BY <2>1, <2>2, HeadTailProperties
  <2>5. Tail(Tail(q)) \in Seq(UnitsOf(V)) /\ Len(Tail(Tail(q))) = Len(q) - 2 BY <2>1, <2>2
  <2>6. \A i \in 1..Len(q) - 2 : i + 1 \in 1..Len(q) - 1 /\ (i + 1) + 1 = i + 2 OBVIOUS
  <2> QED BY <2>3, <2>4, <2>5, <2>6
<1> HIDE DEF r
<1>2. l \in Nat /\ l >= 2 OBVIOUS
<1>3. DOMAIN q = 1..l /\ DOMAIN r = 1..l - 2 /\ \A i \in 1..l - 2 : r[i] = q[i + 2] BY <1>1
<1>4. \A i \in 1..l : q[i].m.n \in Nat
  <2>1. \A i \in 1..l : q[i] \in UnitsOf(V) BY ElementOfSeq
  <2> QED BY <2>1 DEF UnitsOf, Messages
<1> HIDE DEF l
<1>5. Whole(q) /\ Numbered(q, seen + 1, last) BY DEF Stream
<1>6. Whole(r)
  <2>1. ASSUME NEW i \in 1..l - 2 PROVE r[i].part = IF i % 2 = 1 THEN "header" ELSE "payload"
    <3>1. i + 2 \in 1..l /\ (i + 2) % 2 = i % 2 BY <1>2
    <3> QED BY <3>1, <1>3, <1>5 DEF Whole
  <2>2. ASSUME NEW i \in 1..l - 2, i % 2 = 0 PROVE r[i].m = r[i - 1].m
    <3>1. i + 2 \in 1..l /\ (i + 2) % 2 = 0 /\ (i + 2) - 1 = (i - 1) + 2 /\ i - 1 \in 1..l - 2
      BY <1>2, <2>2
    <3>2. q[i + 2].m = q[(i + 2) - 1].m BY <3>1, <1>3, <1>5 DEF Whole
    <3> QED BY <3>1, <3>2, <1>3
  <2> QED BY <2>1, <2>2, <1>3 DEF Whole
<1>7. q[1].part = "header" /\ q[2].part = "payload" /\ q[2].m = q[1].m
  <2>1. 1 \in 1..l /\ 2 \in 1..l /\ 1 % 2 = 1 /\ 2 % 2 = 0 /\ 2 - 1 = 1 BY <1>2
  <2>2. q[2].m = q[2 - 1].m BY <2>1, <1>3, <1>5 DEF Whole
  <2> QED BY <2>1, <2>2, <1>3, <1>5 DEF Whole
<1>8. Events(r) = {i \in 1..l - 2 : i + 2 \in Events(q)}
  <2>1. \A i \in 1..l - 2 : i + 2 \in 1..l BY <1>2
  <2> QED BY <2>1, <1>3 DEF Events
<1>9. \A i \in Events(r) : r[i] = q[i + 2] /\ i + 2 \in Events(q) /\ i \in 1..l - 2 BY <1>3, <1>8
<1>10. \A i \in Events(q) : i \in 1..l /\ i # 1 /\ q[i].m.n \in Nat BY <1>3, <1>4, <1>7 DEF Events
<1>11. \A i \in Events(q) : i # 2 => i - 2 \in Events(r) /\ r[i - 2] = q[i]
  <2>1. TAKE i \in Events(q)
  <2>2. HAVE i # 2
  <2>3. i - 2 \in 1..l - 2 /\ (i - 2) + 2 = i BY <2>2, <1>10, <1>2
  <2> QED BY <2>3, <1>8, <1>3
<1>12. 2 \in Events(q) <=> q[1].m.n > 0
  <2>1. 2 \in DOMAIN q BY <1>2, <1>3
  <2> QED BY <2>1, <1>7 DEF Events
<1>13. \A i, j \in Events(r) : i < j => r[i].m.n < r[j].m.n
  <2>1. TAKE i, j \in Events(r)
  <2>2. HAVE i < j
  <2>3. i + 2 < j + 2 BY <2>2, <1>9, <1>2
  <2> QED BY <2>3, <1>9, <1>5 DEF Numbered
<1>14. CASE q[1].m.n > 0
  <2>1. now = q[2].m.n /\ 2 \in Events(q) /\ now \in Nat BY <1>14, <1>12, <1>7, <1>10
  <2>2. now \in (seen + 1)..last BY <2>1, <1>5 DEF Numbered
  <2>3. now = seen + 1
    <3>1. seen + 1 \in (seen + 1)..last BY <2>2
    <3>2. PICK i \in Events(q) : q[i].m.n = seen + 1 BY <3>1, <1>5 DEF Numbered
    <3>3. CASE i = 2 BY <3>2, <3>3, <2>1
    <3>4. CASE i # 2
      <4>1. 2 < i BY <3>4, <1>10
      <4>2. now < seen + 1 BY <4>1, <3>2, <2>1, <1>5 DEF Numbered
      <4> QED BY <4>2, <2>2
    <3> QED BY <3>3, <3>4
  <2>4. {r[i].m.n : i \in Events(r)} = (now + 1)..last
    <3>1. ASSUME NEW i \in Events(r) PROVE r[i].m.n \in (now + 1)..last
      <4>1. q[i + 2].m.n \in (seen + 1)..last BY <1>9, <1>5 DEF Numbered
      <4>2. 2 < i + 2 BY <1>9, <1>2
      <4>3. now < q[i + 2].m.n BY <4>2, <1>9, <2>1, <1>5 DEF Numbered
      <4> QED BY <4>1, <4>3, <2>3, <1>9, SMTT(60)
    <3>2. ASSUME NEW k \in (now + 1)..last PROVE \E i \in Events(r) : r[i].m.n = k
      <4>1. k \in (seen + 1)..last /\ k # now BY <2>3
      <4>2. PICK i \in Events(q) : q[i].m.n = k BY <4>1, <1>5 DEF Numbered
      <4>3. i # 2 BY <4>1, <4>2, <2>1
      <4> QED BY <4>2, <4>3, <1>11
    <3> QED BY <3>1, <3>2
  <2>5. Numbered(r, now + 1, last) BY <2>4, <1>13 DEF Numbered
  <2>6. now \in seen..last BY <2>2
  <2> QED BY <2>5, <2>6, <1>6 DEF Stream, r
<1>15. CASE ~ (q[1].m.n > 0)
  <2>1. now = seen /\ 2 \notin Events(q) BY <1>15, <1>12
  <2>2. {r[i].m.n : i \in Events(r)} = {q[i].m.n : i \in Events(q)}
    <3>1. \A i \in Events(r) : \E j \in Events(q) : q[j].m.n = r[i].m.n BY <1>9
    <3>2. \A i \in Events(q) : \E j \in Events(r) : r[j].m.n = q[i].m.n BY <1>11, <2>1
    <3> QED BY <3>1, <3>2
  <2>3. Numbered(r, now + 1, last) BY <2>1, <2>2, <1>5, <1>13 DEF Numbered
  <2>4. now \in seen..last BY <2>1
  <2> QED BY <2>3, <2>4, <1>6 DEF Stream, r
<1> QED BY <1>14, <1>15

\* Nothing is on its way.
LEMMA StreamEmpty == ASSUME NEW n \in Nat PROVE Stream(<<>>, n, n)
<1>1. DOMAIN <<>> = {} OBVIOUS
<1>2. (n + 1)..n = {} OBVIOUS
<1> QED BY <1>1, <1>2 DEF Stream, Whole, Numbered, Events

-----------------------------------------------------------------------------
(* Sequences and their parts.                                              *)

\* The first of a sequence and the others are of its set.
LEMMA HeadTail ==
  ASSUME NEW S, NEW q \in Seq(S), q # <<>> PROVE Head(q) \in S /\ Tail(q) \in Seq(S)
<1>1. Len(q) \in Nat /\ Len(q) # 0 BY EmptySeq
<1> QED BY <1>1, HeadTailProperties

\* The first n of q and the others
SplitAt(S, q, n, p, r) ==
  p \in Seq(S) /\ r \in Seq(S) /\ p \o r = q /\ Len(r) = Len(q) - n

\* A sequence is what write takes and what it leaves.
LEMMA Split ==
  ASSUME NEW S, NEW q \in Seq(S), NEW n \in 1..Len(q)
  PROVE  SplitAt(S, q, n, SubSeq(q, 1, n), SubSeq(q, n + 1, Len(q)))
<1> DEFINE l == Len(q)
           p == SubSeq(q, 1, n)
           r == SubSeq(q, n + 1, l)
<1>1. l \in Nat /\ n \in Nat /\ 1 <= n /\ n <= l OBVIOUS
<1>2. \A i \in 1..l : q[i] \in S BY SMTT(60)
<1>3. p \o r = q
  <2>1. 1 \in 1..(l + 1) /\ n \in (1 - 1)..l /\ l \in n..l BY <1>1
  <2>2. SubSeq(q, 1, n) \o SubSeq(q, n + 1, l) = SubSeq(q, 1, l) BY <2>1, ConcatAdjacentSubSeq
  <2>3. SubSeq(q, 1, l) = q BY SubSeqFull
  <2> QED BY <2>2, <2>3, Zenon
<1> HIDE DEF l
<1>4. p \in Seq(S)
  <2>1. 1 \in Int /\ n \in Int /\ \A i \in 1..n : q[i] \in S BY <1>1, <1>2
  <2> QED BY <2>1, SubSeqProperties
<1>5. r \in Seq(S) /\ Len(r) = l - n
  <2>1. n + 1 \in Int /\ l \in Int /\ \A i \in (n + 1)..l : q[i] \in S BY <1>1, <1>2
  <2>2. r \in Seq(S) /\ Len(r) = IF n + 1 <= l THEN l - (n + 1) + 1 ELSE 0 BY <2>1, SubSeqProperties
  <2>3. (IF n + 1 <= l THEN l - (n + 1) + 1 ELSE 0) = l - n BY <1>1
  <2> QED BY <2>2, <2>3
<1> HIDE DEF p, r
<1>6. SplitAt(S, q, n, p, r) BY <1>3, <1>4, <1>5 DEF SplitAt, l
<1> QED BY <1>6 DEF p, r, l

\* What follows does not matter to what is first.
Ahead(S, q, b, r) == /\ r \in Seq(S) /\ Len(r) = Len(q) - 2
                     /\ r \o b = Tail(Tail(q \o b)) /\ (q \o b)[1] = Head(q)

\* The first of a sequence is the first of all that begin with it.
LEMMA TailConcat ==
  ASSUME NEW S, NEW q \in Seq(S), q # <<>>, NEW b \in Seq(S)
  PROVE  Tail(q) \o b = Tail(q \o b) /\ (q \o b)[1] = Head(q)
<1> DEFINE l == Len(q)
           k == Len(b)
           t == Tail(q)
           a == q \o b
<1>1. l \in Nat /\ l # 0 /\ k \in Nat /\ Head(q) = q[1] BY EmptySeq
<1>2. t \in Seq(S) /\ Len(t) = l - 1 /\ \A i \in 1..(l - 1) : t[i] = q[i + 1]
  <2>1. t \in Seq(S) /\ Len(t) = l - 1 /\ \A i \in 1..Len(t) : t[i] = q[i + 1] BY HeadTailProperties
  <2> HIDE DEF t
  <2> QED BY <2>1
<1>3. a \in Seq(S) /\ Len(a) = l + k
      /\ \A i \in 1..(l + k) : a[i] = IF i <= l THEN q[i] ELSE b[i - l]
  BY ConcatProperties
<1> HIDE DEF l, k, t, a
<1>4. a # <<>>
  <2>1. Len(a) # 0 BY <1>1, <1>3
  <2> QED BY <2>1, EmptySeq
<1>5. Tail(a) \in Seq(S) /\ Len(Tail(a)) = l + k - 1
      /\ \A i \in 1..(l + k - 1) : Tail(a)[i] = a[i + 1]
  <2>1. Tail(a) \in Seq(S) /\ Len(Tail(a)) = Len(a) - 1 /\ \A i \in 1..Len(Tail(a)) : Tail(a)[i] = a[i + 1]
    BY <1>3, <1>4, HeadTailProperties
  <2>2. Len(Tail(a)) = l + k - 1 BY <2>1, <1>1, <1>3
  <2> QED BY <2>1, <2>2
<1>6. t \o b \in Seq(S) /\ Len(t \o b) = (l - 1) + k
      /\ \A i \in 1..((l - 1) + k) : (t \o b)[i] = IF i <= l - 1 THEN t[i] ELSE b[i - (l - 1)]
  <2>1. t \o b \in Seq(S) /\ Len(t \o b) = Len(t) + Len(b)
        /\ \A i \in 1..(Len(t) + Len(b)) : (t \o b)[i] = IF i <= Len(t) THEN t[i] ELSE b[i - Len(t)]
    BY <1>2, ConcatProperties
  <2>2. Len(t) = l - 1 /\ Len(b) = k BY <1>2 DEF k
  <2> QED BY <2>1, <2>2
<1>7. ASSUME NEW i \in 1..(l + k - 1) PROVE (t \o b)[i] = Tail(a)[i]
  <2>1. i \in 1..((l - 1) + k) /\ i + 1 \in 1..(l + k) BY <1>1
  <2>2. Tail(a)[i] = IF i + 1 <= l THEN q[i + 1] ELSE b[(i + 1) - l] BY <2>1, <1>3, <1>5
  <2>3. CASE i <= l - 1
    <3>1. i \in 1..(l - 1) /\ i + 1 <= l BY <2>3, <1>1
    <3> QED BY <3>1, <2>1, <2>2, <2>3, <1>2, <1>6
  <2>4. CASE ~ (i <= l - 1)
    <3>1. ~ (i + 1 <= l) /\ (i + 1) - l = i - (l - 1) BY <2>4, <1>1
    <3> QED BY <3>1, <2>1, <2>2, <2>4, <1>6
  <2> QED BY <2>3, <2>4
<1>8. t \o b = Tail(a)
  <2>1. Len(t \o b) = Len(Tail(a)) /\ Len(t \o b) = l + k - 1 BY <1>1, <1>5, <1>6
  <2>2. \A i \in 1..Len(t \o b) : (t \o b)[i] = Tail(a)[i] BY <2>1, <1>7
  <2> QED BY <2>1, <2>2, <1>5, <1>6, SeqEqual
<1>9. a[1] = q[1]
  <2>1. 1 \in 1..(l + k) /\ 1 <= l BY <1>1
  <2> QED BY <2>1, <1>3
<1> QED BY <1>1, <1>8, <1>9 DEF t, a

\* The same for its first two, a message
LEMMA TailsConcat ==
  ASSUME NEW S, NEW q \in Seq(S), Len(q) >= 2, NEW b \in Seq(S)
  PROVE  Ahead(S, q, b, Tail(Tail(q)))
<1> DEFINE t == Tail(q)
           u == Tail(t)
<1>1. q # <<>> /\ Len(q) \in Nat
  <2>1. Len(q) \in Nat BY LenProperties
  <2>2. Len(q) # 0 BY <2>1
  <2> QED BY <2>1, <2>2, EmptySeq
<1>2. t \in Seq(S) /\ Len(t) = Len(q) - 1 BY <1>1, HeadTailProperties
<1> HIDE DEF t
<1>3. t # <<>>
  <2>1. Len(t) # 0 BY <1>1, <1>2
  <2> QED BY <2>1, <1>2, EmptySeq
<1>4. u \in Seq(S) /\ Len(u) = Len(t) - 1 BY <1>2, <1>3, HeadTailProperties
<1> HIDE DEF u
<1>5. t \o b = Tail(q \o b) /\ (q \o b)[1] = Head(q) BY <1>1, TailConcat DEF t
<1>6. u \o b = Tail(t \o b) BY <1>2, <1>3, TailConcat DEF u
<1>7. Len(u) = Len(q) - 2 BY <1>1, <1>2, <1>4
<1>8. Ahead(S, q, b, u) BY <1>4, <1>5, <1>6, <1>7 DEF Ahead
<1> QED BY <1>8 DEF u, t

-----------------------------------------------------------------------------
(* The functions of the server.                                             *)

RequestUnits(R) == [m : R, part : {"header", "payload"}]

\* The servers whose messages carry values of V and whose clients ask for R
Servers(V, R) ==
  [limit : Nat, list : Seq(Clients), sub : [Clients -> SUBSET Kinds],
   buf : [Clients -> Seq(UnitsOf(V))], size : [Clients -> Nat], watch : SUBSET Clients,
   pending : [Clients -> R \cup {None}],
   inbox : [Clients -> Seq(RequestUnits(R))],
   net : [Clients -> Seq(UnitsOf(V))], open : SUBSET Clients,
   heard : [Clients -> Nat], seen : [Clients -> Nat]]

\* The types of the fields of a server
Typed(V, R, s) ==
  /\ s.limit \in Nat /\ s.list \in Seq(Clients) /\ s.sub \in [Clients -> SUBSET Kinds]
  /\ s.buf \in [Clients -> Seq(UnitsOf(V))] /\ s.size \in [Clients -> Nat]
  /\ s.watch \in SUBSET Clients /\ s.pending \in [Clients -> R \cup {None}]
  /\ s.inbox \in [Clients -> Seq(RequestUnits(R))]
  /\ s.net \in [Clients -> Seq(UnitsOf(V))] /\ s.open \in SUBSET Clients
  /\ s.heard \in [Clients -> Nat] /\ s.seen \in [Clients -> Nat]

\* A record with the fields of a server
Record(s) ==
  s = [limit |-> s.limit, list |-> s.list, sub |-> s.sub, buf |-> s.buf, size |-> s.size,
       watch |-> s.watch, pending |-> s.pending, inbox |-> s.inbox, net |-> s.net,
       open |-> s.open, heard |-> s.heard, seen |-> s.seen]

NoDup(l) == \A i, j \in DOMAIN l : l[i] = l[j] => i = j

\* A client that was still to be told of d events when they were raised
Sound(s, c, d) ==
  /\ s.buf[c] # <<>> <=> c \in s.watch
  /\ IF Connected(s, c)
     THEN Len(s.buf[c]) < s.size[c] /\ s.size[c] <= s.limit
     ELSE s.buf[c] = <<>> /\ s.sub[c] = {} /\ s.pending[c] = None /\ s.inbox[c] = <<>>
  /\ c \in s.open =>
       \E last \in s.seen[c]..s.heard[c] :
         /\ Stream(Unread(s, c), s.seen[c], last)
         /\ Connected(s, c) => last = s.heard[c] - d /\ Len(Unread(s, c)) % 2 = 0

\* The state of x is the same in s and r.
SameClient(s, r, x) ==
  /\ Connected(s, x) <=> Connected(r, x)
  /\ x \in s.watch <=> x \in r.watch
  /\ x \in s.open <=> x \in r.open
  /\ s.sub[x] = r.sub[x] /\ s.buf[x] = r.buf[x] /\ s.size[x] = r.size[x]
  /\ s.pending[x] = r.pending[x] /\ s.inbox[x] = r.inbox[x] /\ s.net[x] = r.net[x]
  /\ s.heard[x] = r.heard[x] /\ s.seen[x] = r.seen[x]

\* Only c and the place of clients in the list may differ.
OnlyOf(c, s, r) == s.limit = r.limit /\ \A x \in Clients \ {c} : SameClient(s, r, x)

\* Who has the same state is as sound.
LEMMA SameSound ==
  ASSUME NEW s, NEW r, NEW x, NEW d, s.limit = r.limit, SameClient(s, r, x), Sound(s, x, d)
  PROVE  Sound(r, x, d)
BY DEF Sound, SameClient, Unread

\* A server is a record with fields of these types.
LEMMA ServerFields ==
  ASSUME NEW V, NEW R, NEW s PROVE s \in Servers(V, R) <=> Record(s) /\ Typed(V, R, s)
<1>1. ASSUME s \in Servers(V, R) PROVE Record(s) /\ Typed(V, R, s)
  BY <1>1 DEF Servers, Record, Typed
<1>2. ASSUME Record(s), Typed(V, R, s) PROVE s \in Servers(V, R)
  BY <1>2 DEF Servers, Record, Typed
<1> QED BY <1>1, <1>2

\* A change of the function at c
LEMMA Update ==
  ASSUME NEW T, NEW f \in [Clients -> T], NEW c \in Clients, NEW v \in T
  PROVE  /\ [f EXCEPT ![c] = v] \in [Clients -> T]
         /\ [f EXCEPT ![c] = v][c] = v
         /\ \A x \in Clients \ {c} : [f EXCEPT ![c] = v][x] = f[x]
OBVIOUS

-----------------------------------------------------------------------------
(* Buffers grow enough.                                                     *)

\* The turns of the loop in ipc_send_reply double the size.
LEMMA DoublingsSteps ==
  ASSUME NEW size \in Nat
  PROVE  /\ Doublings(size) \in [Nat -> Nat]
         /\ Doublings(size)[0] = size
         /\ \A k \in Nat : Doublings(size)[k + 1] = 2 * Doublings(size)[k]
<1> DEFINE double == [n \in Nat |-> 2 * n]
           Def(f) == f = [k \in Nat |-> IF k = 0 THEN size ELSE 2 * f[k - 1]]
<1>1. PICK f : Iterates(f, Nat, size, double)
  <2>1. double \in [Nat -> Nat] OBVIOUS
  <2> HIDE DEF double
  <2> QED BY <2>1, Iteration
<1>2. Def(f)
  <2>1. ASSUME NEW k \in Nat, k # 0 PROVE f[k] = 2 * f[k - 1]
    <3>1. k - 1 \in Nat /\ (k - 1) + 1 = k BY <2>1
    <3>2. f[(k - 1) + 1] = double[f[k - 1]] BY <3>1, <1>1 DEF Iterates
    <3> QED BY <3>1, <3>2, <1>1 DEF Iterates
  <2>2. f = [k \in Nat |-> f[k]] BY <1>1 DEF Iterates
  <2>3. \A k \in Nat : f[k] = IF k = 0 THEN size ELSE 2 * f[k - 1] BY <1>1, <2>1 DEF Iterates
  <2> QED BY <2>2, <2>3
<1>3. Doublings(size) = CHOOSE g : Def(g) BY DEF Doublings
<1>4. Def(Doublings(size))
  <2> HIDE DEF Def
  <2> QED BY <1>2, <1>3
<1> DEFINE g == Doublings(size)
<1> HIDE DEF g
<1>5. g = [k \in Nat |-> IF k = 0 THEN size ELSE 2 * g[k - 1]] BY <1>4 DEF g
<1>6. g[0] = size BY <1>5
<1>7. ASSUME NEW k \in Nat PROVE g[k + 1] = 2 * g[k]
  <2>1. k + 1 \in Nat /\ k + 1 # 0 /\ (k + 1) - 1 = k OBVIOUS
  <2>2. g[k + 1] = IF k + 1 = 0 THEN size ELSE 2 * g[(k + 1) - 1] BY <1>5, <2>1
  <2> QED BY <2>1, <2>2
<1>8. g \in [Nat -> Nat]
  <2> DEFINE Ok == {k \in Nat : g[k] \in Nat}
  <2>1. 0 \in Ok BY <1>6
  <2>2. ASSUME NEW k \in Nat, k \in Ok PROVE k + 1 \in Ok
    <3>1. g[k + 1] = 2 * g[k] /\ g[k] \in Nat BY <1>7, <2>2
    <3> QED BY <3>1
  <2>3. Nat \subseteq Ok
    <3> HIDE DEF Ok
    <3> QED BY <2>1, <2>2, NatSet
  <2>4. \A k \in Nat : g[k] \in Nat BY <2>3
  <2>5. g = [k \in Nat |-> g[k]] BY <1>5
  <2> QED BY <2>4, <2>5
<1> QED BY <1>6, <1>7, <1>8 DEF g

\* The loop of ipc_send_reply ends with a buffer above what it is to hold.
LEMMA GrownEnough ==
  ASSUME NEW size \in Nat, size > 0, NEW n \in Nat
  PROVE  Grown(size, n) \in Nat /\ Grown(size, n) > n
<1> DEFINE f == Doublings(size)
<1> HIDE DEF f
<1>1. f \in [Nat -> Nat] /\ f[0] = size /\ \A k \in Nat : f[k + 1] = 2 * f[k]
  BY DoublingsSteps DEF f
<1>2. \A k \in Nat : f[k] > k
  <2> DEFINE Ok == {k \in Nat : f[k] > k}
  <2>1. 0 \in Ok BY <1>1
  <2>2. ASSUME NEW k \in Nat, k \in Ok PROVE k + 1 \in Ok
    <3>1. f[k + 1] = 2 * f[k] /\ f[k] \in Nat /\ f[k] > k BY <1>1, <2>2
    <3> QED BY <3>1
  <2>3. Nat \subseteq Ok
    <3> HIDE DEF Ok
    <3> QED BY <2>1, <2>2, NatSet
  <2> QED BY <2>3
<1> DEFINE T == {k \in 0..n : f[k] > n}
           First(k) == f[k] > n /\ \A j \in 0..(k - 1) : ~(f[j] > n)
<1>3. n \in T BY <1>2
<1>4. PICK k \in T : \A j \in T : k <= j
  <2>1. T \subseteq Nat OBVIOUS
  <2> HIDE DEF T
  <2> QED BY <1>3, <2>1, Least
<1>5. k \in 0..n /\ First(k)
  <2>1. ASSUME NEW j \in 0..(k - 1), f[j] > n PROVE FALSE
    <3>1. j \in T /\ j < k BY <2>1, <1>4
    <3> QED BY <3>1, <1>4
  <2> QED BY <2>1, <1>4
<1>6. Grown(size, n) = f[CHOOSE i \in 0..n : First(i)] BY DEF Grown, f
<1> DEFINE i == CHOOSE j \in 0..n : First(j)
<1>7. i \in 0..n /\ First(i)
  <2> HIDE DEF First
  <2> QED BY <1>5
<1> HIDE DEF i
<1>8. f[i] > n /\ f[i] \in Nat BY <1>7, <1>1
<1> QED BY <1>6, <1>8 DEF i

\* A buffer that is exactly full doubles once.
LEMMA GrownTwice == ASSUME NEW size \in Nat, size > 0 PROVE Grown(size, size) = 2 * size
<1> DEFINE f == Doublings(size)
<1> HIDE DEF f
<1>1. f[0] = size /\ f[1] = 2 * size
  <2>1. f[0] = size /\ f[0 + 1] = 2 * f[0] BY DoublingsSteps DEF f
  <2> QED BY <2>1
<1> DEFINE First(k) == f[k] > size /\ \A j \in 0..(k - 1) : ~(f[j] > size)
<1>2. First(1) /\ 1 \in 0..size BY <1>1
<1>3. \A k \in 0..size : First(k) => k = 1 BY <1>1
<1>4. Grown(size, size) = f[CHOOSE k \in 0..size : First(k)] BY DEF Grown, f
<1> HIDE DEF First
<1>5. (CHOOSE k \in 0..size : First(k)) = 1 BY <1>2, <1>3
<1> QED BY <1>1, <1>4, <1>5

-----------------------------------------------------------------------------
(* Disconnecting a client.                                                  *)

\* RemoveAt closes the gap.
LEMMA Removed ==
  ASSUME NEW S, NEW l \in Seq(S), NEW i \in 1..Len(l)
  PROVE  /\ RemoveAt(l, i) \in Seq(S)
         /\ Len(RemoveAt(l, i)) = Len(l) - 1
         /\ \A j \in 1..(Len(l) - 1) : RemoveAt(l, i)[j] = IF j < i THEN l[j] ELSE l[j + 1]
<1> DEFINE n == Len(l)
           a == SubSeq(l, 1, i - 1)
           b == SubSeq(l, i + 1, n)
<1>1. n \in Nat /\ i \in Nat /\ 1 <= i /\ i <= n OBVIOUS
<1>2. \A j \in 1..n : l[j] \in S OBVIOUS
<1>3. /\ a \in Seq(S) /\ Len(a) = i - 1
      /\ \A j \in 1..(i - 1) : a[j] = l[j]
  <2> HIDE DEF n
  <2>1. 1 \in Int /\ i - 1 \in Int /\ \A j \in 1..(i - 1) : l[j] \in S BY <1>1, <1>2
  <2>2. /\ a \in Seq(S)
        /\ Len(a) = IF 1 <= i - 1 THEN (i - 1) - 1 + 1 ELSE 0
        /\ \A j \in 1..((i - 1) - 1 + 1) : a[j] = l[1 + j - 1]
    BY <2>1, SubSeqProperties
  <2>3. (IF 1 <= i - 1 THEN (i - 1) - 1 + 1 ELSE 0) = i - 1 /\ (i - 1) - 1 + 1 = i - 1 BY <1>1
  <2>4. \A j \in 1..(i - 1) : 1 + j - 1 = j BY <1>1
  <2> HIDE DEF a
  <2> QED BY <2>2, <2>3, <2>4
<1>4. /\ b \in Seq(S) /\ Len(b) = n - i
      /\ \A j \in 1..(n - i) : b[j] = l[i + j]
  <2> HIDE DEF n
  <2>1. n \in Int /\ i + 1 \in Int /\ \A j \in (i + 1)..n : l[j] \in S BY <1>1, <1>2
  <2>2. /\ b \in Seq(S)
        /\ Len(b) = IF i + 1 <= n THEN n - (i + 1) + 1 ELSE 0
        /\ \A j \in 1..(n - (i + 1) + 1) : b[j] = l[(i + 1) + j - 1]
    BY <2>1, SubSeqProperties
  <2>3. (IF i + 1 <= n THEN n - (i + 1) + 1 ELSE 0) = n - i /\ n - (i + 1) + 1 = n - i BY <1>1
  <2>4. \A j \in 1..(n - i) : (i + 1) + j - 1 = i + j BY <1>1
  <2> HIDE DEF b
  <2> QED BY <2>2, <2>3, <2>4
<1>5. RemoveAt(l, i) = a \o b BY DEF RemoveAt
<1> HIDE DEF a, b, n
<1>6. /\ a \o b \in Seq(S) /\ Len(a \o b) = n - 1
      /\ \A j \in 1..(n - 1) : (a \o b)[j] = IF j <= i - 1 THEN a[j] ELSE b[j - (i - 1)]
  <2>1. /\ a \o b \in Seq(S) /\ Len(a \o b) = Len(a) + Len(b)
        /\ \A j \in 1..(Len(a) + Len(b)) :
             (a \o b)[j] = IF j <= Len(a) THEN a[j] ELSE b[j - Len(a)]
    BY <1>3, <1>4, ConcatProperties
  <2>2. Len(a) = i - 1 /\ Len(a) + Len(b) = n - 1 BY <1>1, <1>3, <1>4
  <2> QED BY <2>1, <2>2
<1>7. ASSUME NEW j \in 1..(n - 1) PROVE (a \o b)[j] = IF j < i THEN l[j] ELSE l[j + 1]
  <2>1. CASE j < i
    <3>1. j \in 1..(i - 1) /\ j <= i - 1 BY <2>1, <1>1
    <3> QED BY <3>1, <2>1, <1>3, <1>6
  <2>2. CASE ~ (j < i)
    <3>1. ~ (j <= i - 1) /\ j - (i - 1) \in 1..(n - i) /\ i + (j - (i - 1)) = j + 1 BY <2>2, <1>1
    <3> QED BY <3>1, <2>2, <1>4, <1>6
  <2> QED BY <2>1, <2>2
<1> QED BY <1>5, <1>6, <1>7 DEF n

\* Without the one at i the others are still there once.
LEMMA RemovedOne ==
  ASSUME NEW S, NEW l \in Seq(S), NoDup(l), NEW i \in 1..Len(l)
  PROVE  /\ NoDup(RemoveAt(l, i))
         /\ \A x : Contains(RemoveAt(l, i), x) <=> Contains(l, x) /\ x # l[i]
<1> DEFINE n == Len(l)
           r == RemoveAt(l, i)
<1>1. /\ n \in Nat /\ DOMAIN r = 1..(n - 1) /\ DOMAIN l = 1..n /\ i \in 1..n
      /\ Len(r) = n - 1 /\ Len(l) = n
  <2>1. r \in Seq(S) /\ Len(r) = n - 1 BY Removed
  <2> HIDE DEF r
  <2> QED BY <2>1
<1>2. \A j \in 1..(n - 1) : r[j] = IF j < i THEN l[j] ELSE l[j + 1] BY Removed
<1> HIDE DEF r, n
<1> DEFINE p(x) == IF x < i THEN x ELSE x + 1
<1>3. \A j \in 1..(n - 1) : p(j) \in 1..n /\ p(j) # i /\ r[j] = l[p(j)] BY <1>1, <1>2
<1>4. \A j, k \in 1..(n - 1) : p(j) = p(k) => j = k BY <1>1
<1>5. ASSUME NEW k \in 1..n, k # i PROVE \E j \in 1..(n - 1) : p(j) = k
  <2>1. CASE k < i BY <2>1, <1>1
  <2>2. CASE ~ (k < i)
    <3>1. k - 1 \in 1..(n - 1) /\ p(k - 1) = k BY <2>2, <1>5, <1>1
    <3> QED BY <3>1
  <2> QED BY <2>1, <2>2
<1> HIDE DEF p
<1>6. \A j, k \in 1..n : l[j] = l[k] => j = k BY <1>1 DEF NoDup
<1>7. NoDup(r) BY <1>1, <1>3, <1>4, <1>6 DEF NoDup
<1>8. ASSUME NEW x PROVE Contains(r, x) <=> Contains(l, x) /\ x # l[i]
  <2>1. ASSUME NEW j \in 1..(n - 1), r[j] = x PROVE x # l[i] /\ \E k \in 1..n : l[k] = x
    BY <2>1, <1>1, <1>3, <1>6
  <2>2. ASSUME NEW k \in 1..n, l[k] = x, x # l[i] PROVE \E j \in 1..(n - 1) : r[j] = x
    <3>1. PICK j \in 1..(n - 1) : p(j) = k BY <2>2, <1>5
    <3> QED BY <3>1, <2>2, <1>3
  <2> QED BY <2>1, <2>2, <1>1 DEF Contains
<1> QED BY <1>7, <1>8 DEF r

\* The place of a connected client
LEMMA Placed ==
  ASSUME NEW V, NEW R, NEW s \in Servers(V, R), NoDup(s.list), NEW i \in 1..Len(s.list)
  PROVE  /\ (CHOOSE j \in DOMAIN s.list : s.list[j] = s.list[i]) = i
         /\ Connected(s, s.list[i]) /\ s.list[i] \in Clients
<1>1. s.list \in Seq(Clients) BY DEF Servers
<1>2. DOMAIN s.list = 1..Len(s.list) BY <1>1
<1>3. i \in DOMAIN s.list /\ \A j \in DOMAIN s.list : s.list[j] = s.list[i] => j = i
  BY <1>2 DEF NoDup
<1>4. s.list[i] \in Clients BY <1>1
<1> QED BY <1>2, <1>3, <1>4 DEF Connected, Contains

\* What a reply, an event or a disconnection leaves alone
Kept(s, r) ==
  r.open = s.open /\ r.net = s.net /\ r.heard = s.heard /\ r.seen = s.seen

\* The client c at i has been disconnected.
Disconnected(V, R, s, i, c, r) ==
  /\ r \in Servers(V, R) /\ NoDup(r.list) /\ r.list = RemoveAt(s.list, i)
  /\ OnlyOf(c, s, r) /\ ~Connected(r, c) /\ Kept(s, r)
  /\ c \notin r.watch /\ r.buf[c] = <<>> /\ r.size[c] = 0 /\ r.sub[c] = {}
  /\ r.pending[c] = None /\ r.inbox[c] = <<>>

\* ipc_client_disconnect leaves the other clients alone.
LEMMA Disconnects ==
  ASSUME NEW V, NEW R, NEW s \in Servers(V, R), NoDup(s.list), NEW i \in 1..Len(s.list)
  PROVE  Disconnected(V, R, s, i, s.list[i], ClientDisconnect(s, s.list[i]))
<1> DEFINE c == s.list[i]
           r == ClientDisconnect(s, c)
<1> HIDE DEF c, r
<1>1. c \in Clients /\ (CHOOSE j \in DOMAIN s.list : s.list[j] = c) = i BY Placed DEF c
<1>2. r = [s EXCEPT !.list = RemoveAt(@, i), !.watch = @ \ {c}, !.buf[c] = <<>>, !.size[c] = 0,
                    !.sub[c] = {}, !.pending[c] = None, !.inbox[c] = <<>>]
  BY <1>1 DEF ClientDisconnect, r
<1>3. s.list \in Seq(Clients) BY DEF Servers
<1>4. RemoveAt(s.list, i) \in Seq(Clients) BY <1>3, Removed
<1> DEFINE l == RemoveAt(s.list, i)
<1>5. /\ r.limit = s.limit /\ r.list = l
      /\ r.sub = [s.sub EXCEPT ![c] = {}] /\ r.buf = [s.buf EXCEPT ![c] = <<>>]
      /\ r.size = [s.size EXCEPT ![c] = 0] /\ r.watch = s.watch \ {c}
      /\ r.pending = [s.pending EXCEPT ![c] = None] /\ r.inbox = [s.inbox EXCEPT ![c] = <<>>]
      /\ r.net = s.net /\ r.open = s.open /\ r.heard = s.heard /\ r.seen = s.seen
  BY <1>2 DEF Servers
<1>6. c \in Clients /\ {} \in SUBSET Kinds /\ <<>> \in Seq(UnitsOf(V)) /\ 0 \in Nat
      /\ None \in R \cup {None} /\ <<>> \in Seq(RequestUnits(R))
  BY <1>1, EmptySeq
<1> HIDE DEF l
<1>7. Typed(V, R, s) /\ l \in Seq(Clients) BY ServerFields, <1>4 DEF l
<1>8. Typed(V, R, r)
  <2>1. r.sub \in [Clients -> SUBSET Kinds] BY <1>5, <1>6, <1>7, Update DEF Typed
  <2>2. r.buf \in [Clients -> Seq(UnitsOf(V))] BY <1>5, <1>6, <1>7, Update DEF Typed
  <2>3. r.size \in [Clients -> Nat] BY <1>5, <1>6, <1>7, Update DEF Typed
  <2>4. r.pending \in [Clients -> R \cup {None}] BY <1>5, <1>6, <1>7, Update DEF Typed
  <2>5. r.inbox \in [Clients -> Seq(RequestUnits(R))]
    BY <1>5, <1>6, <1>7, Update DEF Typed
  <2> QED BY <2>1, <2>2, <2>3, <2>4, <2>5, <1>5, <1>7 DEF Typed
<1>9. Record(r) BY <1>2 DEF Servers, Record
<1>10. r \in Servers(V, R) BY <1>8, <1>9, ServerFields
<1>11. NoDup(s.list) /\ s.list[i] = c BY DEF c
<1>12. NoDup(l) BY <1>3, <1>11, RemovedOne DEF l
<1>13. \A x : Contains(l, x) <=> Contains(s.list, x) /\ x # c BY <1>3, <1>11, RemovedOne DEF l
<1>14. ~Connected(r, c) /\ \A x : x # c => (Connected(s, x) <=> Connected(r, x))
  BY <1>5, <1>13 DEF Connected
<1>15. OnlyOf(c, s, r)
  BY <1>1, <1>5, <1>7, <1>14, ZenonT(60) DEF OnlyOf, SameClient, Typed
<1>16. r.buf[c] = <<>> /\ r.size[c] = 0 /\ r.sub[c] = {} /\ r.pending[c] = None /\ r.inbox[c] = <<>>
  BY <1>1, <1>5, <1>7 DEF Typed
<1>17. Disconnected(V, R, s, i, c, r)
  BY <1>5, <1>10, <1>12, <1>14, <1>15, <1>16 DEF l, Disconnected, Kept
<1> QED BY <1>17 DEF c, r

\* A client that is disconnected may still read what was written.
LEMMA DisconnectSound ==
  ASSUME NEW V, NEW R, NEW s \in Servers(V, R), NoDup(s.list), NEW i \in 1..Len(s.list),
         NEW c, c = s.list[i], NEW d, Sound(s, c, d), NEW e
  PROVE  Sound(ClientDisconnect(s, c), c, e)
<1> DEFINE r == ClientDisconnect(s, c)
<1> HIDE DEF r
<1>1. Disconnected(V, R, s, i, c, r) BY Disconnects DEF r
<1>2. c \in Clients BY Placed
<1>3. s.net[c] \in Seq(UnitsOf(V)) /\ s.buf[c] \in Seq(UnitsOf(V)) /\ s.seen[c] \in Nat
      /\ s.heard[c] \in Nat
  BY <1>2, ServerFields, SMTT(60) DEF Typed
<1>4. Unread(r, c) = s.net[c] BY <1>1, <1>3, ConcatEmptySeq DEF Unread, Disconnected, Kept
<1>5. ASSUME c \in s.open
      PROVE  \E last \in s.seen[c]..s.heard[c] : Stream(s.net[c], s.seen[c], last)
  <2>1. PICK last \in s.seen[c]..s.heard[c] : Stream(s.net[c] \o s.buf[c], s.seen[c], last)
    BY <1>5 DEF Sound, Unread
  <2>2. last \in Nat /\ s.seen[c] <= last BY <1>3
  <2>3. PICK l \in s.seen[c]..last : Stream(s.net[c], s.seen[c], l)
    BY <1>3, <2>1, <2>2, StreamPrefix
  <2>4. l \in s.seen[c]..s.heard[c] BY <1>3, <2>2
  <2> QED BY <2>3, <2>4
<1>6. Sound(r, c, e) BY <1>1, <1>4, <1>5 DEF Sound, Disconnected, Kept
<1> QED BY <1>6 DEF r

-----------------------------------------------------------------------------
(* Replies.                                                                 *)

\* A message is two units.
LEMMA UnitsType ==
  ASSUME NEW V, NEW m \in Messages(V) PROVE Units(m) \in Seq(UnitsOf(V)) /\ Len(Units(m)) = 2
<1> DEFINE h == [m |-> m, part |-> "header"]
           p == [m |-> m, part |-> "payload"]
<1>1. h \in UnitsOf(V) /\ p \in UnitsOf(V) BY DEF UnitsOf
<1>2. Units(m) = <<h, p>> BY DEF Units
<1> HIDE DEF h, p
<1> QED BY <1>1, <1>2

\* The client c at i was sent a message, or was disconnected.
Replied(V, R, s, i, c, r) ==
  /\ r \in Servers(V, R) /\ NoDup(r.list) /\ OnlyOf(c, s, r) /\ Kept(s, r)
  /\ Connected(r, c) <=> Grown(s.size[c], Len(s.buf[c]) + 2) <= s.limit
  /\ IF Connected(r, c)
     THEN /\ r.list = s.list /\ r.sub = s.sub /\ r.pending = s.pending /\ r.inbox = s.inbox
          /\ r.size[c] = Grown(s.size[c], Len(s.buf[c]) + 2)
          /\ Len(r.buf[c]) = Len(s.buf[c]) + 2
     ELSE r.list = RemoveAt(s.list, i) /\ r.sub[c] = {} /\ r.pending[c] = None

\* q is what a client has not read, who was sent all but d of its events.
Unfinished(q, seen, heard, d) ==
  Stream(q, seen, heard - d) /\ heard - d \in seen..heard /\ Len(q) % 2 = 0

\* What is unread and a message after it: a reply, or the event that is due (d is how many are).
LEMMA StreamAppend ==
  ASSUME NEW V, NEW x \in Seq(UnitsOf(V)), NEW y \in Seq(UnitsOf(V)), NEW m \in Messages(V),
         NEW seen \in Nat, NEW heard \in Nat, NEW d \in {0, 1}, NEW e,
         \/ m.n = 0 /\ e = d
         \/ d = 1 /\ m.n = heard /\ e = 0,
         Unfinished(x \o y, seen, heard, d)
  PROVE  Unfinished(x \o (y \o Units(m)), seen, heard, e)
<1> DEFINE q == x \o y
           u == Units(m)
<1>1. u \in Seq(UnitsOf(V)) BY UnitsType
<1> HIDE DEF u, q
<1>2. Regrouped(UnitsOf(V), x, y, u) BY <1>1, Regroup
<1>3. x \o (y \o u) = q \o u /\ q \in Seq(UnitsOf(V)) BY <1>2 DEF Regrouped, q
<1>4. Stream(q, seen, heard - d) /\ heard - d \in seen..heard /\ Len(q) % 2 = 0 BY DEF q, Unfinished
<1>5. heard - d \in Nat /\ seen <= heard - d BY <1>4
<1>6. Whole(q) BY <1>4 DEF Stream
<1>7. Len(q \o u) % 2 = 0 BY <1>3, <1>4, <1>6, WholeAppend DEF u
<1>8. CASE m.n = 0 /\ e = d
  <2>1. Stream(q \o u, seen, heard - d) BY <1>3, <1>4, <1>5, <1>8, StreamReply DEF u
  <2> QED BY <2>1, <1>3, <1>4, <1>7, <1>8 DEF u, Unfinished
<1>9. CASE d = 1 /\ m.n = heard /\ e = 0
  <2>1. /\ m.n = (heard - d) + 1 /\ (heard - d) + 1 = heard /\ heard - 0 = heard
        /\ heard \in seen..heard
    BY <1>5, <1>9
  <2>2. Stream(q \o u, seen, (heard - d) + 1) BY <1>3, <1>4, <1>5, <2>1, StreamEvent DEF u
  <2> QED BY <2>1, <2>2, <1>3, <1>7, <1>9 DEF u, Unfinished
<1> QED BY <1>8, <1>9

\* ipc_send_reply: c is sent a reply or the event that is due to it, or disconnected.
LEMMA Replies ==
  ASSUME NEW V, NEW R, NEW s \in Servers(V, R), NoDup(s.list), NEW i \in 1..Len(s.list),
         NEW c, c = s.list[i], NEW m \in Messages(V), NEW d \in {0, 1}, Sound(s, c, d), NEW e,
         \/ m.n = 0 /\ e = d
         \/ d = 1 /\ m.n = s.heard[c] /\ e = 0
  PROVE  Replied(V, R, s, i, c, SendReply(s, c, m)) /\ Sound(SendReply(s, c, m), c, e)
<1> DEFINE r == SendReply(s, c, m)
<1> HIDE DEF r
<1> DEFINE size == Grown(s.size[c], Len(s.buf[c]) + 2)
<1>1. c \in Clients /\ Connected(s, c) BY Placed
<1>2. Record(s) /\ Typed(V, R, s) BY ServerFields
<1>3. /\ s.net[c] \in Seq(UnitsOf(V)) /\ s.buf[c] \in Seq(UnitsOf(V)) /\ s.seen[c] \in Nat
      /\ s.heard[c] \in Nat /\ s.size[c] \in Nat /\ Len(s.buf[c]) \in Nat /\ s.limit \in Nat
  <2>1. s.buf[c] \in Seq(UnitsOf(V)) BY <1>1, <1>2 DEF Typed
  <2>2. Len(s.buf[c]) \in Nat BY <2>1, LenProperties
  <2> QED BY <1>1, <1>2, <2>1, <2>2 DEF Typed
<1>4. s.size[c] > 0 BY <1>1, <1>3 DEF Sound
<1>5. size \in Nat /\ size > Len(s.buf[c]) + 2
  <2>1. Len(s.buf[c]) + 2 \in Nat BY <1>3
  <2> QED BY <1>3, <1>4, <2>1, GrownEnough
<1>6. r = IF size > s.limit THEN ClientDisconnect(s, c)
          ELSE [s EXCEPT !.size[c] = size, !.buf[c] = @ \o Units(m), !.watch = @ \cup {c}]
  BY DEF SendReply, r
<1> HIDE DEF size
<1>7. CASE size > s.limit
  <2>1. r = ClientDisconnect(s, c) BY <1>6, <1>7
  <2>2. Disconnected(V, R, s, i, c, r) BY <2>1, Disconnects
  <2>3. Sound(r, c, e) BY <2>1, DisconnectSound
  <2>4. ~ (size <= s.limit) BY <1>7, <1>3, <1>5
  <2>5. Replied(V, R, s, i, c, r) BY <2>2, <2>4 DEF Disconnected, Replied, size
  <2> QED BY <2>3, <2>5 DEF r
<1>8. CASE ~ (size > s.limit)
  <2> DEFINE b == s.buf[c] \o Units(m)
  <2>1. r = [s EXCEPT !.size[c] = size, !.buf[c] = b, !.watch = @ \cup {c}]
    BY <1>6, <1>8, <1>1
  <2>2. b \in Seq(UnitsOf(V)) /\ Len(b) = Len(s.buf[c]) + 2
    <3>1. Units(m) \in Seq(UnitsOf(V)) /\ Len(Units(m)) = 2 BY UnitsType
    <3>2. s.buf[c] \in Seq(UnitsOf(V)) BY <1>3
    <3> DEFINE u == Units(m)
               q == s.buf[c]
    <3> HIDE DEF u, q
    <3>3. u \in Seq(UnitsOf(V)) /\ Len(u) = 2 /\ q \in Seq(UnitsOf(V)) BY <3>1, <3>2 DEF u, q
    <3>4. q \o u \in Seq(UnitsOf(V)) /\ Len(q \o u) = Len(q) + Len(u) BY <3>3, ConcatProperties
    <3> QED BY <3>3, <3>4 DEF u, q
  <2> HIDE DEF b
  <2>3. /\ r.limit = s.limit /\ r.list = s.list /\ r.sub = s.sub
        /\ r.buf = [s.buf EXCEPT ![c] = b] /\ r.size = [s.size EXCEPT ![c] = size]
        /\ r.watch = s.watch \cup {c} /\ r.pending = s.pending /\ r.inbox = s.inbox
        /\ r.net = s.net /\ r.open = s.open /\ r.heard = s.heard /\ r.seen = s.seen
    BY <2>1, <1>2 DEF Record
  <2>4. Record(r) BY <2>1, <1>2 DEF Record
  <2>5. Typed(V, R, r)
    <3>1. r.buf \in [Clients -> Seq(UnitsOf(V))] BY <1>1, <1>2, <2>2, <2>3, Update, SMTT(60) DEF Typed
    <3>2. r.size \in [Clients -> Nat]
      <4>1. s.size \in [Clients -> Nat] BY <1>2 DEF Typed
      <4> QED BY <4>1, <1>5, <2>3
    <3>3. r.watch \in SUBSET Clients BY <1>1, <1>2, <2>3 DEF Typed
    <3> QED BY <3>1, <3>2, <3>3, <1>2, <2>3 DEF Typed
  <2>6. r \in Servers(V, R) BY <2>4, <2>5, ServerFields
  <2>7. \A x : Connected(r, x) <=> Connected(s, x) BY <2>3 DEF Connected
  <2>8. r.buf[c] = b /\ r.size[c] = size BY <1>1, <1>2, <2>3 DEF Typed
  <2>9. OnlyOf(c, s, r) BY <1>2, <2>3, <2>7 DEF OnlyOf, SameClient, Typed
  <2>10. ASSUME c \in s.open
         PROVE  /\ Stream(Unread(r, c), r.seen[c], r.heard[c] - e)
                /\ r.heard[c] - e \in r.seen[c]..r.heard[c]
                /\ Len(Unread(r, c)) % 2 = 0
    <3> DEFINE x == s.net[c]
               y == s.buf[c]
    <3>1. Unfinished(x \o y, s.seen[c], s.heard[c], d) BY <2>10, <1>1, Zenon DEF Sound, Unread, Unfinished
    <3>2. x \in Seq(UnitsOf(V)) /\ y \in Seq(UnitsOf(V)) BY <1>3
    <3>3. Unread(r, c) = x \o (y \o Units(m)) BY <2>3, <2>8, Zenon DEF Unread, b
    <3>4. r.seen[c] = s.seen[c] /\ r.heard[c] = s.heard[c] BY <2>3
    <3> HIDE DEF x, y
    <3>5. Unfinished(x \o (y \o Units(m)), s.seen[c], s.heard[c], e) BY <3>1, <3>2, <1>3, StreamAppend
    <3> QED BY <3>3, <3>4, <3>5 DEF Unfinished
  <2>11. b # <<>>
    <3>1. Len(b) # 0 BY <2>2, <1>3, SMTT(60)
    <3> QED BY <3>1, <2>2, EmptySeq
  <2>12. Len(b) < size /\ size <= s.limit BY <2>2, <1>5, <1>8, <1>3
  <2>13. Sound(r, c, e)
    <3>1. r.buf[c] # <<>> <=> c \in r.watch BY <2>3, <2>8, <2>11
    <3>2. Connected(r, c) /\ Len(r.buf[c]) < r.size[c] /\ r.size[c] <= r.limit
      BY <1>1, <2>3, <2>7, <2>8, <2>12
    <3> QED BY <3>1, <3>2, <2>3, <2>10 DEF Sound
  <2>14. Replied(V, R, s, i, c, r)
    BY <1>1, <2>2, <2>3, <2>6, <2>7, <2>8, <2>9, <2>12 DEF Replied, Kept, size
  <2> QED BY <2>13, <2>14 DEF r
<1> QED BY <1>7, <1>8

-----------------------------------------------------------------------------
(* The loop that sends an event.                                            *)

\* All clients are told of everything.
AllSound(V, R, s) ==
  s \in Servers(V, R) /\ NoDup(s.list) /\ \A c \in Clients : Sound(s, c, 0)

\* What an event leaves alone: the sockets, who is connected and what they ask for,
\* except for those that it disconnects, and all of those that do not listen
Told(type, s, r) ==
  /\ r.limit = s.limit /\ r.open = s.open /\ r.net = s.net /\ r.seen = s.seen
  /\ \A c \in Clients : Connected(r, c) =>
       Connected(s, c) /\ r.sub[c] = s.sub[c] /\ r.pending[c] = s.pending[c] /\ r.inbox[c] = s.inbox[c]
  /\ \A c \in Clients : type \notin s.sub[c] => SameClient(s, r, c)

\* c is still to be told of the event that the loop sends.
Due(type, t, c) ==
  IF type \in t.s.sub[c] /\ \E j \in t.i..Len(t.s.list) : t.s.list[j] = c THEN 1 ELSE 0

\* What holds in the loop: everybody was told, but for those that are still due
Loop(V, R, type, h, t) ==
  /\ t.s \in Servers(V, R) /\ NoDup(t.s.list) /\ t.i \in 1..(Len(t.s.list) + 1)
  /\ \A c \in Clients : Sound(t.s, c, Due(type, t, c))
  /\ Told(type, h, t.s)

\* State that stays the same twice stays the same.
LEMMA SameSame ==
  ASSUME NEW s, NEW r, NEW q, NEW x, SameClient(s, r, x), SameClient(r, q, x)
  PROVE  SameClient(s, q, x)
BY DEF SameClient

\* The loop came one client nearer to its end.
Advanced(V, R, type, h, t, u) ==
  /\ u = [s |-> u.s, i |-> u.i] /\ Loop(V, R, type, h, u)
  /\ Len(u.s.list) - u.i = Len(t.s.list) - t.i - 1

\* One turn leads the loop on, over c or without it.
LEMMA Turned ==
  ASSUME NEW V, NEW R, NEW type \in Kinds, NEW val \in V, NEW h, NEW t,
         t = [s |-> t.s, i |-> t.i], Loop(V, R, type, h, t), t.i \in 1..Len(t.s.list)
  PROVE  Advanced(V, R, type, h, t, SendTo(t, type, val))
<1> DEFINE s == t.s
           i == t.i
           n == Len(s.list)
           c == s.list[i]
           u == SendTo(t, type, val)
<1> SUFFICES /\ u = [s |-> u.s, i |-> u.i] /\ Loop(V, R, type, h, u)
             /\ Len(u.s.list) - u.i = n - i - 1
  BY DEF Advanced
<1>1. /\ s \in Servers(V, R) /\ NoDup(s.list) /\ i \in 1..n
      /\ \A x \in Clients : Sound(s, x, Due(type, t, x))
      /\ Told(type, h, s)
  BY DEF Loop
<1>2. Connected(s, c) /\ c \in Clients BY <1>1, Placed
<1>3. /\ n \in Nat /\ i \in Nat /\ 1 <= i /\ i <= n /\ DOMAIN s.list = 1..n
      /\ \A j \in 1..n : s.list[j] = c <=> j = i
  <2>1. s.list \in Seq(Clients) BY <1>1, ServerFields DEF Typed
  <2>2. DOMAIN s.list = 1..n /\ n \in Nat BY <2>1
  <2> QED BY <1>1, <2>2 DEF NoDup
<1>4. CASE type \in s.sub[c]
  <2> DEFINE m == Message(type, val, s.heard[c])
             r == SendReply(s, c, m)
  <2>1. u = [s |-> r, i |-> IF Connected(r, c) THEN i + 1 ELSE i] BY <1>4 DEF SendTo
  <2>2. Due(type, t, c) = 1 BY <1>3, <1>4 DEF Due
  <2>3. m \in Messages(V) /\ m.n = s.heard[c]
    <3>1. s.heard[c] \in Nat BY <1>1, <1>2, ServerFields DEF Typed
    <3> QED BY <3>1 DEF Message, Messages
  <2> HIDE DEF m
  <2>4. Replied(V, R, s, i, c, r) /\ Sound(r, c, 0)
    <3>1. Sound(s, c, 1) /\ 1 \in {0, 1} BY <1>1, <1>2, <2>2
    <3> QED BY <3>1, <1>1, <2>3, Replies
  <2> HIDE DEF r, u
  <2>5. Told(type, h, r)
    <3>1. r.limit = h.limit /\ r.open = h.open /\ r.net = h.net /\ r.seen = h.seen
      BY <1>1, <2>4 DEF Told, Replied, Kept, OnlyOf
    <3>2. ASSUME NEW x \in Clients, Connected(r, x)
          PROVE  /\ Connected(h, x) /\ r.sub[x] = h.sub[x]
                 /\ r.pending[x] = h.pending[x] /\ r.inbox[x] = h.inbox[x]
      <4>1. Connected(s, x) /\ r.sub[x] = s.sub[x]
            /\ r.pending[x] = s.pending[x] /\ r.inbox[x] = s.inbox[x]
        <5>1. CASE x = c BY <3>2, <5>1, <1>2, <2>4 DEF Replied
        <5>2. CASE x # c BY <3>2, <5>2, <2>4 DEF Replied, OnlyOf, SameClient
        <5> QED BY <5>1, <5>2
      <4> QED BY <4>1, <1>1 DEF Told
    <3>3. ASSUME NEW x \in Clients, type \notin h.sub[x] PROVE SameClient(h, r, x)
      <4>1. SameClient(h, s, x) BY <3>3, <1>1 DEF Told
      <4>2. x # c BY <4>1, <3>3, <1>4 DEF SameClient
      <4>3. SameClient(s, r, x) BY <4>2, <2>4 DEF Replied, OnlyOf
      <4> QED BY <4>1, <4>3, SameSame
    <3> QED BY <3>1, <3>2, <3>3 DEF Told
  <2>6. CASE Connected(r, c)
    <3>1. u.s = r /\ u.i = i + 1 /\ u = [s |-> u.s, i |-> u.i] BY <2>1, <2>6
    <3>2. r \in Servers(V, R) /\ NoDup(r.list) /\ r.list = s.list /\ r.sub = s.sub
      BY <2>4, <2>6 DEF Replied
    <3>3. ASSUME NEW x \in Clients PROVE Sound(r, x, Due(type, u, x))
      <4>1. CASE x = c
        <5>1. Due(type, u, c) = 0 BY <1>3, <3>1, <3>2 DEF Due
        <5> QED BY <4>1, <5>1, <2>4
      <4>2. CASE x # c
        <5>1. (\E j \in (i + 1)..n : s.list[j] = x) <=> (\E j \in i..n : s.list[j] = x)
          BY <1>3, <4>2
        <5>2. Due(type, u, x) = Due(type, t, x) BY <5>1, <3>1, <3>2 DEF Due
        <5>3. SameClient(s, r, x) /\ s.limit = r.limit BY <4>2, <2>4 DEF Replied, OnlyOf
        <5>4. Sound(s, x, Due(type, u, x)) BY <5>2, <1>1
        <5> QED BY <5>3, <5>4, SameSound
      <4> QED BY <4>1, <4>2
    <3>4. u.i \in 1..(Len(u.s.list) + 1) /\ Len(u.s.list) - u.i = n - i - 1
      BY <1>3, <3>1, <3>2
    <3>5. Loop(V, R, type, h, u) BY <3>1, <3>2, <3>3, <3>4, <2>5 DEF Loop
    <3> QED BY <3>1, <3>4, <3>5
  <2>7. CASE ~Connected(r, c)
    <3>1. u.s = r /\ u.i = i /\ u = [s |-> u.s, i |-> u.i] BY <2>1, <2>7
    <3>2. r \in Servers(V, R) /\ NoDup(r.list) /\ r.list = RemoveAt(s.list, i) /\ r.sub[c] = {}
      BY <2>4, <2>7 DEF Replied
    <3>3. /\ Len(r.list) = n - 1
          /\ \A j \in 1..(n - 1) : r.list[j] = IF j < i THEN s.list[j] ELSE s.list[j + 1]
      <4>1. s.list \in Seq(Clients) BY <1>1, ServerFields DEF Typed
      <4> QED BY <4>1, <1>1, <3>2, Removed
    <3>4. ASSUME NEW x \in Clients PROVE Sound(r, x, Due(type, u, x))
      <4>1. CASE x = c
        <5>1. Due(type, u, c) = 0 BY <3>1, <3>2 DEF Due
        <5> QED BY <4>1, <5>1, <2>4
      <4>2. CASE x # c
        <5>1. (\E j \in i..(n - 1) : r.list[j] = x) <=> (\E j \in i..n : s.list[j] = x)
          <6>1. ASSUME NEW j \in i..(n - 1), r.list[j] = x PROVE \E k \in i..n : s.list[k] = x
            <7>1. j \in 1..(n - 1) /\ ~ (j < i) /\ j + 1 \in i..n BY <1>3
            <7> QED BY <7>1, <6>1, <3>3
          <6>2. ASSUME NEW k \in i..n, s.list[k] = x PROVE \E j \in i..(n - 1) : r.list[j] = x
            <7>1. k # i BY <6>2, <4>2
            <7>2. k - 1 \in i..(n - 1) /\ k - 1 \in 1..(n - 1) /\ ~ (k - 1 < i) /\ (k - 1) + 1 = k
              BY <7>1, <1>3
            <7>3. r.list[k - 1] = s.list[(k - 1) + 1] BY <7>2, <3>3
            <7> QED BY <7>2, <7>3, <6>2
          <6> QED BY <6>1, <6>2
        <5>2. SameClient(s, r, x) /\ s.limit = r.limit BY <4>2, <2>4 DEF Replied, OnlyOf
        <5>3. Due(type, u, x) = Due(type, t, x) BY <5>1, <5>2, <3>1, <3>3 DEF Due, SameClient
        <5>4. Sound(s, x, Due(type, u, x)) BY <5>3, <1>1
        <5> QED BY <5>2, <5>4, SameSound
      <4> QED BY <4>1, <4>2
    <3>5. u.i \in 1..(Len(u.s.list) + 1) /\ Len(u.s.list) - u.i = n - i - 1
      BY <1>3, <3>1, <3>3
    <3>6. Loop(V, R, type, h, u) BY <3>1, <3>2, <3>4, <3>5, <2>5 DEF Loop
    <3> QED BY <3>1, <3>5, <3>6
  <2> QED BY <2>6, <2>7
<1>5. CASE type \notin s.sub[c]
  <2>1. u = [t EXCEPT !.i = @ + 1] BY <1>5 DEF SendTo
  <2>2. u.s = s /\ u.i = i + 1 /\ u = [s |-> u.s, i |-> u.i] BY <2>1
  <2> HIDE DEF u
  <2>3. ASSUME NEW x \in Clients PROVE Due(type, u, x) = Due(type, t, x)
    <3>1. CASE x = c BY <3>1, <2>2, <1>5 DEF Due
    <3>2. CASE x # c
      <4>1. (\E j \in (i + 1)..n : s.list[j] = x) <=> (\E j \in i..n : s.list[j] = x)
        BY <1>3, <3>2
      <4> QED BY <4>1, <2>2 DEF Due
    <3> QED BY <3>1, <3>2
  <2>4. u.i \in 1..(Len(u.s.list) + 1) /\ Len(u.s.list) - u.i = n - i - 1 BY <1>3, <2>2
  <2>5. Loop(V, R, type, h, u) BY <1>1, <2>2, <2>3, <2>4 DEF Loop
  <2> QED BY <2>2, <2>4, <2>5
<1> QED BY <1>4, <1>5

\* The loop from h on
LoopStart(h) == [s |-> h, i |-> 1]
LoopTurn(type, val, t) == IF t.i > Len(t.s.list) THEN t ELSE SendTo(t, type, val)

\* The states of the loop
LoopStates(V, R, type, h) == {t \in [s : Servers(V, R), i : Nat] : Loop(V, R, type, h, t)}

\* The loop of ipc_send_event goes from one of its states to the next, nearer to its end.
LEMMA LoopSteps ==
  ASSUME NEW V, NEW R, NEW type \in Kinds, NEW val \in V, NEW h,
         NEW t \in LoopStates(V, R, type, h)
  PROVE  LET u == LoopTurn(type, val, t)
         IN  /\ u \in LoopStates(V, R, type, h)
             /\ t.i <= Len(t.s.list) => Len(u.s.list) - u.i = Len(t.s.list) - t.i - 1
             /\ ~ (t.i <= Len(t.s.list)) => u = t
<1> DEFINE u == LoopTurn(type, val, t)
           n == Len(t.s.list)
<1>1. t = [s |-> t.s, i |-> t.i] /\ t.i \in Nat /\ t.s \in Servers(V, R)
  BY DEF LoopStates
<1>2. Loop(V, R, type, h, t) BY DEF LoopStates
<1>3. n \in Nat /\ t.i \in 1..(n + 1)
  <2>1. t.s.list \in Seq(Clients) BY <1>1, ServerFields DEF Typed
  <2> QED BY <2>1, <1>2 DEF Loop
<1>4. CASE t.i <= n
  <2>1. u = SendTo(t, type, val) BY <1>3, <1>4 DEF LoopTurn
  <2>2. t.i \in 1..n BY <1>3, <1>4
  <2> HIDE DEF u
  <2>0. Advanced(V, R, type, h, t, u) BY <2>1, <2>2, <1>1, <1>2, Turned
  <2>3. u = [s |-> u.s, i |-> u.i] /\ Loop(V, R, type, h, u) /\ Len(u.s.list) - u.i = n - t.i - 1
    BY <2>0 DEF Advanced
  <2>4. u.s \in Servers(V, R) /\ u.i \in 1..(Len(u.s.list) + 1) BY <2>3 DEF Loop
  <2>5. Len(u.s.list) \in Nat
    <3>1. u.s.list \in Seq(Clients) BY <2>4, ServerFields DEF Typed
    <3> QED BY <3>1
  <2>6. u.i \in Nat BY <2>4, <2>5
  <2>7. u \in [s : Servers(V, R), i : Nat] BY <2>3, <2>4, <2>6
  <2>8. u \in LoopStates(V, R, type, h) BY <2>3, <2>7 DEF LoopStates
  <2> QED BY <2>3, <2>8, <1>4 DEF u
<1>5. CASE ~ (t.i <= n)
  <2>1. u = t BY <1>3, <1>5 DEF LoopTurn
  <2> QED BY <2>1, <1>5
<1> QED BY <1>4, <1>5

\* g is the run of the loop.
LoopRun(g, V, R, type, val, h) ==
  /\ g \in [Nat -> LoopStates(V, R, type, h)] /\ g[0] = LoopStart(h)
  /\ \A k \in Nat : g[k + 1] = LoopTurn(type, val, g[k])

\* The loop is well defined, and never leaves its states.
LEMMA LoopRuns ==
  ASSUME NEW V, NEW R, NEW type \in Kinds, NEW val \in V, NEW h,
         LoopStart(h) \in LoopStates(V, R, type, h)
  PROVE  LoopRun(Turns(h, type, val), V, R, type, val, h)
<1> DEFINE L == LoopStates(V, R, type, h)
           advance == [t \in L |-> LoopTurn(type, val, t)]
           Op(v) == CHOOSE r \in {LoopTurn(type, val, x) : x \in {v}} : TRUE
           Def(f) == f = [k \in Nat |-> IF k = 0 THEN LoopStart(h) ELSE Op(f[k - 1])]
           g == Turns(h, type, val)
<1>1. g = CHOOSE f : Def(f) BY DEF Turns, Then, LoopStart, LoopTurn
<1>2. ASSUME NEW v PROVE Op(v) = LoopTurn(type, val, v)
  <2>1. {LoopTurn(type, val, x) : x \in {v}} = {LoopTurn(type, val, v)} OBVIOUS
  <2> QED BY <2>1
<1>3. PICK f : Iterates(f, L, LoopStart(h), advance)
  <2>1. advance \in [L -> L]
    <3>1. \A t \in L : LoopTurn(type, val, t) \in L BY LoopSteps
    <3> HIDE DEF L
    <3> QED BY <3>1
  <2> HIDE DEF advance
  <2> QED BY <2>1, Iteration
<1> HIDE DEF L
<1>4. \A k \in Nat : f[k] \in L /\ f[k + 1] = LoopTurn(type, val, f[k]) BY <1>3 DEF Iterates
<1> HIDE DEF advance, Op
<1>5. Def(f)
  <2>1. ASSUME NEW k \in Nat, k # 0 PROVE f[k] = Op(f[k - 1])
    <3>1. k - 1 \in Nat /\ (k - 1) + 1 = k BY <2>1
    <3>2. f[(k - 1) + 1] = LoopTurn(type, val, f[k - 1]) BY <3>1, <1>4
    <3> QED BY <3>1, <3>2, <1>2
  <2>2. f = [k \in Nat |-> f[k]] BY <1>3 DEF Iterates
  <2>3. \A k \in Nat : f[k] = IF k = 0 THEN LoopStart(h) ELSE Op(f[k - 1])
    BY <1>3, <2>1 DEF Iterates
  <2> QED BY <2>2, <2>3
<1>6. Def(g)
  <2> HIDE DEF Def
  <2> QED BY <1>1, <1>5
<1> HIDE DEF g
<1>7. g = [k \in Nat |-> IF k = 0 THEN LoopStart(h) ELSE Op(g[k - 1])] BY <1>6
<1>8. g[0] = LoopStart(h) BY <1>7
<1>9. ASSUME NEW k \in Nat PROVE g[k + 1] = LoopTurn(type, val, g[k])
  <2>1. k + 1 \in Nat /\ k + 1 # 0 /\ (k + 1) - 1 = k OBVIOUS
  <2>2. g[k + 1] = IF k + 1 = 0 THEN LoopStart(h) ELSE Op(g[(k + 1) - 1]) BY <1>7, <2>1
  <2> QED BY <2>1, <2>2, <1>2
<1>10. g \in [Nat -> L]
  <2> DEFINE Ok == {k \in Nat : g[k] \in L}
  <2>1. 0 \in Ok BY <1>8 DEF L
  <2>2. ASSUME NEW k \in Nat, k \in Ok PROVE k + 1 \in Ok
    <3>1. g[k] \in L /\ g[k + 1] = LoopTurn(type, val, g[k]) BY <1>9, <2>2
    <3>2. LoopTurn(type, val, g[k]) \in L BY <3>1, LoopSteps DEF L
    <3>3. g[k + 1] \in L BY <3>1, <3>2, Zenon
    <3>4. k + 1 \in Nat OBVIOUS
    <3> QED BY <3>3, <3>4, Zenon
  <2>3. Nat \subseteq Ok
    <3> HIDE DEF Ok
    <3> QED BY <2>1, <2>2, NatSet
  <2>4. \A k \in Nat : g[k] \in L BY <2>3
  <2>5. g = [k \in Nat |-> g[k]] BY <1>7
  <2> QED BY <2>4, <2>5
<1>11. LoopRun(g, V, R, type, val, h) BY <1>8, <1>9, <1>10 DEF L, LoopRun
<1> QED BY <1>11 DEF g

\* Whoever listens was told, and the rest did not change.
Event(V, R, type, s, r) == AllSound(V, R, r) /\ Told(type, s, r)

\* ipc_send_event: whoever listens has the event in its stream or is disconnected.
LEMMA SendsEvent ==
  ASSUME NEW V, NEW R, NEW s, AllSound(V, R, s), NEW type \in Kinds, NEW val \in V
  PROVE  Event(V, R, type, s, SendEvent(s, type, val))
<1> DEFINE h == [s EXCEPT !.heard = [c \in Clients |-> IF type \in s.sub[c] THEN @[c] + 1 ELSE @[c]]]
           n == Len(s.list)
           g == Turns(h, type, val)
           L == LoopStates(V, R, type, h)
<1>1. s \in Servers(V, R) /\ NoDup(s.list) /\ \A c \in Clients : Sound(s, c, 0) BY DEF AllSound
<1>2. Record(s) /\ Typed(V, R, s) BY <1>1, ServerFields
<1>3. /\ h.limit = s.limit /\ h.list = s.list /\ h.sub = s.sub /\ h.buf = s.buf /\ h.size = s.size
      /\ h.watch = s.watch /\ h.pending = s.pending /\ h.inbox = s.inbox /\ h.net = s.net
      /\ h.open = s.open /\ h.seen = s.seen
      /\ h.heard = [c \in Clients |-> IF type \in s.sub[c] THEN s.heard[c] + 1 ELSE s.heard[c]]
  BY <1>2 DEF Record
<1>4. Record(h) BY <1>2 DEF Record
<1>5. SendEvent(s, type, val) = g[n].s BY DEF SendEvent
<1> HIDE DEF h
<1>6. h.heard \in [Clients -> Nat]
  <2>1. \A c \in Clients : s.heard[c] \in Nat BY <1>2 DEF Typed
  <2> QED BY <2>1, <1>3
<1>7. h \in Servers(V, R)
  <2>1. Typed(V, R, h) BY <1>2, <1>3, <1>6 DEF Typed
  <2> QED BY <2>1, <1>4, ServerFields
<1>8. n \in Nat /\ s.list \in Seq(Clients)
  <2>1. s.list \in Seq(Clients) BY <1>2 DEF Typed
  <2> QED BY <2>1
<1>9. \A c : Connected(h, c) <=> Connected(s, c) BY <1>3 DEF Connected
<1>10. Told(type, s, h)
  <2>1. ASSUME NEW c \in Clients, type \notin s.sub[c] PROVE SameClient(s, h, c)
    BY <2>1, <1>3, <1>9 DEF SameClient
  <2> QED BY <2>1, <1>3, <1>9 DEF Told
<1>11. LoopStart(h) \in L
  <2> DEFINE t == LoopStart(h)
  <2>1. t.s = h /\ t.i = 1 /\ t \in [s : Servers(V, R), i : Nat] BY <1>7 DEF LoopStart
  <2> HIDE DEF t
  <2>2. ASSUME NEW c \in Clients PROVE Sound(h, c, Due(type, t, c))
    <3>1. Sound(s, c, 0) BY <1>1
    <3>2. s.heard[c] \in Nat /\ s.seen[c] \in Nat BY <1>2 DEF Typed
    <3>3. CASE type \in s.sub[c]
      <4>1. Connected(s, c) BY <3>1, <3>3 DEF Sound
      <4>2. \E j \in 1..n : s.list[j] = c BY <4>1 DEF Connected, Contains
      <4>3. Due(type, t, c) = 1 BY <4>2, <3>3, <2>1, <1>3 DEF Due
      <4>4. h.heard[c] = s.heard[c] + 1 BY <1>3, <3>3
      <4>5. Unread(h, c) = Unread(s, c) BY <1>3 DEF Unread
      <4>6. ASSUME c \in s.open
            PROVE  \E last \in h.seen[c]..h.heard[c] :
                     Stream(Unread(h, c), h.seen[c], last) /\ last = h.heard[c] - 1
                     /\ Len(Unread(h, c)) % 2 = 0
        <5>1. PICK last \in s.seen[c]..s.heard[c] :
                Stream(Unread(s, c), s.seen[c], last) /\ last = s.heard[c] - 0
                /\ Len(Unread(s, c)) % 2 = 0
          BY <3>1, <4>1, <4>6 DEF Sound
        <5>2. last \in h.seen[c]..h.heard[c] /\ last = h.heard[c] - 1 BY <5>1, <4>4, <3>2, <1>3
        <5> QED BY <5>1, <5>2, <4>5, <1>3
      <4> QED BY <3>1, <4>1, <4>3, <4>6, <1>3, <1>9 DEF Sound
    <3>4. CASE type \notin s.sub[c]
      <4>1. Due(type, t, c) = 0 BY <3>4, <2>1, <1>3 DEF Due
      <4>2. SameClient(s, h, c) BY <3>4, <1>10 DEF Told
      <4> QED BY <3>1, <4>1, <4>2, <1>3, SameSound
    <3> QED BY <3>3, <3>4
  <2>3. Told(type, h, h)
    <3>1. ASSUME NEW c \in Clients PROVE SameClient(h, h, c) BY DEF SameClient
    <3> QED BY <3>1 DEF Told
  <2>4. 1 \in 1..(Len(h.list) + 1) BY <1>3, <1>8
  <2>5. Loop(V, R, type, h, t) BY <2>1, <2>2, <2>3, <2>4, <1>1, <1>3, <1>7 DEF Loop
  <2> QED BY <2>1, <2>5 DEF LoopStates, t
<1>12. /\ g \in [Nat -> L] /\ g[0] = LoopStart(h)
       /\ \A k \in Nat : g[k + 1] = LoopTurn(type, val, g[k])
  <2>1. LoopRun(g, V, R, type, val, h)
    <3>1. LoopStart(h) \in LoopStates(V, R, type, h) BY <1>11
    <3> HIDE DEF g, L
    <3>2. LoopRun(Turns(h, type, val), V, R, type, val, h) BY <3>1, LoopRuns
    <3> QED BY <3>2 DEF g
  <2> HIDE DEF g
  <2> QED BY <2>1 DEF LoopRun
<1> HIDE DEF g, L
<1> DEFINE Left(k) == Len(g[k].s.list) + 1 - g[k].i
<1>13. ASSUME NEW k \in Nat
       PROVE  /\ Loop(V, R, type, h, g[k]) /\ Left(k) \in Nat
              /\ Left(k) = 0 => g[k].i = Len(g[k].s.list) + 1
              /\ Left(k + 1) = IF Left(k) = 0 THEN 0 ELSE Left(k) - 1
  <2>1. g[k] \in L /\ g[k + 1] = LoopTurn(type, val, g[k]) BY <1>12
  <2>2. Loop(V, R, type, h, g[k]) BY <2>1 DEF L, LoopStates
  <2>3. Len(g[k].s.list) \in Nat /\ g[k].i \in 1..(Len(g[k].s.list) + 1)
    <3>1. g[k].s.list \in Seq(Clients) BY <2>2, ServerFields DEF Loop, Typed
    <3> QED BY <3>1, <2>2 DEF Loop
  <2>4. /\ g[k].i <= Len(g[k].s.list) =>
             Len(g[k + 1].s.list) - g[k + 1].i = Len(g[k].s.list) - g[k].i - 1
        /\ ~ (g[k].i <= Len(g[k].s.list)) => g[k + 1] = g[k]
    BY <2>1, LoopSteps DEF L
  <2>5. g[k + 1] \in L BY <1>12
  <2>6. Len(g[k + 1].s.list) \in Nat /\ g[k + 1].i \in Nat
    <3>1. Loop(V, R, type, h, g[k + 1]) BY <2>5 DEF L, LoopStates
    <3>2. g[k + 1].s.list \in Seq(Clients) BY <3>1, ServerFields DEF Loop, Typed
    <3> QED BY <3>1, <3>2 DEF Loop
  <2> DEFINE a == Len(g[k].s.list)
             b == g[k].i
             x == Len(g[k + 1].s.list)
             y == g[k + 1].i
  <2>7. ~ (b <= a) => x = a /\ y = b BY <2>4
  <2>8. Left(k) = a + 1 - b /\ Left(k + 1) = x + 1 - y OBVIOUS
  <2> HIDE DEF a, b, x, y, Left
  <2>9. a \in Nat /\ b \in 1..(a + 1) /\ x \in Nat /\ y \in Nat BY <2>3, <2>6 DEF a, b, x, y
  <2>10. b <= a => x - y = a - b - 1 BY <2>4 DEF a, b, x, y
  <2>11. Left(k) \in Nat /\ (Left(k) = 0 => b = a + 1) BY <2>8, <2>9
  <2>12. Left(k + 1) = IF Left(k) = 0 THEN 0 ELSE Left(k) - 1
    <3>1. CASE b <= a BY <3>1, <2>8, <2>9, <2>10
    <3>2. CASE ~ (b <= a) BY <3>2, <2>7, <2>8, <2>9
    <3> QED BY <3>1, <3>2
  <2> QED BY <2>2, <2>11, <2>12 DEF a, b
<1>14. Left(0) = n
  <2>1. g[0].s = h /\ g[0].i = 1 BY <1>12 DEF LoopStart
  <2> QED BY <2>1, <1>3, <1>8
<1>15. Left(n) = 0
  <2> DEFINE Ok == {k \in Nat : Left(k) = IF k <= n THEN n - k ELSE 0}
  <2>1. 0 \in Ok BY <1>14, <1>8
  <2> HIDE DEF Left
  <2>2. ASSUME NEW k \in Nat, k \in Ok PROVE k + 1 \in Ok
    <3>1. Left(k) = IF k <= n THEN n - k ELSE 0 BY <2>2
    <3>2. Left(k + 1) = IF Left(k) = 0 THEN 0 ELSE Left(k) - 1 BY <1>13
    <3>3. n \in Nat BY <1>8
    <3> HIDE DEF n
    <3>4. Left(k + 1) = IF k + 1 <= n THEN n - (k + 1) ELSE 0 BY <3>1, <3>2, <3>3
    <3> QED BY <3>4
  <2>3. Nat \subseteq Ok
    <3> HIDE DEF Ok
    <3> QED BY <2>1, <2>2, NatSet
  <2> QED BY <2>3, <1>8
<1> DEFINE t == g[n]
<1> HIDE DEF t
<1>16. Loop(V, R, type, h, t) /\ t.i = Len(t.s.list) + 1 BY <1>8, <1>13, <1>15 DEF t
<1>17. Len(t.s.list) \in Nat
  <2>1. t.s.list \in Seq(Clients) BY <1>16, ServerFields DEF Loop, Typed
  <2> QED BY <2>1
<1>18. \A c \in Clients : Due(type, t, c) = 0 BY <1>16, <1>17 DEF Due
<1>19. AllSound(V, R, t.s) BY <1>16, <1>18 DEF Loop, AllSound
<1>20. Told(type, s, t.s)
  <2>1. Told(type, h, t.s) BY <1>16 DEF Loop
  <2>2. ASSUME NEW c \in Clients, type \notin s.sub[c] PROVE SameClient(s, t.s, c)
    <3>1. SameClient(s, h, c) /\ SameClient(h, t.s, c) BY <2>2, <2>1, <1>3, <1>10 DEF Told
    <3> QED BY <3>1, SameSame
  <2> QED BY <2>1, <2>2, <1>3, <1>9 DEF Told
<1> QED BY <1>5, <1>19, <1>20 DEF Event, t

=============================================================================
