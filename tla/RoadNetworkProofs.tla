--------------------------- MODULE RoadNetworkProofs ---------------------------
(***************************************************************************)
(* Lemmas about RoadNetwork and EdgeCosts: what the folds and recursive    *)
(* functions of these modules return, for any network.  Induction and      *)
(* recursion are about sets and functions, so that the provers can apply   *)
(* them.                                                                   *)
(***************************************************************************)
EXTENDS EdgeCosts, FiniteSetTheorems, TLAPS

-------------------------------------------------------------------------------
(* Induction and recursion on the natural numbers                          *)

LEMMA LeastNumber ==
    ASSUME NEW T \in SUBSET Nat, T # {}
    PROVE  \E m \in T : \A y \in T : m <= y
<1> DEFINE R == OpToRel(<, Nat)
<1>1. IsWellFoundedOn(R, Nat)
  BY NatLessThanWellFounded
<1>2. PICK m \in T : \A y \in T : ~ (<<y, m>> \in R)
  BY <1>1, WFMin
<1>3. ASSUME NEW x \in Nat, NEW y \in Nat, x < y PROVE <<x, y>> \in R
  BY <1>3, Zenon DEF OpToRel
<1>4. \A y \in T : ~ (y < m)
  <2> HIDE DEF R
  <2> QED  BY <1>2, <1>3, Zenon
<1> HIDE DEF R
<1>5. m \in Nat /\ \A y \in T : y \in Nat
  BY <1>2
<1> QED  BY <1>2, <1>4, <1>5

LEMMA SetInduction ==
    ASSUME NEW S, 0 \in S, \A n \in Nat : n \in S => n + 1 \in S
    PROVE  Nat \subseteq S
<1> DEFINE T == Nat \ S
<1> SUFFICES ASSUME T # {} PROVE FALSE
  OBVIOUS
<1>1. PICK m \in T : \A y \in T : m <= y
  BY LeastNumber
<1>2. m \in Nat \ {0}
  BY <1>1
<1>3. m - 1 \in Nat /\ ~ (m <= m - 1) /\ (m - 1) + 1 = m
  BY <1>2
<1>4. m - 1 \in S
  BY <1>1, <1>3
<1> QED  BY <1>1, <1>3, <1>4

(* A function that begins as told and goes on as told, up to n.            *)
Follows(g, n, V, first, step) ==
    /\ g \in [0 .. n -> V]
    /\ g[0] = first
    /\ \A i \in 0 .. (n - 1) : g[i + 1] = step[<<i, g[i]>>]

Recursion(V, first, step) ==
    \E f \in [Nat -> V] : f[0] = first /\ \A n \in Nat : f[n + 1] = step[<<n, f[n]>>]

LEMMA PrimitiveRecursion ==
    ASSUME NEW V, NEW first \in V, NEW step \in [Nat \X V -> V]
    PROVE  Recursion(V, first, step)
<1> DEFINE S == {n \in Nat : \E g : Follows(g, n, V, first, step)}
<1>1. 0 \in S
  <2> DEFINE g == [i \in 0 .. 0 |-> first]
  <2>1. Follows(g, 0, V, first, step)
    BY DEF Follows
  <2> QED  BY <2>1
<1>2. ASSUME NEW n \in Nat, n \in S PROVE n + 1 \in S
  <2>1. PICK g : Follows(g, n, V, first, step)
    BY <1>2
  <2> DEFINE h == [i \in 0 .. (n + 1) |-> IF i <= n THEN g[i] ELSE step[<<n, g[n]>>]]
  <2>2. g \in [0 .. n -> V] /\ g[n] \in V
    BY <2>1 DEF Follows
  <2>3. step[<<n, g[n]>>] \in V
    BY <2>2
  <2>4. h \in [0 .. (n + 1) -> V]
    BY <2>2, <2>3
  <2>5. h[0] = first
    BY <2>1 DEF Follows
  <2>6. ASSUME NEW i \in 0 .. ((n + 1) - 1) PROVE h[i + 1] = step[<<i, h[i]>>]
    <3>1. i \in 0 .. n /\ i + 1 \in 0 .. (n + 1) /\ h[i] = g[i]
      OBVIOUS
    <3>2. CASE i = n
      <4>1. n + 1 \in 0 .. (n + 1) /\ ~ (n + 1 <= n)
        OBVIOUS
      <4>2. h[n + 1] = step[<<n, g[n]>>]
        BY <4>1
      <4> QED  BY <3>1, <3>2, <4>2
    <3>3. CASE i # n
      <4>1. i \in 0 .. (n - 1) /\ h[i + 1] = g[i + 1]
        BY <3>1, <3>3
      <4> QED  BY <2>1, <3>1, <4>1 DEF Follows
    <3> QED  BY <3>2, <3>3
  <2>7. Follows(h, n + 1, V, first, step)
    BY <2>4, <2>5, <2>6 DEF Follows
  <2> QED  BY <2>7
<1>3. Nat \subseteq S
  <2> HIDE DEF S
  <2> QED  BY <1>1, <1>2, SetInduction
<1>4. ASSUME NEW n \in Nat, NEW g, NEW h,
             Follows(g, n, V, first, step), Follows(h, n + 1, V, first, step)
      PROVE  g[n] = h[n]
  <2> DEFINE T == {i \in Nat : i <= n => g[i] = h[i]}
  <2>1. 0 \in T
    BY <1>4 DEF Follows
  <2>2. ASSUME NEW i \in Nat, i \in T PROVE i + 1 \in T
    <3> SUFFICES ASSUME i + 1 <= n PROVE g[i + 1] = h[i + 1]
      OBVIOUS
    <3>1. i \in 0 .. (n - 1) /\ i \in 0 .. ((n + 1) - 1) /\ g[i] = h[i]
      BY <2>2
    <3> QED  BY <1>4, <3>1 DEF Follows
  <2>3. Nat \subseteq T
    <3> HIDE DEF T
    <3> QED  BY <2>1, <2>2, SetInduction
  <2> QED  BY <2>3
<1> DEFINE G(n) == CHOOSE g : Follows(g, n, V, first, step)
           f == [n \in Nat |-> G(n)[n]]
<1>5. ASSUME NEW n \in Nat PROVE Follows(G(n), n, V, first, step)
  BY <1>3
<1> HIDE DEF G, S
<1>6. f \in [Nat -> V]
  <2>1. ASSUME NEW n \in Nat PROVE G(n)[n] \in V
    BY <1>5 DEF Follows
  <2> QED  BY <2>1
<1>7. f[0] = first
  <2>1. G(0)[0] = first
    BY <1>5 DEF Follows
  <2> QED  BY <2>1
<1>8. ASSUME NEW n \in Nat PROVE f[n + 1] = step[<<n, f[n]>>]
  <2>1. Follows(G(n), n, V, first, step) /\ Follows(G(n + 1), n + 1, V, first, step)
    BY <1>5
  <2>2. G(n)[n] = G(n + 1)[n]
    BY <1>4, <2>1
  <2>3. G(n + 1)[n + 1] = step[<<n, G(n + 1)[n]>>]
    BY <2>1 DEF Follows
  <2> QED  BY <2>2, <2>3
<1> QED  BY <1>6, <1>7, <1>8 DEF Recursion

-------------------------------------------------------------------------------
(* Induction and recursion on finite sets                                  *)

LEMMA SubsetInduction ==
    ASSUME NEW S, IsFiniteSet(S), NEW P,
           \A T \in SUBSET S : (\A x \in T : T \ {x} \in P) => T \in P
    PROVE  SUBSET S \subseteq P
<1> DEFINE N == {n \in Nat : \A T \in SUBSET S : Cardinality(T) = n => T \in P}
<1>1. \A T \in SUBSET S : IsFiniteSet(T) /\ Cardinality(T) \in Nat
  BY FS_Subset, FS_CardinalityType
<1>2. 0 \in N
  <2>1. \A T \in SUBSET S : Cardinality(T) = 0 => T = {}
    BY <1>1, FS_EmptySet
  <2> QED  BY <2>1
<1>3. ASSUME NEW n \in Nat, n \in N PROVE n + 1 \in N
  <2> SUFFICES ASSUME NEW T \in SUBSET S, Cardinality(T) = n + 1, NEW x \in T PROVE T \ {x} \in P
    OBVIOUS
  <2>1. Cardinality(T \ {x}) = Cardinality(T) - 1
    BY <1>1, FS_RemoveElement
  <2>2. T \ {x} \in SUBSET S /\ Cardinality(T \ {x}) = n
    BY <2>1
  <2> QED  BY <1>3, <2>2
<1>4. Nat \subseteq N
  <2> HIDE DEF N
  <2> QED  BY <1>2, <1>3, SetInduction
<1> QED  BY <1>1, <1>4

(* The element that a fold takes out of a set, and the fold.               *)
Some(T) == CHOOSE x \in T : TRUE

Folds(f, S, V, first, step) ==
    /\ f \in [SUBSET S -> V]
    /\ f[{}] = first
    /\ \A T \in SUBSET S : T # {} => f[T] = step[<<Some(T), f[T \ {Some(T)}]>>]

LEMMA SetRecursion ==
    ASSUME NEW S, IsFiniteSet(S), NEW V, NEW first \in V, NEW step \in [S \X V -> V]
    PROVE  \E f : Folds(f, S, V, first, step)
<1> DEFINE D == SUBSET S
           W == [D -> V]
           rest(T) == T \ {Some(T)}
           more(h) == [T \in D |-> IF T = {} THEN first ELSE step[<<Some(T), h[rest(T)]>>]]
           none == [T \in D |-> first]
           Step == [p \in Nat \X W |-> more(p[2])]
<1>1. \A T \in D : T # {} => Some(T) \in T /\ Some(T) \in S /\ rest(T) \in D
  BY DEF Some
<1>2. \A T \in D : IsFiniteSet(T) /\ Cardinality(T) \in Nat
  BY FS_Subset, FS_CardinalityType
<1>3. \A T \in D : T # {} => Cardinality(T) # 0 /\ Cardinality(rest(T)) = Cardinality(T) - 1
  BY <1>1, <1>2, FS_RemoveElement, FS_EmptySet
<1>4. none \in W
  OBVIOUS
<1>5. ASSUME NEW h \in W PROVE more(h) \in W
  <2>1. ASSUME NEW T \in D, T # {} PROVE step[<<Some(T), h[rest(T)]>>] \in V
    BY <1>1, <2>1
  <2> QED  BY <2>1
<1>6. Step \in [Nat \X W -> W]
  <2>1. ASSUME NEW p \in Nat \X W PROVE more(p[2]) \in W
    <3>1. p[2] \in W
      OBVIOUS
    <3> HIDE DEF more, W
    <3> QED  BY <1>5, <3>1
  <2> HIDE DEF more, W
  <2> QED  BY <2>1
<1>7. PICK f \in [Nat -> W] : f[0] = none /\ \A n \in Nat : f[n + 1] = Step[<<n, f[n]>>]
  <2> HIDE DEF W, none, Step
  <2>1. Recursion(W, none, Step)
    BY <1>4, <1>6, PrimitiveRecursion
  <2> QED  BY <2>1 DEF Recursion
<1>8. \A n \in Nat : f[n + 1] = more(f[n])
  <2> SUFFICES ASSUME NEW n \in Nat PROVE f[n + 1] = more(f[n])
    OBVIOUS
  <2>1. <<n, f[n]>> \in Nat \X W
    OBVIOUS
  <2>2. Step[<<n, f[n]>>] = more(f[n])
    <3> HIDE DEF more, W
    <3> QED  BY <2>1
  <2> QED  BY <1>7, <2>2
<1> DEFINE h == [T \in D |-> f[Cardinality(T)][T]]
<1>9. h \in W
  <2>1. \A T \in D : f[Cardinality(T)] \in W
    BY <1>2
  <2> QED  BY <2>1
<1>10. h[{}] = first
  <2>1. Cardinality({}) = 0 /\ {} \in D
    BY FS_EmptySet
  <2> QED  BY <1>7, <2>1
<1>11. ASSUME NEW T \in D, T # {} PROVE h[T] = step[<<Some(T), h[rest(T)]>>]
  <2> DEFINE n == Cardinality(rest(T))
  <2>1. rest(T) \in D /\ n \in Nat /\ Cardinality(T) = n + 1
    BY <1>1, <1>2, <1>3, <1>11
  <2>2. h[T] = f[n + 1][T] /\ h[rest(T)] = f[n][rest(T)]
    <3> HIDE DEF n, rest
    <3>1. h[T] = f[n + 1][T]
      BY <2>1
    <3>2. h[rest(T)] = f[n][rest(T)]
      BY <2>1 DEF n
    <3> QED  BY <3>1, <3>2
  <2>3. f[n + 1][T] = step[<<Some(T), f[n][rest(T)]>>]
    <3>1. f[n + 1] = more(f[n])
      <4> HIDE DEF more, n
      <4> QED  BY <1>8, <2>1
    <3> HIDE DEF n, rest
    <3> QED  BY <1>11, <3>1
  <2> QED  BY <2>2, <2>3
<1> HIDE DEF h
<1> QED  BY <1>9, <1>10, <1>11 DEF Folds

(* A product over a finite set does not depend on the order: it is that of *)
(* the set without an element, times the element's factor, whichever it is.*)
IsProduct(p, S, w) ==
    /\ p \in [SUBSET S -> Nat]
    /\ p[{}] = 1
    /\ \A T \in SUBSET S : \A x \in T : p[T] = w[x] * p[T \ {x}]

LEMMA Products ==
    ASSUME NEW S, IsFiniteSet(S), NEW w \in [S -> Nat]
    PROVE  \E p : IsProduct(p, S, w)
<1> DEFINE step == [q \in S \X Nat |-> w[q[1]] * q[2]]
           rest(T) == T \ {Some(T)}
<1>1. step \in [S \X Nat -> Nat]
  <2>1. \A a, b \in Nat : a * b \in Nat
    OBVIOUS
  <2>2. \A q \in S \X Nat : w[q[1]] \in Nat /\ q[2] \in Nat
    OBVIOUS
  <2> QED  BY <2>1, <2>2
<1>2. PICK p : Folds(p, S, Nat, 1, step)
  BY <1>1, SetRecursion
<1>3. p \in [SUBSET S -> Nat] /\ p[{}] = 1
  BY <1>2 DEF Folds
<1>4. \A T \in SUBSET S : T # {} =>
         /\ Some(T) \in T /\ rest(T) \in SUBSET S
         /\ p[T] = w[Some(T)] * p[rest(T)]
  <2> SUFFICES ASSUME NEW T \in SUBSET S, T # {}
               PROVE  /\ Some(T) \in T /\ rest(T) \in SUBSET S
                      /\ p[T] = w[Some(T)] * p[rest(T)]
    OBVIOUS
  <2>1. Some(T) \in T
    BY DEF Some
  <2>2. <<Some(T), p[rest(T)]>> \in S \X Nat
    BY <1>3, <2>1
  <2>3. p[T] = step[<<Some(T), p[rest(T)]>>]
    BY <1>2 DEF Folds
  <2> QED  BY <2>1, <2>2, <2>3
<1> DEFINE P == {T \in SUBSET S : \A x \in T : p[T] = w[x] * p[T \ {x}]}
<1>5. ASSUME NEW T \in SUBSET S, \A x \in T : T \ {x} \in P, NEW x \in T
      PROVE  p[T] = w[x] * p[T \ {x}]
  <2> DEFINE c == Some(T)
             R == T \ {c, x}
  <2>1. c \in T /\ p[T] = w[c] * p[T \ {c}]
    BY <1>4
  <2>2. CASE x = c
    BY <2>1, <2>2
  <2>3. CASE x # c
    <3>1. /\ T \ {c} \in P /\ x \in T \ {c} /\ (T \ {c}) \ {x} = R
          /\ T \ {x} \in P /\ c \in T \ {x} /\ (T \ {x}) \ {c} = R
      BY <1>5, <2>1, <2>3
    <3>2. p[T \ {c}] = w[x] * p[R] /\ p[T \ {x}] = w[c] * p[R]
      BY <3>1
    <3>3. w[c] \in Nat /\ w[x] \in Nat /\ p[R] \in Nat
      BY <1>3, <2>1
    <3>4. \A a, b, r \in Nat : a * (b * r) = b * (a * r)
      OBVIOUS
    <3> HIDE DEF c, R
    <3> QED  BY <2>1, <3>2, <3>3, <3>4
  <2> QED  BY <2>2, <2>3
<1>6. \A T \in SUBSET S : (\A x \in T : T \ {x} \in P) => T \in P
  BY <1>5
<1>7. SUBSET S \subseteq P
  <2> HIDE DEF P
  <2> QED  BY <1>6, SubsetInduction
<1>8. \A T \in SUBSET S : \A x \in T : p[T] = w[x] * p[T \ {x}]
  BY <1>7
<1> QED  BY <1>3, <1>8 DEF IsProduct

-------------------------------------------------------------------------------
(* What an edge takes                                                      *)

LEMMA SlowedType ==
    ASSUME NEW i, i.factor.num \in Nat, i.factor.den \in Nat, NEW seconds \in Nat
    PROVE  Slowed(i, seconds) \in Nat
<1>1. ASSUME NEW a \in Nat, NEW b \in Nat PROVE a * b \in Nat
  OBVIOUS
<1>2. ASSUME NEW a \in Nat, NEW b \in Nat, b > 0 PROVE a \div b \in Nat
  BY <1>2
<1> QED  BY <1>1, <1>2 DEF Slowed

(* The fold over the incidents on an edge takes them one by one.           *)
LEMMA SecondsFold ==
    ASSUME NEW network, WellFormed(network), NEW edge \in network.edges, NEW at
    PROVE  LET S == Affecting(network, edge, at) IN
           \E f \in [SUBSET S -> Nat] :
              /\ f[{}] = edge.base
              /\ \A T \in SUBSET S : T # {} => f[T] = Slowed(Some(T), f[T \ {Some(T)}])
              /\ Seconds(network, edge, at) = f[S]
<1> DEFINE S == Affecting(network, edge, at)
           D == SUBSET S
           rest(T) == T \ {Some(T)}
           eq(h) == [T \in D |-> IF T = {} THEN edge.base ELSE Slowed(Some(T), h[rest(T)])]
           step == [p \in S \X Nat |-> Slowed(p[1], p[2])]
<1>1. /\ IsFiniteSet(S) /\ edge.base \in Nat
      /\ \A i \in S : i.factor.num \in Nat /\ i.factor.den \in Nat
  BY FS_Subset DEF WellFormed, Affecting
<1>2. \A T \in D : T # {} => Some(T) \in T /\ Some(T) \in S /\ rest(T) \in D
  BY DEF Some
<1> DEFINE iter == CHOOSE g : g = eq(g)
<1>3. Seconds(network, edge, at) = iter[S]
  BY Zenon DEF Seconds, FoldSet, MapThenFoldSet, Some
<1> HIDE DEF S
<1>4. step \in [S \X Nat -> Nat]
  BY <1>1, SlowedType
<1>5. PICK h : Folds(h, S, Nat, edge.base, step)
  BY <1>1, <1>4, SetRecursion
<1>6. h \in [D -> Nat] /\ h[{}] = edge.base
  BY <1>5 DEF Folds
<1>7. \A T \in D : T # {} => h[T] = Slowed(Some(T), h[rest(T)])
  <2> SUFFICES ASSUME NEW T \in D, T # {} PROVE h[T] = Slowed(Some(T), h[rest(T)])
    OBVIOUS
  <2>1. Some(T) \in S /\ h[rest(T)] \in Nat
    BY <1>2, <1>6
  <2>2. h[T] = step[<<Some(T), h[rest(T)]>>]
    BY <1>5 DEF Folds
  <2> QED  BY <2>1, <2>2
<1>8. h = eq(h)
  BY <1>6, <1>7
<1>9. iter = eq(iter)
  <2> HIDE DEF eq
  <2> QED  BY <1>8, Zenon
<1> HIDE DEF iter
<1> DEFINE P == {T \in D : iter[T] \in Nat}
<1>10. \A T \in D : (\A x \in T : T \ {x} \in P) => T \in P
  <2> SUFFICES ASSUME NEW T \in D, \A x \in T : T \ {x} \in P PROVE iter[T] \in Nat
    OBVIOUS
  <2>1. CASE T = {}
    BY <1>1, <1>9, <2>1
  <2>2. CASE T # {}
    <3>1. iter[T] = Slowed(Some(T), iter[rest(T)])
      <4> HIDE DEF rest
      <4> QED  BY <1>9, <2>2
    <3>2. Some(T) \in S /\ iter[rest(T)] \in Nat
      BY <1>2, <2>2
    <3> QED  BY <1>1, <3>1, <3>2, SlowedType
  <2> QED  BY <2>1, <2>2
<1>11. D \subseteq P
  <2> HIDE DEF P
  <2> QED  BY <1>1, <1>10, SubsetInduction
<1>12. /\ iter \in [D -> Nat] /\ iter[{}] = edge.base
       /\ \A T \in D : T # {} => iter[T] = Slowed(Some(T), iter[rest(T)])
  BY <1>9, <1>11
<1> QED  BY <1>3, <1>12 DEF S

LEMMA SecondsType ==
    ASSUME NEW network, WellFormed(network), NEW edge \in network.edges, NEW at
    PROVE  Seconds(network, edge, at) \in Nat
<1> DEFINE S == Affecting(network, edge, at)
<1>1. \E f \in [SUBSET S -> Nat] :
         /\ f[{}] = edge.base
         /\ \A T \in SUBSET S : T # {} => f[T] = Slowed(Some(T), f[T \ {Some(T)}])
         /\ Seconds(network, edge, at) = f[S]
  BY SecondsFold, Zenon
<1> HIDE DEF S
<1> QED  BY <1>1

(* Nobody overtakes: who enters an edge earlier, by whatever time, may     *)
(* enter it, and leaves it no later.                                       *)
LEMMA EarlierIsNoLater ==
    ASSUME NEW network, WellFormed(network), NEW request, NEW last \in Nat,
           request.departure \in Nat, NoOvertaking(network, request, last),
           NEW edge \in network.edges,
           NEW a \in request.departure .. last, NEW b \in a .. last,
           Allowed(network, request, edge, b)
    PROVE  /\ Allowed(network, request, edge, a)
           /\ a + Seconds(network, edge, a) <= b + Seconds(network, edge, b)
<1> DEFINE dep == request.departure
           Open(t) == Allowed(network, request, edge, t)
           Exit(t) == t + Seconds(network, edge, t)
           N == {d \in Nat : d <= b - dep => Open(b - d) /\ Exit(b - d) <= Exit(b)}
<1>1. \A t \in Nat : Exit(t) \in Nat
  BY SecondsType
<1>2. \A t \in dep .. (last - 1) : Open(t + 1) => Open(t) /\ Exit(t) <= Exit(t + 1)
  BY DEF NoOvertaking
<1>3. a \in Nat /\ b \in Nat /\ dep \in Nat /\ dep <= a /\ a <= b /\ b <= last
  OBVIOUS
<1> HIDE DEF dep, Open, Exit
<1>4. 0 \in N
  <2>1. b - 0 = b
    BY <1>3
  <2> QED  BY <1>1, <1>3, <2>1 DEF Open
<1>5. ASSUME NEW d \in Nat, d \in N PROVE d + 1 \in N
  <2> SUFFICES ASSUME d + 1 <= b - dep PROVE Open(b - (d + 1)) /\ Exit(b - (d + 1)) <= Exit(b)
    OBVIOUS
  <2> DEFINE t == b - (d + 1)
  <2>1. t \in dep .. (last - 1) /\ t + 1 = b - d /\ d <= b - dep
    BY <1>3
  <2>2. Open(t + 1) /\ Exit(t + 1) <= Exit(b)
    BY <1>5, <2>1
  <2>3. Exit(t) \in Nat /\ Exit(t + 1) \in Nat /\ Exit(b) \in Nat
    BY <1>1, <1>3, <2>1
  <2> HIDE DEF t
  <2>4. Open(t) /\ Exit(t) <= Exit(b)
    BY <1>2, <2>1, <2>2, <2>3
  <2> QED  BY <2>4 DEF t
<1>6. Nat \subseteq N
  <2> HIDE DEF N
  <2> QED  BY <1>4, <1>5, SetInduction
<1>7. b - a \in Nat /\ b - a <= b - dep /\ b - (b - a) = a
  BY <1>3
<1>8. Open(a) /\ Exit(a) <= Exit(b)
  BY <1>6, <1>7
<1> QED  BY <1>8 DEF Open, Exit

-------------------------------------------------------------------------------
(* The times along a path                                                  *)

LEMMA TimesAlongDef ==
    ASSUME NEW network, WellFormed(network), NEW request, request.departure \in Nat,
           NEW path \in Seq(network.edges)
    PROVE  LET time == TimesAlong(network, request, path) IN
           /\ time[0] = request.departure
           /\ \A i \in 0 .. Len(path) : time[i] \in Nat
           /\ \A i \in 1 .. Len(path) :
                 time[i] = time[i - 1] + Seconds(network, path[i], time[i - 1])
<1> DEFINE n == Len(path)
           dep == request.departure
           Exit(i, t) == t + Seconds(network, path[i], t)
           eq(h) == [i \in 0 .. n |-> IF i = 0 THEN dep ELSE Exit(i, h[i - 1])]
           step == [p \in Nat \X Nat |-> IF p[1] < n THEN Exit(p[1] + 1, p[2]) ELSE p[2]]
           time == CHOOSE h : h = eq(h)
<1>1. TimesAlong(network, request, path) = time
  BY Zenon DEF TimesAlong
<1>2. n \in Nat /\ dep \in Nat /\ \A i \in 1 .. n : \A t \in Nat : Exit(i, t) \in Nat
  <2>1. n \in Nat /\ \A i \in 1 .. n : path[i] \in network.edges
    OBVIOUS
  <2> QED  BY <2>1, SecondsType
<1> HIDE DEF n, dep, Exit
<1>3. step \in [Nat \X Nat -> Nat]
  <2>1. ASSUME NEW p \in Nat \X Nat, p[1] < n PROVE Exit(p[1] + 1, p[2]) \in Nat
    <3>1. p[1] \in Nat /\ p[2] \in Nat
      OBVIOUS
    <3>2. p[1] + 1 \in 1 .. n
      <4>1. \A q \in Nat : q < n => q + 1 \in 1 .. n
        BY <1>2
      <4> QED  BY <2>1, <3>1, <4>1
    <3> QED  BY <1>2, <3>1, <3>2
  <2>2. \A p \in Nat \X Nat : p[2] \in Nat
    OBVIOUS
  <2> QED  BY <2>1, <2>2
<1>4. PICK f \in [Nat -> Nat] : f[0] = dep /\ \A i \in Nat : f[i + 1] = step[<<i, f[i]>>]
  <2> HIDE DEF step
  <2>1. Recursion(Nat, dep, step)
    BY <1>2, <1>3, PrimitiveRecursion
  <2> QED  BY <2>1 DEF Recursion
<1>5. \A i \in 1 .. n : f[i] = Exit(i, f[i - 1])
  <2> SUFFICES ASSUME NEW i \in 1 .. n PROVE f[i] = Exit(i, f[i - 1])
    OBVIOUS
  <2>1. i - 1 \in Nat /\ (i - 1) + 1 = i /\ i - 1 < n
    BY <1>2
  <2> QED  BY <1>4, <2>1
<1> HIDE DEF step
<1> DEFINE h == [i \in 0 .. n |-> f[i]]
<1>6. h = eq(h)
  <2>1. \A i \in 1 .. n : i \in 0 .. n /\ i - 1 \in 0 .. n
    BY <1>2
  <2>2. \A i \in 0 .. n : i # 0 => i \in 1 .. n
    BY <1>2
  <2>3. 0 \in 0 .. n
    BY <1>2
  <2>4. \A i \in 0 .. n : h[i] = IF i = 0 THEN dep ELSE Exit(i, h[i - 1])
    BY <1>4, <1>5, <2>1, <2>2, <2>3
  <2> QED  BY <2>4
<1> HIDE DEF h
<1>7. time = eq(time)
  <2> HIDE DEF eq
  <2> QED  BY <1>6, Zenon
<1> HIDE DEF time
<1>8. time[0] = dep
  <2>1. 0 \in 0 .. n
    BY <1>2
  <2> QED  BY <1>7, <2>1
<1>9. \A i \in 1 .. n : time[i] = Exit(i, time[i - 1])
  <2>1. \A i \in 1 .. n : i \in 0 .. n /\ i # 0
    BY <1>2
  <2> QED  BY <1>7, <2>1
<1> DEFINE N == {i \in Nat : i <= n => time[i] \in Nat}
<1>10. 0 \in N
  BY <1>2, <1>8
<1>11. ASSUME NEW i \in Nat, i \in N PROVE i + 1 \in N
  <2> SUFFICES ASSUME i + 1 <= n PROVE time[i + 1] \in Nat
    OBVIOUS
  <2>1. i + 1 \in 1 .. n /\ (i + 1) - 1 = i /\ time[i] \in Nat
    BY <1>2, <1>11
  <2>2. time[i + 1] = Exit(i + 1, time[i])
    BY <1>9, <2>1
  <2> QED  BY <1>2, <2>1, <2>2
<1>12. Nat \subseteq N
  <2> HIDE DEF N
  <2> QED  BY <1>10, <1>11, SetInduction
<1>13. \A i \in 0 .. n : time[i] \in Nat
  BY <1>2, <1>12
<1> QED  BY <1>1, <1>8, <1>9, <1>13 DEF n, dep, Exit
(* A path with one edge more is driven like the path, up to that edge.     *)
LEMMA TimesAlongAppend ==
    ASSUME NEW network, WellFormed(network), NEW request, request.departure \in Nat,
           NEW path \in Seq(network.edges), NEW edge \in network.edges
    PROVE  LET time == TimesAlong(network, request, path)
               new == TimesAlong(network, request, Append(path, edge))
               n == Len(path)
           IN  /\ \A i \in 0 .. n : new[i] = time[i]
               /\ new[n + 1] = time[n] + Seconds(network, edge, time[n])
<1> DEFINE longer == Append(path, edge)
           n == Len(path)
           time == TimesAlong(network, request, path)
           new == TimesAlong(network, request, longer)
           N == {i \in Nat : i <= n => new[i] = time[i]}
<1>1. /\ n \in Nat /\ longer \in Seq(network.edges) /\ Len(longer) = n + 1
      /\ longer[n + 1] = edge /\ \A i \in 1 .. n : longer[i] = path[i]
  OBVIOUS
<1>2. /\ time[0] = request.departure
      /\ \A i \in 1 .. n : time[i] = time[i - 1] + Seconds(network, path[i], time[i - 1])
  BY TimesAlongDef
<1>3. /\ new[0] = request.departure
      /\ \A i \in 1 .. (n + 1) : new[i] = new[i - 1] + Seconds(network, longer[i], new[i - 1])
  <2> HIDE DEF longer
  <2> QED  BY <1>1, TimesAlongDef
<1> HIDE DEF longer, n, time, new
<1>4. 0 \in N
  BY <1>2, <1>3
<1>5. ASSUME NEW i \in Nat, i \in N PROVE i + 1 \in N
  <2> SUFFICES ASSUME i + 1 <= n PROVE new[i + 1] = time[i + 1]
    OBVIOUS
  <2>1. i + 1 \in 1 .. n /\ i + 1 \in 1 .. (n + 1) /\ (i + 1) - 1 = i /\ new[i] = time[i]
    BY <1>1, <1>5
  <2> QED  BY <1>1, <1>2, <1>3, <2>1
<1>6. Nat \subseteq N
  <2> HIDE DEF N
  <2> QED  BY <1>4, <1>5, SetInduction
<1>7. \A i \in 0 .. n : new[i] = time[i]
  BY <1>1, <1>6
<1>8. new[n + 1] = time[n] + Seconds(network, edge, time[n])
  <2>1. n + 1 \in 1 .. (n + 1) /\ (n + 1) - 1 = n /\ n \in 0 .. n
    BY <1>1
  <2> QED  BY <1>1, <1>3, <1>7, <2>1
<1> QED  BY <1>7, <1>8 DEF longer, n, time, new

(* Where a path ends: at the origin when it has no edge.                   *)
EndOf(request, path) == IF path = <<>> THEN request.from ELSE path[Len(path)].to

LEMMA DrivableAppend ==
    ASSUME NEW network, WellFormed(network), NEW request, request.departure \in Nat,
           NEW path \in Seq(network.edges), Drivable(network, request, path),
           NEW edge \in network.edges, edge.from = EndOf(request, path),
           Allowed(network, request, edge, TimesAlong(network, request, path)[Len(path)])
    PROVE  Drivable(network, request, Append(path, edge))
<1> DEFINE longer == Append(path, edge)
           n == Len(path)
           time == TimesAlong(network, request, path)
           new == TimesAlong(network, request, longer)
           Right(p, t, i) ==
              /\ p[i] \in network.edges
              /\ p[i].from = IF i = 1 THEN request.from ELSE p[i - 1].to
              /\ Allowed(network, request, p[i], t[i - 1])
<1>1. /\ n \in Nat /\ longer \in Seq(network.edges) /\ Len(longer) = n + 1
      /\ longer[n + 1] = edge /\ \A i \in 1 .. n : longer[i] = path[i]
      /\ path = <<>> <=> n = 0
  OBVIOUS
<1>2. \A i \in 0 .. n : new[i] = time[i]
  BY TimesAlongAppend
<1>3. \A i \in 1 .. n : Right(path, time, i)
  BY DEF Drivable
<1>4. edge.from = IF n = 0 THEN request.from ELSE path[n].to
  BY <1>1 DEF EndOf
<1> HIDE DEF longer, time, new, n
<1>5. ASSUME NEW i \in 1 .. n PROVE Right(longer, new, i)
  <2>1. i - 1 \in 0 .. n /\ (i # 1 => i - 1 \in 1 .. n)
    BY <1>1
  <2> QED  BY <1>1, <1>2, <1>3, <2>1
<1>6. Right(longer, new, n + 1)
  <2>1. (n + 1) - 1 = n /\ n \in 0 .. n /\ (n + 1 = 1 <=> n = 0) /\ (n # 0 => n \in 1 .. n)
    BY <1>1
  <2>2. Allowed(network, request, edge, new[n])
    BY <1>2, <2>1 DEF time, n
  <2>3. longer[n + 1].from = IF n + 1 = 1 THEN request.from ELSE longer[(n + 1) - 1].to
    BY <1>1, <1>4, <2>1
  <2> QED  BY <1>1, <2>1, <2>2, <2>3
<1>7. \A i \in 1 .. (n + 1) : i \in 1 .. n \/ i = n + 1
  BY <1>1
<1>8. \A i \in 1 .. Len(longer) : Right(longer, new, i)
  <2> HIDE DEF Right
  <2> QED  BY <1>1, <1>5, <1>6, <1>7
<1> QED  BY <1>8 DEF Drivable, new, longer
-------------------------------------------------------------------------------
(* Where one can be                                                        *)

Origin(request) == [node |-> request.from, time |-> request.departure]

(* Who is at a place enters an edge there and is at its end in time.       *)
GoesOn(network, request, last, place, edge) ==
    /\ edge \in Outgoing(network, place.node)
    /\ Allowed(network, request, edge, place.time)
    /\ place.time + Seconds(network, edge, place.time) <= last

Beyond(network, place, edge) ==
    [node |-> edge.to, time |-> place.time + Seconds(network, edge, place.time)]

Places(network, request) ==
    [node : {request.from} \union network.nodes, time : Nat]

(* The places reached over at most so many edges.                          *)
IsSpread(after, network, request, last) ==
    /\ after \in [Nat -> SUBSET Places(network, request)]
    /\ after[0] = {Origin(request)}
    /\ \A n \in Nat : \A place :
          place \in after[n + 1] <=>
              \/ place \in after[n]
              \/ \E p \in after[n], e \in network.edges :
                    GoesOn(network, request, last, p, e) /\ place = Beyond(network, p, e)

LEMMA ArrivalsDef ==
    ASSUME NEW network, WellFormed(network), NEW request, NEW last \in Nat,
           request.departure \in 0 .. last
    PROVE  \E after : /\ IsSpread(after, network, request, last)
                      /\ Arrivals(network, request, last) = after[last - request.departure]
<1> DEFINE P == Places(network, request)
           V == SUBSET P
           Goes(p, e) == GoesOn(network, request, last, p, e)
           Onward(p) ==
             {[node |-> e.to, time |-> p.time + Seconds(network, e, p.time)]
              : e \in {m \in Outgoing(network, p.node) :
                          /\ Allowed(network, request, m, p.time)
                          /\ p.time + Seconds(network, m, p.time) <= last}}
           Further(T) == T \union UNION {Onward(p) : p \in T}
           first == {[node |-> request.from, time |-> request.departure]}
           eq(h) == [n \in Nat |-> IF n = 0 THEN first ELSE Further(h[n - 1])]
           step == [p \in Nat \X V |-> Further(p[2])]
           after == CHOOSE h : h = eq(h)
<1>1. Arrivals(network, request, last) = after[last - request.departure]
  BY Zenon DEF Arrivals
<1>2. first \in V
  BY DEF Places
<1>3. ASSUME NEW T \in V PROVE Further(T) \in V
  <2> SUFFICES ASSUME NEW p \in T PROVE Onward(p) \subseteq P
    OBVIOUS
  <2> SUFFICES ASSUME NEW e \in network.edges
               PROVE  [node |-> e.to, time |-> p.time + Seconds(network, e, p.time)] \in P
    BY DEF Outgoing
  <2>1. Seconds(network, e, p.time) \in Nat /\ e.to \in network.nodes
    BY SecondsType DEF WellFormed
  <2>2. p.time \in Nat
    BY DEF Places
  <2> QED  BY <2>1, <2>2 DEF Places
<1>4. ASSUME NEW T \in V
      PROVE  \A place : place \in Further(T) <=>
                 \/ place \in T
                 \/ \E p \in T, e \in network.edges : Goes(p, e) /\ place = Beyond(network, p, e)
  <2>1. \A p : \A place : place \in Onward(p) <=>
           \E e \in network.edges : Goes(p, e) /\ place = Beyond(network, p, e)
    BY Zenon DEF GoesOn, Beyond, Outgoing
  <2> HIDE DEF Onward, Goes
  <2>2. \A place : place \in Further(T) <=> place \in T \/ \E p \in T : place \in Onward(p)
    OBVIOUS
  <2> QED  BY <2>1, <2>2
<1> HIDE DEF V, first, Further
<1>5. step \in [Nat \X V -> V]
  <2>1. \A p \in Nat \X V : p[2] \in V
    OBVIOUS
  <2> QED  BY <1>3, <2>1
<1>6. PICK f \in [Nat -> V] : f[0] = first /\ \A n \in Nat : f[n + 1] = step[<<n, f[n]>>]
  <2> HIDE DEF step
  <2>1. Recursion(V, first, step)
    BY <1>2, <1>5, PrimitiveRecursion
  <2> QED  BY <2>1 DEF Recursion
<1>7. \A n \in Nat : f[n + 1] = Further(f[n])
  BY <1>6
<1> HIDE DEF step
<1>8. f = eq(f)
  <2>1. ASSUME NEW n \in Nat, n # 0 PROVE f[n] = Further(f[n - 1])
    <3>1. n - 1 \in Nat /\ (n - 1) + 1 = n
      BY <2>1
    <3> QED  BY <1>7, <3>1
  <2>2. \A n \in Nat : f[n] = IF n = 0 THEN first ELSE Further(f[n - 1])
    BY <1>6, <2>1
  <2> QED  BY <2>2
<1>9. after = eq(after)
  <2> HIDE DEF eq
  <2> QED  BY <1>8, Zenon
<1> HIDE DEF after
<1>10. after[0] = first
  BY <1>9
<1>11. \A n \in Nat : after[n + 1] = Further(after[n])
  <2> SUFFICES ASSUME NEW n \in Nat PROVE after[n + 1] = Further(after[n])
    OBVIOUS
  <2>1. n + 1 \in Nat /\ n + 1 # 0 /\ (n + 1) - 1 = n
    OBVIOUS
  <2> QED  BY <1>9, <2>1
<1> DEFINE N == {n \in Nat : after[n] \in V}
<1>12. Nat \subseteq N
  <2>1. 0 \in N
    BY <1>2, <1>10
  <2>2. ASSUME NEW n \in Nat, n \in N PROVE n + 1 \in N
    BY <1>3, <1>11, <2>2
  <2> HIDE DEF N
  <2> QED  BY <2>1, <2>2, SetInduction
<1>13. after \in [Nat -> V]
  <2>1. after = [n \in Nat |-> after[n]]
    BY <1>9
  <2>2. \A n \in Nat : after[n] \in V
    BY <1>12
  <2> QED  BY <2>1, <2>2
<1>14. IsSpread(after, network, request, last)
  <2>1. after[0] = {Origin(request)}
    BY <1>10 DEF first, Origin
  <2>2. \A n \in Nat : after[n] \in V
    BY <1>12
  <2> QED  BY <1>4, <1>11, <1>13, <2>1, <2>2 DEF IsSpread, V
<1> QED  BY <1>1, <1>14
(* Arrivals are the least set with the origin that everybody goes on in.   *)
LEMMA ArrivalsLeast ==
    ASSUME NEW network, WellFormed(network), NEW request, NEW last \in Nat,
           request.departure \in 0 .. last,
           NEW P, Origin(request) \in P,
           \A p \in P \intersect Places(network, request), e \in network.edges :
               GoesOn(network, request, last, p, e) => Beyond(network, p, e) \in P
    PROVE  /\ Arrivals(network, request, last) \subseteq P
           /\ Arrivals(network, request, last) \subseteq Places(network, request)
<1>1. PICK after : /\ IsSpread(after, network, request, last)
                   /\ Arrivals(network, request, last) = after[last - request.departure]
  BY ArrivalsDef
<1>2. after \in [Nat -> SUBSET Places(network, request)]
  BY <1>1 DEF IsSpread
<1> DEFINE N == {n \in Nat : after[n] \subseteq P}
<1>3. 0 \in N
  BY <1>1 DEF IsSpread
<1>4. ASSUME NEW n \in Nat, n \in N PROVE n + 1 \in N
  <2> SUFFICES ASSUME NEW place \in after[n + 1] PROVE place \in P
    OBVIOUS
  <2>1. CASE place \in after[n]
    BY <1>4, <2>1
  <2>2. ASSUME NEW p \in after[n], NEW e \in network.edges,
               GoesOn(network, request, last, p, e), place = Beyond(network, p, e)
        PROVE  place \in P
    <3>1. p \in P \intersect Places(network, request)
      BY <1>2, <1>4
    <3> QED  BY <2>2, <3>1
  <2>3. \/ place \in after[n]
        \/ \E p \in after[n], e \in network.edges :
              GoesOn(network, request, last, p, e) /\ place = Beyond(network, p, e)
    BY <1>1 DEF IsSpread
  <2> QED  BY <2>1, <2>2, <2>3
<1>5. Nat \subseteq N
  <2> HIDE DEF N
  <2> QED  BY <1>3, <1>4, SetInduction
<1>6. last - request.departure \in Nat
  OBVIOUS
<1>7. after[last - request.departure] \subseteq P
  BY <1>5, <1>6
<1> QED  BY <1>1, <1>2, <1>6, <1>7

(* Where every edge takes a second at least, the legs that Arrivals counts *)
(* are enough: whoever is in time at the end of one more edge is in it.    *)
LEMMA ArrivalsClosed ==
    ASSUME NEW network, WellFormed(network), NEW request, NEW last \in Nat,
           request.departure \in 0 .. last,
           \A e \in network.edges, t \in request.departure .. last :
               Seconds(network, e, t) # 0
    PROVE  /\ Origin(request) \in Arrivals(network, request, last)
           /\ \A p \in Arrivals(network, request, last), e \in network.edges :
                 GoesOn(network, request, last, p, e)
                   => Beyond(network, p, e) \in Arrivals(network, request, last)
<1> DEFINE dep == request.departure
           all == Arrivals(network, request, last)
<1>1. PICK after : /\ IsSpread(after, network, request, last)
                   /\ all = after[last - dep]
  BY ArrivalsDef
<1>2. /\ after \in [Nat -> SUBSET Places(network, request)]
      /\ after[0] = {Origin(request)}
      /\ \A n \in Nat : after[n] \subseteq after[n + 1]
      /\ \A n \in Nat : \A p \in after[n], e \in network.edges :
            GoesOn(network, request, last, p, e) => Beyond(network, p, e) \in after[n + 1]
  BY <1>1 DEF IsSpread
<1>3. dep \in Nat /\ dep <= last /\ last - dep \in Nat
  OBVIOUS
<1> HIDE DEF dep, all
<1>4. ASSUME NEW m \in Nat, NEW n \in Nat, m <= n PROVE after[m] \subseteq after[n]
  <2> DEFINE N == {d \in Nat : after[m] \subseteq after[m + d]}
  <2>1. 0 \in N
    OBVIOUS
  <2>2. ASSUME NEW d \in Nat, d \in N PROVE d + 1 \in N
    <3>1. m + d \in Nat /\ m + (d + 1) = (m + d) + 1 /\ d + 1 \in Nat
      OBVIOUS
    <3>2. after[m + d] \subseteq after[(m + d) + 1]
      BY <1>2, <3>1
    <3>3. after[m] \subseteq after[m + d]
      BY <2>2
    <3>4. after[m + (d + 1)] = after[(m + d) + 1]
      BY <3>1
    <3> QED  BY <3>1, <3>2, <3>3, <3>4, Zenon
  <2>3. Nat \subseteq N
    <3> HIDE DEF N
    <3> QED  BY <2>1, <2>2, SetInduction
  <2>4. n - m \in Nat /\ m + (n - m) = n
    BY <1>4
  <2>5. n - m \in N
    BY <2>3, <2>4
  <2> QED  BY <2>4, <2>5
<1> DEFINE InTime(p) == p.time \in dep .. last /\ p \in after[p.time - dep]
           N == {n \in Nat : \A p \in after[n] : InTime(p)}
<1>5. ASSUME NEW p, NEW e \in network.edges, InTime(p), GoesOn(network, request, last, p, e)
      PROVE  InTime(Beyond(network, p, e))
  <2> DEFINE b == Beyond(network, p, e)
  <2>1. /\ b.time = p.time + Seconds(network, e, p.time) /\ b.time <= last
        /\ Seconds(network, e, p.time) \in Nat \ {0}
    BY <1>5, SecondsType DEF GoesOn, Beyond, dep
  <2>2. p.time \in Nat /\ dep <= p.time
    BY <1>3, <1>5
  <2>3. /\ p.time - dep \in Nat /\ b.time - dep \in Nat /\ b.time \in dep .. last
        /\ (p.time - dep) + 1 <= b.time - dep
    BY <1>3, <2>1, <2>2
  <2>4. b \in after[(p.time - dep) + 1]
    BY <1>2, <1>5, <2>3
  <2>5. b \in after[b.time - dep]
    BY <1>4, <2>3, <2>4
  <2> QED  BY <2>3, <2>5
<1> HIDE DEF InTime
<1>6. 0 \in N
  <2>1. InTime(Origin(request))
    <3>1. Origin(request).time = dep
      BY DEF Origin, dep
    <3> QED  BY <1>2, <1>3, <3>1 DEF InTime
  <2> QED  BY <1>2, <2>1
<1>7. ASSUME NEW n \in Nat, n \in N PROVE n + 1 \in N
  <2> SUFFICES ASSUME NEW place \in after[n + 1] PROVE InTime(place)
    OBVIOUS
  <2>1. CASE place \in after[n]
    BY <1>7, <2>1
  <2>2. ASSUME NEW p \in after[n], NEW e \in network.edges,
               GoesOn(network, request, last, p, e), place = Beyond(network, p, e)
        PROVE  InTime(place)
    BY <1>5, <1>7, <2>2
  <2>3. \/ place \in after[n]
        \/ \E p \in after[n], e \in network.edges :
              GoesOn(network, request, last, p, e) /\ place = Beyond(network, p, e)
    BY <1>1 DEF IsSpread
  <2> QED  BY <2>1, <2>2, <2>3
<1>8. Nat \subseteq N
  <2> HIDE DEF N
  <2> QED  BY <1>6, <1>7, SetInduction
<1>9. Origin(request) \in all
  BY <1>1, <1>2, <1>3, <1>4
<1>10. ASSUME NEW p \in all, NEW e \in network.edges, GoesOn(network, request, last, p, e)
       PROVE  Beyond(network, p, e) \in all
  <2>1. InTime(p)
    BY <1>1, <1>3, <1>8
  <2> DEFINE b == Beyond(network, p, e)
  <2>2. InTime(b)
    BY <1>5, <1>10, <2>1
  <2> HIDE DEF b
  <2>3. b.time - dep \in Nat /\ b.time - dep <= last - dep
    BY <1>3, <2>2 DEF InTime
  <2>4. b \in after[last - dep]
    BY <1>3, <1>4, <2>2, <2>3 DEF InTime
  <2> QED  BY <1>1, <2>4 DEF b
<1> QED  BY <1>9, <1>10 DEF all

-------------------------------------------------------------------------------
(* The loops that cost an edge                                             *)

(* The factors of the incidents, those of zero left out.                   *)
Numerators(S) == [i \in S |-> IF i.factor.num > 0 THEN i.factor.num ELSE 1]
Denominators(S) == [i \in S |-> IF i.factor.num > 0 THEN i.factor.den ELSE 1]

LEMMA ExactDivision ==
    ASSUME NEW a \in Nat, NEW n \in Nat, n > 0
    PROVE  (a * n) \div n = a
<1> DEFINE d == (a * n) \div n
           r == (a * n) % n
<1>1. a * n \in Nat
  OBVIOUS
<1>2. d \in Nat /\ r \in Nat /\ r < n
  BY <1>1
<1>3. a * n = n * d + r
  BY <1>1
<1> HIDE DEF d, r
<1>4. n * (a - d) = r
  BY <1>2, <1>3
<1>5. ASSUME a > d PROVE FALSE
  <2>1. n * (a - d) >= n
    BY <1>2, <1>5
  <2> QED  BY <1>2, <1>4, <2>1
<1>6. ASSUME a < d PROVE FALSE
  <2>1. n * (a - d) <= - n
    BY <1>2, <1>6
  <2> QED  BY <1>2, <1>4, <2>1
<1>7. a = d
  BY <1>2, <1>5, <1>6
<1> QED  BY <1>7 DEF d

LEMMA Divides ==
    ASSUME NEW a \in Nat, NEW n \in Nat, n > 0, a % n = 0
    PROVE  a \div n \in Nat /\ a = (a \div n) * n
OBVIOUS

LEMMA Positive ==
    ASSUME NEW S, IsFiniteSet(S), NEW w \in [S -> Nat], \A x \in S : w[x] > 0,
           NEW p, IsProduct(p, S, w)
    PROVE  \A T \in SUBSET S : p[T] > 0
<1> DEFINE P == {T \in SUBSET S : p[T] > 0}
<1>1. \A a, b \in Nat : a > 0 /\ b > 0 => a * b > 0
  OBVIOUS
<1>2. \A T \in SUBSET S : (\A x \in T : T \ {x} \in P) => T \in P
  <2> SUFFICES ASSUME NEW T \in SUBSET S, \A x \in T : T \ {x} \in P PROVE p[T] > 0
    OBVIOUS
  <2>1. CASE T = {}
    BY <2>1 DEF IsProduct
  <2>2. CASE T # {}
    <3>1. PICK x \in T : TRUE
      BY <2>2
    <3>2. p[T] = w[x] * p[T \ {x}] /\ p[T \ {x}] \in Nat /\ w[x] \in Nat
      BY <3>1 DEF IsProduct
    <3>3. p[T \ {x}] > 0 /\ w[x] > 0
      BY <3>1
    <3> QED  BY <1>1, <3>2, <3>3
  <2> QED  BY <2>1, <2>2
<1>3. SUBSET S \subseteq P
  <2> HIDE DEF P
  <2> QED  BY <1>2, SubsetInduction
<1> QED  BY <1>3

(* Slowed by one incident after the other.                                 *)
IsSlowed(f, S) ==
    /\ f \in [SUBSET S -> Nat]
    /\ \A T \in SUBSET S : T # {} => f[T] = Slowed(Some(T), f[T \ {Some(T)}])

(* Where the factors divide the duration, their order does not matter.     *)
LEMMA SlowedInAnyOrder ==
    ASSUME NEW S, IsFiniteSet(S), \A i \in S : i.factor.num \in Nat /\ i.factor.den \in Nat,
           NEW f, IsSlowed(f, S),
           NEW pn, IsProduct(pn, S, Numerators(S)),
           NEW pd, IsProduct(pd, S, Denominators(S)),
           NEW q \in Nat
    PROVE  f[{}] = q * pn[S] => f[S] = q * pd[S]
<1>1. SUFFICES ASSUME f[{}] = q * pn[S] PROVE f[S] = q * pd[S]
  OBVIOUS
<1>2. /\ f \in [SUBSET S -> Nat]
      /\ \A T \in SUBSET S : T # {} => f[T] = Slowed(Some(T), f[T \ {Some(T)}])
  BY DEF IsSlowed
<1>3. /\ pn \in [SUBSET S -> Nat] /\ pn[{}] = 1
      /\ \A T \in SUBSET S : \A x \in T : pn[T] = Numerators(S)[x] * pn[T \ {x}]
  BY DEF IsProduct
<1>4. /\ pd \in [SUBSET S -> Nat] /\ pd[{}] = 1
      /\ \A T \in SUBSET S : \A x \in T : pd[T] = Denominators(S)[x] * pd[T \ {x}]
  BY DEF IsProduct
<1> DEFINE P == {T \in SUBSET S : f[T] = q * (pn[S \ T] * pd[T])}
<1>5. \A T \in SUBSET S : (\A x \in T : T \ {x} \in P) => T \in P
  <2>0. SUFFICES ASSUME NEW T \in SUBSET S, \A x \in T : T \ {x} \in P
                PROVE f[T] = q * (pn[S \ T] * pd[T])
    OBVIOUS
  <2>1. CASE T = {}
    <3>1. S \ T = S /\ pn[S] \in Nat
      BY <1>3, <2>1
    <3> QED  BY <1>1, <1>4, <2>1, <3>1
  <2>2. CASE T # {}
    <3> DEFINE c == Some(T)
               R == T \ {c}
               a == pn[S \ T]
               b == pd[R]
    <3>1. c \in T /\ c \in S /\ R \in SUBSET S /\ S \ R \in SUBSET S /\ c \in S \ R
          /\ (S \ R) \ {c} = S \ T /\ S \ T \in SUBSET S
      BY <2>2 DEF Some
    <3>2. a \in Nat /\ b \in Nat
      BY <1>3, <1>4, <3>1
    <3>3. f[T] = Slowed(c, f[R])
      BY <1>2, <2>2
    <3>4. f[R] = q * (pn[S \ R] * b)
      BY <2>0, <3>1
    <3>5. pn[S \ R] = Numerators(S)[c] * a
      <4> HIDE DEF R, c
      <4> QED  BY <1>3, <3>1
    <3>6. pd[T] = Denominators(S)[c] * b
      BY <1>4, <3>1
    <3>7. c.factor.num \in Nat /\ c.factor.den \in Nat
      BY <3>1
    <3>8. Numerators(S)[c] = (IF c.factor.num > 0 THEN c.factor.num ELSE 1)
          /\ Denominators(S)[c] = (IF c.factor.num > 0 THEN c.factor.den ELSE 1)
      BY <3>1 DEF Numerators, Denominators
    <3> HIDE DEF c, R, a, b
    <3>9. CASE c.factor.num > 0
      <4> DEFINE n == c.factor.num
                 d == c.factor.den
      <4>1. n \in Nat /\ d \in Nat /\ n > 0
        BY <3>7, <3>9
      <4>2. f[T] = ((q * ((n * a) * b)) * d) \div n
        BY <3>3, <3>4, <3>5, <3>8, <3>9, Zenon DEF Slowed
      <4>3. f[R] = q * ((n * a) * b) /\ pd[T] = d * b
        BY <3>4, <3>5, <3>6, <3>8, <3>9
      <4> HIDE DEF n, d
      <4>4. (q * ((n * a) * b)) * d = (q * (a * (d * b))) * n
        BY <4>1, <3>2
      <4>5. \A x, y \in Nat : x * y \in Nat
        OBVIOUS
      <4>6. q * (a * (d * b)) \in Nat
        BY <4>1, <4>5, <3>2
      <4>7. ((q * (a * (d * b))) * n) \div n = q * (a * (d * b))
        BY <4>1, <4>6, ExactDivision
      <4>8. f[T] = q * (a * (d * b))
        BY <4>2, <4>4, <4>7, Zenon
      <4> QED  BY <4>3, <4>8, Zenon DEF a
    <3>10. CASE ~ (c.factor.num > 0)
      <4>1. f[T] = f[R]
        BY <3>3, <3>10 DEF Slowed
      <4>2. pn[S \ R] = a /\ pd[T] = b
        BY <3>2, <3>5, <3>6, <3>8, <3>10
      <4> QED  BY <3>4, <4>1, <4>2, Zenon DEF a
    <3> QED  BY <3>9, <3>10
  <2> QED  BY <2>1, <2>2
<1>6. SUBSET S \subseteq P
  <2> HIDE DEF P
  <2> QED  BY <1>5, SubsetInduction
<1>7. f[S] = q * (pn[S \ S] * pd[S])
  BY <1>6
<1>8. pn[S \ S] = 1 /\ pd[S] \in Nat
  <2>1. S \ S = {}
    OBVIOUS
  <2> QED  BY <1>3, <1>4, <2>1
<1>9. pn[S \ S] * pd[S] = pd[S]
  BY <1>8
<1> QED  BY <1>7, <1>9

LEMMA SecondsAre ==
    ASSUME NEW network, WellFormed(network), NEW edge \in network.edges, NEW at,
           NEW S, S = Affecting(network, edge, at),
           NEW pn, IsProduct(pn, S, Numerators(S)),
           NEW pd, IsProduct(pd, S, Denominators(S)),
           NEW q \in Nat
    PROVE  edge.base = q * pn[S] => Seconds(network, edge, at) = q * pd[S]
<1>1. /\ IsFiniteSet(S)
      /\ \A i \in S : i.factor.num \in Nat /\ i.factor.den \in Nat
  BY FS_Subset DEF WellFormed, Affecting
<1>2. PICK f \in [SUBSET S -> Nat] :
         /\ f[{}] = edge.base
         /\ \A T \in SUBSET S : T # {} => f[T] = Slowed(Some(T), f[T \ {Some(T)}])
         /\ Seconds(network, edge, at) = f[S]
  <2> DEFINE A == Affecting(network, edge, at)
  <2>1. \E f \in [SUBSET A -> Nat] :
           /\ f[{}] = edge.base
           /\ \A T \in SUBSET A : T # {} => f[T] = Slowed(Some(T), f[T \ {Some(T)}])
           /\ Seconds(network, edge, at) = f[A]
    BY SecondsFold, Zenon
  <2>2. A = S
    OBVIOUS
  <2> HIDE DEF A
  <2> QED  BY <2>1, <2>2
<1>3. IsSlowed(f, S)
  BY <1>2, Zenon DEF IsSlowed
<1>4. f[{}] = q * pn[S] => f[S] = q * pd[S]
  BY <1>1, <1>3, SlowedInAnyOrder
<1> QED  BY <1>2, <1>4, Zenon
(* A loop over an order: what it has after each round.                     *)
Rounds(after, n, V, first, step) ==
    /\ after \in [0 .. n -> V]
    /\ after[0] = first
    /\ \A i \in 1 .. n : after[i] = step[<<i, after[i - 1]>>]

LEMMA RoundsExist ==
    ASSUME NEW n \in Nat, NEW V, NEW first \in V, NEW step \in [(1 .. n) \X V -> V]
    PROVE  \E after : Rounds(after, n, V, first, step)
<1> DEFINE on == [p \in Nat \X V |-> IF p[1] < n THEN step[<<p[1] + 1, p[2]>>] ELSE p[2]]
<1>1. on \in [Nat \X V -> V]
  <2>1. ASSUME NEW p \in Nat \X V, p[1] < n PROVE step[<<p[1] + 1, p[2]>>] \in V
    <3>1. p[1] \in Nat /\ p[2] \in V /\ p[1] + 1 \in 1 .. n
      BY <2>1
    <3> QED  BY <3>1
  <2>2. \A p \in Nat \X V : p[2] \in V
    OBVIOUS
  <2> QED  BY <2>1, <2>2
<1>2. PICK f \in [Nat -> V] : f[0] = first /\ \A i \in Nat : f[i + 1] = on[<<i, f[i]>>]
  <2> HIDE DEF on
  <2>1. Recursion(V, first, on)
    BY <1>1, PrimitiveRecursion
  <2> QED  BY <2>1 DEF Recursion
<1>3. \A i \in 1 .. n : f[i] = step[<<i, f[i - 1]>>]
  <2> SUFFICES ASSUME NEW i \in 1 .. n PROVE f[i] = step[<<i, f[i - 1]>>]
    OBVIOUS
  <2>1. i - 1 \in Nat /\ (i - 1) + 1 = i /\ i - 1 < n
    OBVIOUS
  <2> QED  BY <1>2, <2>1
<1> HIDE DEF on
<1> DEFINE after == [i \in 0 .. n |-> f[i]]
<1>4. after \in [0 .. n -> V] /\ after[0] = first
  BY <1>2
<1>5. \A i \in 1 .. n : after[i] = step[<<i, after[i - 1]>>]
  <2>1. \A i \in 1 .. n : i \in 0 .. n /\ i - 1 \in 0 .. n
    OBVIOUS
  <2> QED  BY <1>3, <2>1
<1> QED  BY <1>4, <1>5 DEF Rounds

(* An order goes through every incident once.                              *)
LEMMA OrderIs ==
    ASSUME NEW S, IsFiniteSet(S), NEW order \in Orders(S)
    PROVE  /\ Cardinality(S) \in Nat /\ Len(order) = Cardinality(S)
           /\ order \in [1 .. Len(order) -> S]
           /\ \A i, j \in 1 .. Len(order) : order[i] = order[j] => i = j
           /\ \A x \in S : \E i \in 1 .. Len(order) : order[i] = x
<1> DEFINE n == Cardinality(S)
<1>1. n \in Nat
  BY FS_CardinalityType
<1>2. /\ order \in [1 .. n -> S]
      /\ \A i, j \in 1 .. n : order[i] = order[j] => i = j
      /\ \A x \in S : \E i \in 1 .. n : order[i] = x
  BY DEF Orders, Bijection, Injection, Surjection, IsInjective
<1> HIDE DEF n
<1>3. order \in Seq(S) /\ Len(order) = n
  BY <1>1, <1>2
<1> QED  BY <1>1, <1>2, <1>3 DEF n

Entry == [open : BOOLEAN, num : Nat, den : Nat]

(* What the loops have after so many rounds: a product each.               *)
Behind(order, k) == {order[j] : j \in 1 .. k}

LEMMA BehindIs ==
    ASSUME NEW S, IsFiniteSet(S), NEW order \in Orders(S)
    PROVE  /\ Behind(order, 0) = {}
           /\ Behind(order, Len(order)) = S
           /\ \A k \in 1 .. Len(order) :
                 /\ Behind(order, k) \in SUBSET S
                 /\ order[k] \in Behind(order, k)
                 /\ Behind(order, k - 1) = Behind(order, k) \ {order[k]}
<1> DEFINE n == Len(order)
<1>1. /\ n \in Nat /\ order \in [1 .. n -> S]
      /\ \A i, j \in 1 .. n : order[i] = order[j] => i = j
      /\ \A x \in S : \E i \in 1 .. n : order[i] = x
  BY OrderIs
<1> HIDE DEF n
<1>2. Behind(order, 0) = {}
  BY DEF Behind
<1>3. Behind(order, n) = S
  BY <1>1 DEF Behind
<1>4. ASSUME NEW k \in 1 .. n
      PROVE  /\ Behind(order, k) \in SUBSET S
             /\ order[k] \in Behind(order, k)
             /\ Behind(order, k - 1) = Behind(order, k) \ {order[k]}
  <2>1. k \in 1 .. k /\ \A j \in 1 .. k : j \in 1 .. n
    BY <1>1
  <2>2. \A j : j \in 1 .. (k - 1) <=> j \in 1 .. k /\ j # k
    BY <1>1
  <2>3. \A j \in 1 .. k : j # k => order[j] # order[k]
    BY <1>1, <2>1
  <2>4. Behind(order, k) \in SUBSET S /\ order[k] \in Behind(order, k)
    BY <1>1, <2>1 DEF Behind
  <2>5. \A x : x \in Behind(order, k - 1) <=> x \in Behind(order, k) \ {order[k]}
    BY <2>1, <2>2, <2>3 DEF Behind
  <2> QED  BY <2>4, <2>5
<1> QED  BY <1>2, <1>3, <1>4 DEF n
Made(a, b) == [open |-> TRUE, num |-> a, den |-> b]

LEMMA FactoredIs ==
    ASSUME NEW S, \A i \in S : i.factor.num \in Nat /\ i.factor.den \in Nat, NEW i \in S
    PROVE  /\ \A cost \in Entry : Factored(cost, i) \in Entry /\ Apply(cost, i) \in Entry
           /\ \A a, b \in Nat :
                 Factored(Made(a, b), i) = Made(Numerators(S)[i] * a, Denominators(S)[i] * b)
<1>1. i.factor.num \in Nat /\ i.factor.den \in Nat
  OBVIOUS
<1>2. \A a, b \in Nat : a * b \in Nat /\ a * b = b * a
  OBVIOUS
<1>3. ASSUME NEW cost \in Entry PROVE Factored(cost, i) \in Entry
  <2>1. /\ cost.open \in BOOLEAN /\ cost.num \in Nat /\ cost.den \in Nat
        /\ cost = [open |-> cost.open, num |-> cost.num, den |-> cost.den]
    BY DEF Entry
  <2>2. cost.num * i.factor.num \in Nat /\ cost.den * i.factor.den \in Nat
    BY <1>1, <1>2, <2>1
  <2> QED  BY <2>1, <2>2 DEF Entry, Factored
<1>4. ASSUME NEW cost \in Entry PROVE Apply(cost, i) \in Entry
  <2>1. Refused \in Entry
    BY DEF Refused, Entry
  <2> QED  BY <1>3, <2>1 DEF Apply
<1>5. ASSUME NEW a \in Nat, NEW b \in Nat
      PROVE Factored(Made(a, b), i) = Made(Numerators(S)[i] * a, Denominators(S)[i] * b)
  <2>1. CASE i.factor.num > 0
    <3>1. Numerators(S)[i] = i.factor.num /\ Denominators(S)[i] = i.factor.den
      BY <2>1 DEF Numerators, Denominators
    <3>2. Factored(Made(a, b), i) = Made(a * i.factor.num, b * i.factor.den)
      BY <2>1 DEF Factored, Made
    <3> QED  BY <1>1, <1>2, <3>1, <3>2
  <2>2. CASE ~ (i.factor.num > 0)
    <3>1. Numerators(S)[i] = 1 /\ Denominators(S)[i] = 1
      BY <2>2 DEF Numerators, Denominators
    <3>2. Factored(Made(a, b), i) = Made(a, b)
      BY <2>2 DEF Factored, Made
    <3>3. 1 * a = a /\ 1 * b = b
      OBVIOUS
    <3> QED  BY <3>1, <3>2, <3>3
  <2> QED  BY <2>1, <2>2
<1> QED  BY <1>3, <1>4, <1>5

LEMMA SpeedFactorIs ==
    ASSUME NEW S, IsFiniteSet(S), \A i \in S : i.factor.num \in Nat /\ i.factor.den \in Nat,
           NEW pn, IsProduct(pn, S, Numerators(S)),
           NEW pd, IsProduct(pd, S, Denominators(S)),
           NEW order \in Orders(S)
    PROVE  EffectiveSpeedFactor(order) = Made(pn[S], pd[S])
<1> DEFINE n == Len(order)
           eq(h) == [k \in 0 .. n |-> IF k = 0 THEN Base ELSE Factored(h[k - 1], order[k])]
           after == CHOOSE h : h = eq(h)
           step == [p \in (1 .. n) \X Entry |-> Factored(p[2], order[p[1]])]
<1>1. EffectiveSpeedFactor(order) = after[n]
  BY Zenon DEF EffectiveSpeedFactor
<1>2. n \in Nat /\ order \in [1 .. n -> S]
  BY OrderIs
<1>3. /\ Behind(order, 0) = {} /\ Behind(order, n) = S
      /\ \A k \in 1 .. n :
            /\ Behind(order, k) \in SUBSET S
            /\ order[k] \in Behind(order, k)
            /\ Behind(order, k - 1) = Behind(order, k) \ {order[k]}
  BY BehindIs
<1> HIDE DEF n
<1>4. step \in [(1 .. n) \X Entry -> Entry]
  BY <1>2, FactoredIs
<1>5. Base \in Entry
  BY DEF Base, Entry
<1>6. PICK f : Rounds(f, n, Entry, Base, step)
  <2> HIDE DEF step
  <2> QED  BY <1>2, <1>4, <1>5, RoundsExist
<1>7. /\ f \in [0 .. n -> Entry] /\ f[0] = Base
      /\ \A k \in 1 .. n : f[k] = Factored(f[k - 1], order[k])
  <2>1. ASSUME NEW k \in 1 .. n PROVE step[<<k, f[k - 1]>>] = Factored(f[k - 1], order[k])
    <3>1. k - 1 \in 0 .. n /\ f[k - 1] \in Entry
      BY <1>2, <1>6 DEF Rounds
    <3> QED  BY <3>1
  <2> QED  BY <1>6, <2>1 DEF Rounds
<1>8. f = eq(f)
  <2>1. \A k \in 0 .. n : k # 0 => k \in 1 .. n
    BY <1>2
  <2> QED  BY <1>7, <2>1
<1>9. after = eq(after)
  <2> HIDE DEF eq
  <2> QED  BY <1>8, Zenon
<1> HIDE DEF after, step
<1> DEFINE Right(k) == after[k] = Made(pn[Behind(order, k)], pd[Behind(order, k)])
           N == {k \in Nat : k <= n => Right(k)}
<1>10. 0 \in N
  <2>1. 0 \in 0 .. n /\ after[0] = Base
    BY <1>2, <1>9
  <2>2. pn[{}] = 1 /\ pd[{}] = 1
    BY DEF IsProduct
  <2> QED  BY <1>3, <2>1, <2>2 DEF Base, Made
<1>11. ASSUME NEW k \in Nat, k \in N PROVE k + 1 \in N
  <2> SUFFICES ASSUME k + 1 <= n PROVE Right(k + 1)
    OBVIOUS
  <2>1. k + 1 \in 1 .. n /\ (k + 1) - 1 = k /\ k + 1 \in 0 .. n /\ k + 1 # 0
    BY <1>2
  <2>2. after[k + 1] = Factored(after[k], order[k + 1])
    <3> HIDE DEF N
    <3> QED  BY <1>9, <2>1
  <2> DEFINE x == order[k + 1]
             T == Behind(order, k + 1)
             R == Behind(order, k)
  <2>3. x \in S /\ T \in SUBSET S /\ x \in T /\ R = T \ {x} /\ R \in SUBSET S
    <3>1. Behind(order, (k + 1) - 1) = T \ {x}
      BY <1>3, <2>1
    <3> QED  BY <1>2, <1>3, <2>1, <3>1
  <2>4. Right(k)
    BY <1>2, <1>11
  <2> HIDE DEF x, T, R
  <2>5. /\ pn[T] = Numerators(S)[x] * pn[R] /\ pn[R] \in Nat
        /\ pd[T] = Denominators(S)[x] * pd[R] /\ pd[R] \in Nat
    BY <2>3 DEF IsProduct
  <2>6. Factored(Made(pn[R], pd[R]), x) = Made(pn[T], pd[T])
    BY <2>3, <2>5, FactoredIs
  <2> QED  BY <2>2, <2>4, <2>6 DEF x, T, R
<1>12. Nat \subseteq N
  <2> HIDE DEF N
  <2> QED  BY <1>10, <1>11, SetInduction
<1>13. Right(n)
  BY <1>2, <1>12
<1> QED  BY <1>1, <1>3, <1>13

LEMMA ThroughIs ==
    ASSUME NEW S, IsFiniteSet(S), \A i \in S : i.factor.num \in Nat /\ i.factor.den \in Nat,
           NEW pn, IsProduct(pn, S, Numerators(S)),
           NEW pd, IsProduct(pd, S, Denominators(S)),
           NEW order \in Orders(S)
    PROVE  Through(order) = IF \E i \in S : i.closed THEN Refused ELSE Made(pn[S], pd[S])
<1> DEFINE n == Len(order)
           eq(h) == [k \in 0 .. n |-> IF k = 0 THEN Base ELSE Apply(h[k - 1], order[k])]
           after == CHOOSE h : h = eq(h)
           step == [p \in (1 .. n) \X Entry |-> Apply(p[2], order[p[1]])]
<1>1. Through(order) = after[n]
  BY Zenon DEF Through
<1>2. n \in Nat /\ order \in [1 .. n -> S]
  BY OrderIs
<1>3. /\ Behind(order, 0) = {} /\ Behind(order, n) = S
      /\ \A k \in 1 .. n :
            /\ Behind(order, k) \in SUBSET S
            /\ order[k] \in Behind(order, k)
            /\ Behind(order, k - 1) = Behind(order, k) \ {order[k]}
  BY BehindIs
<1> HIDE DEF n
<1>4. step \in [(1 .. n) \X Entry -> Entry]
  BY <1>2, FactoredIs
<1>5. Base \in Entry
  BY DEF Base, Entry
<1>6. PICK f : Rounds(f, n, Entry, Base, step)
  <2> HIDE DEF step
  <2> QED  BY <1>2, <1>4, <1>5, RoundsExist
<1>7. /\ f \in [0 .. n -> Entry] /\ f[0] = Base
      /\ \A k \in 1 .. n : f[k] = Apply(f[k - 1], order[k])
  <2>1. ASSUME NEW k \in 1 .. n PROVE step[<<k, f[k - 1]>>] = Apply(f[k - 1], order[k])
    <3>1. k - 1 \in 0 .. n /\ f[k - 1] \in Entry
      BY <1>2, <1>6 DEF Rounds
    <3> QED  BY <3>1
  <2> QED  BY <1>6, <2>1 DEF Rounds
<1>8. f = eq(f)
  <2>1. \A k \in 0 .. n : k # 0 => k \in 1 .. n
    BY <1>2
  <2> QED  BY <1>7, <2>1
<1>9. after = eq(after)
  <2> HIDE DEF eq
  <2> QED  BY <1>8, Zenon
<1> HIDE DEF after, step
<1> DEFINE Met(T) == IF \E i \in T : i.closed THEN Refused ELSE Made(pn[T], pd[T])
           Right(k) == after[k] = Met(Behind(order, k))
           N == {k \in Nat : k <= n => Right(k)}
<1>10. 0 \in N
  <2>1. 0 \in 0 .. n /\ after[0] = Base
    BY <1>2, <1>9
  <2>2. pn[{}] = 1 /\ pd[{}] = 1
    BY DEF IsProduct
  <2> QED  BY <1>3, <2>1, <2>2 DEF Base, Made
<1>11. ASSUME NEW k \in Nat, k \in N PROVE k + 1 \in N
  <2> SUFFICES ASSUME k + 1 <= n PROVE Right(k + 1)
    OBVIOUS
  <2>1. k + 1 \in 1 .. n /\ (k + 1) - 1 = k /\ k + 1 \in 0 .. n /\ k + 1 # 0
    BY <1>2
  <2>2. after[k + 1] = Apply(after[k], order[k + 1])
    <3> HIDE DEF N
    <3> QED  BY <1>9, <2>1
  <2> DEFINE x == order[k + 1]
             T == Behind(order, k + 1)
             R == Behind(order, k)
  <2>3. x \in S /\ T \in SUBSET S /\ x \in T /\ R = T \ {x} /\ R \in SUBSET S
    <3>1. Behind(order, (k + 1) - 1) = T \ {x}
      BY <1>3, <2>1
    <3> QED  BY <1>2, <1>3, <2>1, <3>1
  <2>4. Right(k)
    BY <1>2, <1>11
  <2> HIDE DEF x, T, R
  <2>5. /\ pn[T] = Numerators(S)[x] * pn[R] /\ pn[R] \in Nat
        /\ pd[T] = Denominators(S)[x] * pd[R] /\ pd[R] \in Nat
    BY <2>3 DEF IsProduct
  <2>6. Factored(Made(pn[R], pd[R]), x) = Made(pn[T], pd[T])
    BY <2>3, <2>5, FactoredIs
  <2>7. (\E i \in T : i.closed) <=> x.closed \/ \E i \in R : i.closed
    BY <2>3, Zenon
  <2>8. ~ Refused.open /\ Made(pn[R], pd[R]).open
    BY DEF Refused, Made
  <2>9. Apply(Met(R), x) = Met(T)
    BY <2>6, <2>7, <2>8 DEF Apply
  <2> QED  BY <2>2, <2>4, <2>9 DEF x, T, R
<1>12. Nat \subseteq N
  <2> HIDE DEF N
  <2> QED  BY <1>10, <1>11, SetInduction
<1>13. Right(n)
  BY <1>2, <1>12
<1> QED  BY <1>1, <1>3, <1>13

(* However often the source computes the cost of entering an edge, and in  *)
(* whatever order the incidents come, it computes one cost.                *)
LEMMA LoopsDoAgree ==
    ASSUME NEW network, WellFormed(network), NEW edge \in network.edges, NEW at, NEW request,
           IsExact(network, edge, at)
    PROVE  LoopsAgree(network, request, edge, at)
<1> DEFINE S == Affecting(network, edge, at)
<1>1. /\ IsFiniteSet(S) /\ edge.base \in Nat
      /\ \A i \in S : i.factor.num \in Nat /\ i.factor.den \in Nat
  BY FS_Subset DEF WellFormed, Affecting
<1>2. PICK A : A = S
  OBVIOUS
<1> SUFFICES ASSUME NEW order \in Orders(A), NEW aged \in Orders(A)
             PROVE
        LET cost == EffectiveCost(request, edge, at, order)
            calculated == CalculatorCost(aged)
        IN /\ cost.open <=> Allowed(network, request, edge, at)
           /\ cost.open <=> Eligible(request, edge, at, aged)
           /\ calculated.open <=> ~ SnapshotClosed(order)
           /\ cost.open =>
                 /\ calculated.open
                 /\ Scaled(edge, cost) = Seconds(network, edge, at)
                 /\ Scaled(edge, calculated) = Seconds(network, edge, at)
                 /\ Scaled(edge, EffectiveSpeedFactor(order)) = Seconds(network, edge, at)
  BY <1>2, Zenon DEF LoopsAgree, ByPriority, ByPriorityAndAge
<1>3. /\ IsFiniteSet(A)
      /\ \A i \in A : i.factor.num \in Nat /\ i.factor.den \in Nat
  BY <1>1, <1>2
<1>4. Numerators(A) \in [A -> Nat] /\ Denominators(A) \in [A -> Nat]
      /\ \A i \in A : Numerators(A)[i] > 0
  BY <1>3 DEF Numerators, Denominators
<1>5. PICK pn : IsProduct(pn, A, Numerators(A))
  BY <1>3, <1>4, Products
<1>6. PICK pd : IsProduct(pd, A, Denominators(A))
  BY <1>3, <1>4, Products
<1>7. pn[A] \in Nat /\ pn[A] > 0 /\ pd[A] \in Nat
  BY <1>3, <1>4, <1>5, <1>6, Positive DEF IsProduct
<1> DEFINE C == Made(pn[A], pd[A])
           Closed == \E i \in A : i.closed
<1>8. EffectiveSpeedFactor(order) = C
  BY <1>3, <1>5, <1>6, SpeedFactorIs
<1>9. /\ Through(order) = (IF Closed THEN Refused ELSE C)
      /\ Through(aged) = (IF Closed THEN Refused ELSE C)
  BY <1>3, <1>5, <1>6, ThroughIs
<1>10. edge.base % pn[A] = 0
  <2>1. edge.base % EffectiveSpeedFactor(order).num = 0
    BY <1>2, Zenon DEF IsExact
  <2>2. C.num = pn[A]
    BY DEF Made
  <2> QED  BY <1>8, <2>1, <2>2
<1> DEFINE q == edge.base \div pn[A]
<1>11. q \in Nat /\ edge.base = q * pn[A]
  BY <1>1, <1>7, <1>10, Divides
<1> HIDE DEF q, S
<1>12. Seconds(network, edge, at) = q * pd[A]
  BY <1>2, <1>5, <1>6, <1>11, SecondsAre DEF S
<1>13. Scaled(edge, C) = q * pd[A]
  <2>1. (edge.base * pd[A]) = (q * pd[A]) * pn[A]
    BY <1>7, <1>11
  <2>2. q * pd[A] \in Nat
    BY <1>7, <1>11
  <2>3. ((q * pd[A]) * pn[A]) \div pn[A] = q * pd[A]
    BY <1>7, <2>2, ExactDivision
  <2>4. C.num = pn[A] /\ C.den = pd[A]
    BY DEF Made
  <2> QED  BY <2>1, <2>3, <2>4 DEF Scaled
<1>14. C.open /\ ~ Refused.open
  BY DEF Made, Refused
<1> HIDE DEF C
<1>15. /\ (\E i \in DOMAIN order : order[i].closed) <=> Closed
       /\ (\A i \in DOMAIN aged : ~ aged[i].closed) <=> ~ Closed
  <2>1. ASSUME NEW o \in Orders(A) PROVE (\E i \in DOMAIN o : o[i].closed) <=> Closed
    <3>1. /\ o \in [1 .. Len(o) -> A]
          /\ \A x \in A : \E i \in 1 .. Len(o) : o[i] = x
      BY <1>3, OrderIs
    <3>2. DOMAIN o = 1 .. Len(o) /\ \A i \in 1 .. Len(o) : o[i] \in A
      BY <3>1
    <3> QED  BY <3>1, <3>2, Zenon
  <2> QED  BY <2>1, Zenon
<1> DEFINE Fit == Usable(request, edge, at)
<1>16. Allowed(network, request, edge, at) <=> Fit /\ ~ Closed
  BY <1>2, Zenon DEF Allowed, S
<1>17. Eligible(request, edge, at, aged) <=> Fit /\ ~ Closed
  BY <1>15, Zenon DEF Eligible
<1>18. SnapshotClosed(order) <=> Closed
  BY <1>15, Zenon DEF SnapshotClosed
<1>19. EffectiveCost(request, edge, at, order) = IF Fit /\ ~ Closed THEN C ELSE Refused
  BY <1>9 DEF EffectiveCost
<1>20. CalculatorCost(aged) = IF Closed THEN Refused ELSE C
  BY <1>9 DEF CalculatorCost
<1> HIDE DEF Closed, Fit
<1> QED  BY <1>8, <1>12, <1>13, <1>14, <1>16, <1>17, <1>18, <1>19, <1>20

===============================================================================
