--------------------------- MODULE CollectionLemmas ----------------------------
(***************************************************************************)
(* Facts about sequences and finite sets that the proofs of more than one  *)
(* component need.                                                         *)
(***************************************************************************)
EXTENDS Integers, SequencesExt, SequenceTheorems, FiniteSetTheorems, TLAPS

-------------------------------------------------------------------------------
(* Channels: sequences without repetitions                                 *)

(* Appending a new element keeps a sequence injective and adds it to the   *)
(* range.                                                                  *)
LEMMA AppendNew ==
    ASSUME NEW S, NEW s \in Seq(S), NEW x \in S, IsInjective(s), x \notin Range(s)
    PROVE  /\ IsInjective(Append(s, x))
           /\ Range(Append(s, x)) = Range(s) \union {x}
<1>1. /\ DOMAIN Append(s, x) = 1..(Len(s) + 1)
      /\ DOMAIN s = 1..Len(s)
      /\ Len(s) \in Nat
      /\ \A i \in 1..Len(s) : Append(s, x)[i] = s[i]
      /\ Append(s, x)[Len(s) + 1] = x
  OBVIOUS
<1>2. IsInjective(Append(s, x))
  BY <1>1 DEF IsInjective, Range
<1>3. \A y \in Range(Append(s, x)) : y \in Range(s) \union {x}
  BY <1>1 DEF Range
<1>4. \A y \in Range(s) \union {x} : y \in Range(Append(s, x))
  <2>1. \A i \in DOMAIN s : i \in DOMAIN Append(s, x) /\ Append(s, x)[i] = s[i]
    BY <1>1
  <2>2. Len(s) + 1 \in DOMAIN Append(s, x)
    BY <1>1
  <2> QED  BY <1>1, <2>1, <2>2 DEF Range
<1> QED  BY <1>2, <1>3, <1>4

LEMMA HeadTailTypes ==
    ASSUME NEW S, NEW s \in Seq(S), s # <<>>
    PROVE  Head(s) \in S /\ Tail(s) \in Seq(S)
  OBVIOUS

(* Taking the head of a sequence without repetitions takes it out of the   *)
(* range.                                                                  *)
LEMMA TailOfInjective ==
    ASSUME NEW S, NEW s \in Seq(S), s # <<>>, IsInjective(s)
    PROVE  /\ Head(s) \in Range(s)
           /\ Tail(s) \in Seq(S)
           /\ IsInjective(Tail(s))
           /\ Range(Tail(s)) = Range(s) \ {Head(s)}
<1>1. /\ DOMAIN Tail(s) = 1..(Len(s) - 1)
      /\ DOMAIN s = 1..Len(s)
      /\ Len(s) \in Nat \ {0}
      /\ Head(s) = s[1]
      /\ Tail(s) \in Seq(S)
      /\ \A i \in 1..(Len(s) - 1) : Tail(s)[i] = s[i + 1]
  OBVIOUS
<1>2. Head(s) \in Range(s)
  <2>1. 1 \in DOMAIN s
    BY <1>1
  <2> QED  BY <1>1, <2>1 DEF Range
<1>3. IsInjective(Tail(s))
  BY <1>1 DEF IsInjective
<1>4. ASSUME NEW y \in Range(Tail(s)) PROVE y \in Range(s) \ {Head(s)}
  <2>1. PICK i \in DOMAIN Tail(s) : y = Tail(s)[i]
    BY DEF Range
  <2>2. i + 1 \in DOMAIN s /\ y = s[i + 1] /\ i + 1 # 1 /\ 1 \in DOMAIN s
    BY <1>1, <2>1
  <2> QED  BY <1>1, <2>2 DEF Range, IsInjective
<1>5. ASSUME NEW y \in Range(s) \ {Head(s)} PROVE y \in Range(Tail(s))
  <2>1. PICK i \in DOMAIN s : y = s[i]
    BY DEF Range
  <2>2. i # 1
    BY <1>1, <2>1
  <2>3. i - 1 \in DOMAIN Tail(s) /\ y = Tail(s)[i - 1]
    BY <1>1, <2>1, <2>2
  <2> QED  BY <2>3 DEF Range
<1> QED  BY <1>1, <1>2, <1>3, <1>4, <1>5

-------------------------------------------------------------------------------
(* Sequences with one element more, or one less                            *)

(* The parts of a sequence before and after a position.                    *)
LEMMA Parts ==
    ASSUME NEW S, NEW s \in Seq(S), NEW p \in 0 .. Len(s), NEW q \in p .. Len(s)
    PROVE  /\ SubSeq(s, 1, p) \in Seq(S) /\ Len(SubSeq(s, 1, p)) = p
           /\ \A i \in 1 .. p : SubSeq(s, 1, p)[i] = s[i]
           /\ SubSeq(s, q + 1, Len(s)) \in Seq(S) /\ Len(SubSeq(s, q + 1, Len(s))) = Len(s) - q
           /\ \A i \in 1 .. (Len(s) - q) : SubSeq(s, q + 1, Len(s))[i] = s[q + i]
<1>1. Len(s) \in Nat /\ \A i \in 1 .. Len(s) : s[i] \in S
  OBVIOUS
<1>2. PICK n \in Nat : n = Len(s)
  BY <1>1
<1>3. p \in Int /\ q \in Int /\ p \in 0 .. n /\ q \in p .. n /\ 1 \in Int /\ q + 1 \in Int /\ n \in Int
  BY <1>2
<1>4. /\ \A i \in 1 .. p : s[i] \in S
      /\ \A i \in (q + 1) .. n : s[i] \in S
  BY <1>1, <1>2, <1>3
<1>5. /\ SubSeq(s, 1, p) \in Seq(S)
      /\ Len(SubSeq(s, 1, p)) = IF 1 <= p THEN p - 1 + 1 ELSE 0
      /\ \A i \in 1 .. (p - 1 + 1) : SubSeq(s, 1, p)[i] = s[1 + i - 1]
  BY <1>3, <1>4, SubSeqProperties
<1>6. /\ SubSeq(s, q + 1, n) \in Seq(S)
      /\ Len(SubSeq(s, q + 1, n)) = IF q + 1 <= n THEN n - (q + 1) + 1 ELSE 0
      /\ \A i \in 1 .. (n - (q + 1) + 1) : SubSeq(s, q + 1, n)[i] = s[(q + 1) + i - 1]
  BY <1>3, <1>4, SubSeqProperties
<1>7. /\ p - 1 + 1 = p /\ \A i \in 1 .. p : 1 + i - 1 = i
      /\ n - (q + 1) + 1 = n - q /\ \A i \in 1 .. (n - q) : (q + 1) + i - 1 = q + i
      /\ 1 <= p \/ p = 0
      /\ q + 1 <= n \/ n - q = 0
  BY <1>3
<1> QED  BY <1>2, <1>5, <1>6, <1>7

(* "new" is a sequence over S, s with x put behind the first p.            *)
IsInsertion(S, new, s, p, x) ==
    /\ new \in Seq(S)
    /\ Len(new) = Len(s) + 1
    /\ \A i \in 1 .. p : new[i] = s[i]
    /\ new[p + 1] = x
    /\ \A i \in (p + 2) .. (Len(s) + 1) : new[i] = s[i - 1]

LEMMA Inserted ==
    ASSUME NEW S, NEW s \in Seq(S), NEW p \in 0 .. Len(s), NEW x \in S
    PROVE  IsInsertion(S, InsertAt(s, p + 1, x), s, p, x)
<1> DEFINE n == Len(s)
           front == SubSeq(s, 1, p)
           back == SubSeq(s, p + 1, Len(s))
           one == <<x>>
           head == front \o one
           new == head \o back
<1>1. InsertAt(s, p + 1, x) = new
  <2>1. (p + 1) - 1 = p
    OBVIOUS
  <2> QED  BY <2>1 DEF InsertAt
<1>2. n \in Nat /\ p \in 0 .. n /\ p \in p .. Len(s)
  OBVIOUS
<1>3. /\ front \in Seq(S) /\ Len(front) = p
      /\ \A i \in 1 .. p : front[i] = s[i]
      /\ back \in Seq(S) /\ Len(back) = n - p
      /\ \A i \in 1 .. (n - p) : back[i] = s[p + i]
  BY <1>2, Parts, Zenon
<1>4. one \in Seq(S) /\ Len(one) = 1 /\ one[1] = x
  OBVIOUS
<1> HIDE DEF n, front, back, one
<1>5. /\ head \in Seq(S) /\ Len(head) = Len(front) + Len(one)
      /\ \A i \in 1 .. Len(front) : head[i] = front[i]
      /\ \A i \in 1 .. Len(one) : head[Len(front) + i] = one[i]
  <2>1. front \in Seq(S) /\ one \in Seq(S)
    BY <1>3, <1>4
  <2> QED  BY <2>1
<1> HIDE DEF head
<1>6. /\ new \in Seq(S) /\ Len(new) = Len(head) + Len(back)
      /\ \A i \in 1 .. Len(head) : new[i] = head[i]
      /\ \A i \in 1 .. Len(back) : new[Len(head) + i] = back[i]
  <2>1. head \in Seq(S) /\ back \in Seq(S)
    BY <1>3, <1>5
  <2> QED  BY <2>1
<1> HIDE DEF new
<1>7. Len(head) = p + 1
  BY <1>2, <1>3, <1>4, <1>5
<1>8. Len(new) = n + 1
  BY <1>2, <1>3, <1>6, <1>7
<1>9. ASSUME NEW i \in 1 .. p PROVE new[i] = s[i]
  <2>1. i \in 1 .. Len(head) /\ i \in 1 .. Len(front)
    BY <1>2, <1>3, <1>7
  <2> QED  BY <1>3, <1>5, <1>6, <2>1
<1>10. new[p + 1] = x
  <2>1. p + 1 \in 1 .. Len(head) /\ 1 \in 1 .. Len(one) /\ p + 1 = Len(front) + 1
    BY <1>2, <1>3, <1>4, <1>7
  <2> QED  BY <1>4, <1>5, <1>6, <2>1
<1>11. ASSUME NEW i \in (p + 2) .. (n + 1) PROVE new[i] = s[i - 1]
  <2>1. i - p - 1 \in 1 .. Len(back) /\ Len(head) + (i - p - 1) = i /\ p + (i - p - 1) = i - 1
    BY <1>2, <1>3, <1>7
  <2>2. new[i] = back[i - p - 1] /\ back[i - p - 1] = s[i - 1]
    BY <1>2, <1>3, <1>6, <2>1
  <2> QED  BY <2>2
<1> QED  BY <1>1, <1>6, <1>8, <1>9, <1>10, <1>11, Zenon DEF n, IsInsertion

(* "new" is a sequence over S, s without its element at p.                 *)
IsRemoval(S, new, s, p) ==
    /\ new \in Seq(S)
    /\ Len(new) = Len(s) - 1
    /\ \A i \in 1 .. (p - 1) : new[i] = s[i]
    /\ \A i \in p .. (Len(s) - 1) : new[i] = s[i + 1]

LEMMA Removed ==
    ASSUME NEW S, NEW s \in Seq(S), NEW p \in 1 .. Len(s)
    PROVE  IsRemoval(S, RemoveAt(s, p), s, p)
<1> DEFINE n == Len(s)
           front == SubSeq(s, 1, p - 1)
           back == SubSeq(s, p + 1, Len(s))
           new == front \o back
<1>1. RemoveAt(s, p) = new
  BY DEF RemoveAt
<1>2. n \in Nat /\ p \in 1 .. n /\ p - 1 \in 0 .. Len(s) /\ p \in (p - 1) .. Len(s)
  OBVIOUS
<1>3. /\ front \in Seq(S) /\ Len(front) = p - 1
      /\ \A i \in 1 .. (p - 1) : front[i] = s[i]
      /\ back \in Seq(S) /\ Len(back) = n - p
      /\ \A i \in 1 .. (n - p) : back[i] = s[p + i]
  BY <1>2, Parts, Zenon
<1> HIDE DEF n, front, back
<1>4. /\ new \in Seq(S) /\ Len(new) = Len(front) + Len(back)
      /\ \A i \in 1 .. Len(front) : new[i] = front[i]
      /\ \A i \in 1 .. Len(back) : new[Len(front) + i] = back[i]
  <2>1. front \in Seq(S) /\ back \in Seq(S)
    BY <1>3
  <2> QED  BY <2>1
<1> HIDE DEF new
<1>5. Len(new) = n - 1
  BY <1>2, <1>3, <1>4
<1>6. \A i \in 1 .. (p - 1) : new[i] = s[i]
  BY <1>2, <1>3, <1>4
<1>7. ASSUME NEW i \in p .. (n - 1) PROVE new[i] = s[i + 1]
  <2>1. i - p + 1 \in 1 .. Len(back) /\ Len(front) + (i - p + 1) = i /\ p + (i - p + 1) = i + 1
    BY <1>2, <1>3
  <2>2. new[i] = back[i - p + 1] /\ back[i - p + 1] = s[i + 1]
    BY <1>2, <1>3, <1>4, <2>1
  <2> QED  BY <2>2
<1> QED  BY <1>1, <1>4, <1>5, <1>6, <1>7, Zenon DEF n, IsRemoval

-------------------------------------------------------------------------------
(* Least and greatest numbers                                              *)

(* A set of natural numbers that is not empty has a least one.             *)
LEMMA LeastNumber ==
    ASSUME NEW S, S \subseteq Nat, S # {}
    PROVE  Min(S) \in S /\ \A x \in S : Min(S) <= x
<1> DEFINE R == OpToRel(<, Nat)
<1>1. IsWellFoundedOn(R, Nat)
  BY NatLessThanWellFounded
<1>2. PICK m \in S : \A y \in S : ~ (<<y, m>> \in R)
  BY <1>1, WFMin
<1>3. ASSUME NEW x \in Nat, NEW y \in Nat, x < y PROVE <<x, y>> \in R
  BY <1>3, Zenon DEF OpToRel
<1>4. \A y \in S : m <= y
  <2> HIDE DEF R
  <2>1. \A y \in S : ~ (y < m)
    BY <1>2, <1>3, Zenon
  <2> QED  BY <2>1
<1> QED  BY <1>4 DEF Min

(* A set of natural numbers with a bound has a greatest one.               *)
LEMMA GreatestNumber ==
    ASSUME NEW S, NEW n \in Nat, S \subseteq 0 .. n, S # {}
    PROVE  Max(S) \in S /\ \A x \in S : x <= Max(S)
<1> DEFINE T == {n - x : x \in S}
<1>1. T \subseteq Nat /\ T # {}
  <2>1. \A x \in S : x \in Nat /\ n - x \in Nat
    OBVIOUS
  <2> QED  BY <2>1
<1>2. Min(T) \in T /\ \A y \in T : Min(T) <= y
  BY <1>1, LeastNumber
<1>3. PICK m \in S : Min(T) = n - m
  BY <1>2
<1>4. \A x \in S : n - m <= n - x
  BY <1>2, <1>3
<1>5. \A x \in S : x <= m
  BY <1>4
<1> QED  BY <1>5 DEF Max

===============================================================================
