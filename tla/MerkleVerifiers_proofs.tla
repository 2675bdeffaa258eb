----------------------- MODULE MerkleVerifiers_proofs -----------------------
(***************************************************************************)
(* Theorems about MerkleVerifiers, for logs of any length.                 *)
(*                                                                         *)
(* The tree, the audit paths and the loop that skips levels are recursive  *)
(* functions, so it is first shown that they satisfy the equations that    *)
(* define them.  Each time there is a function that does so up to any size *)
(* (the smallest size without one leads to a contradiction), any two such  *)
(* functions agree, and together they are the function sought.             *)
(***************************************************************************)
EXTENDS MerkleVerifiers, FiniteSetTheorems, SequenceTheorems,
        WellFoundedInduction, TLAPS

(* Induction, in the form that is used here: every non-empty set of natural
   numbers has a least element.  The intervals 1..n are ordered as their ends
   are, and strict inclusion is well-founded on finite sets. *)
LEMMA Least ==
    ASSUME NEW T \in SUBSET Nat, T # {}
    PROVE  \E n \in T : \A m \in T : n <= m
<1> DEFINE I == {1 .. n : n \in T}
<1>1. IsWellFoundedOn(StrictSubsetOrdering(Nat), FiniteSubsetsOf(Nat))
  BY FS_StrictSubsetOrderingWellFounded
<1>2. \A n \in Nat : 1 .. n \in FiniteSubsetsOf(Nat)
  BY FS_Interval DEF FiniteSubsetsOf
<1>3. I \subseteq FiniteSubsetsOf(Nat) /\ I # {}
  BY <1>2
<1>4. \E x \in I : \A y \in I : ~ (<<y, x>> \in StrictSubsetOrdering(Nat))
  <2> HIDE DEF I
  <2>1. QED
    BY <1>1, <1>3, WFMin
<1>5. PICK n \in T : \A y \in I : ~ (<<y, 1 .. n>> \in StrictSubsetOrdering(Nat))
  BY <1>4
<1>6. ASSUME NEW m \in T, m < n
      PROVE  FALSE
  <2>1. n \in 1 .. n /\ n \notin 1 .. m
    BY <1>6
  <2>2. 1 .. m \subseteq 1 .. n /\ 1 .. m # 1 .. n
    BY <1>6, <2>1
  <2>3. <<1 .. m, 1 .. n>> \in StrictSubsetOrdering(Nat)
    BY <2>2 DEF StrictSubsetOrdering
  <2>4. QED
    BY <1>5, <2>3
<1>7. QED
  BY <1>6

(* A set that has each number whose smaller numbers it has has them all. *)
LEMMA Induction ==
    ASSUME NEW S, \A n \in Nat : (\A m \in 0 .. n - 1 : m \in S) => n \in S
    PROVE  Nat \subseteq S
<1> SUFFICES ASSUME Nat \ S # {}
             PROVE  FALSE
  OBVIOUS
<1>1. PICK n \in Nat \ S : \A m \in Nat \ S : n <= m
  BY Least
<1>2. \A m \in 0 .. n - 1 : m \in S
  BY <1>1
<1>3. QED
  BY <1>2

(* A non-empty set of numbers with a bound has a greatest element. *)
LEMMA Greatest ==
    ASSUME NEW b \in Nat, NEW T \in SUBSET (0 .. b), T # {}
    PROVE  \E n \in T : \A m \in T : m <= n
<1> DEFINE U == {b - n : n \in T}
<1>1. U \in SUBSET Nat /\ U # {}
  <2>1. \A n \in T : n \in 0 .. b
    OBVIOUS
  <2>2. \A n \in T : b - n \in Nat
    BY <2>1
  <2>3. QED
    BY <2>2
<1>2. PICK u \in U : \A v \in U : u <= v
  <2> HIDE DEF U
  <2>1. QED
    BY <1>1, Least
<1>3. PICK n \in T : u = b - n
  BY <1>2
<1>4. \A m \in T : b - m \in U
  OBVIOUS
<1>5. \A m \in T : b - n <= b - m
  BY <1>2, <1>3, <1>4
<1>6. QED
  BY <1>5

-----------------------------------------------------------------------------
(* The highest bit. *)

HighBitStep(f, n) == IF n = 1 THEN 1 ELSE 2 * f[n \div 2]

HighBitUpTo(f, k) == f = [n \in 1 .. k |-> HighBitStep(f, n)]

LEMMA HighBitExists ==
    ASSUME NEW k \in Nat
    PROVE  \E f : HighBitUpTo(f, k)
<1> DEFINE S == {n \in Nat : \E f : HighBitUpTo(f, n)}
<1>1. ASSUME NEW n \in Nat, \A m \in 0 .. n - 1 : m \in S
      PROVE  n \in S
  <2>1. CASE n = 0
    <3> DEFINE f == [i \in 1 .. 0 |-> HighBitStep(<<>>, i)]
    <3>1. HighBitUpTo(f, 0)
      BY DEF HighBitUpTo
    <3>2. QED
      BY <2>1, <3>1
  <2>2. CASE n > 0
    <3>1. n - 1 \in S
      BY <1>1, <2>2
    <3>2. PICK f : HighBitUpTo(f, n - 1)
      BY <3>1
    <3> DEFINE g == [i \in 1 .. n |-> HighBitStep(f, i)]
    <3>3. \A i \in 1 .. n - 1 : f[i] = g[i]
      BY <3>2 DEF HighBitUpTo
    <3>4. \A i \in 1 .. n : HighBitStep(f, i) = HighBitStep(g, i)
      <4> HIDE DEF g
      <4>1. \A i \in 1 .. n : i # 1 => i \div 2 \in 1 .. n - 1
        BY <2>2
      <4>2. QED
        BY <3>3, <4>1 DEF HighBitStep
    <3>5. HighBitUpTo(g, n)
      BY <3>4 DEF HighBitUpTo
    <3>6. QED
      BY <3>5
  <2>3. QED
    BY <2>1, <2>2
<1>2. Nat \subseteq S
  <2> HIDE DEF S
  <2>1. QED
    BY <1>1, Induction
<1>3. QED
  BY <1>2

LEMMA HighBitUnique ==
    ASSUME NEW k \in Nat, NEW m \in Nat, NEW f, NEW g,
           HighBitUpTo(f, k), HighBitUpTo(g, m)
    PROVE  \A n \in 1 .. k : n <= m => f[n] = g[n]
<1> DEFINE S == {n \in Nat : n \in 1 .. k /\ n <= m => f[n] = g[n]}
<1>1. ASSUME NEW n \in Nat, \A i \in 0 .. n - 1 : i \in S
      PROVE  n \in S
  <2> SUFFICES ASSUME n \in 1 .. k, n <= m
               PROVE  f[n] = g[n]
    OBVIOUS
  <2>1. n # 1 => n \div 2 \in 0 .. n - 1 /\ n \div 2 \in 1 .. k /\ n \div 2 <= m
    OBVIOUS
  <2>2. n # 1 => f[n \div 2] = g[n \div 2]
    BY <1>1, <2>1
  <2>3. f[n] = HighBitStep(f, n) /\ g[n] = HighBitStep(g, n)
    <3>1. n \in 1 .. k /\ n \in 1 .. m
      OBVIOUS
    <3> HIDE DEF S
    <3>2. QED
      BY <3>1, Zenon DEF HighBitUpTo
  <2>4. QED
    BY <2>2, <2>3 DEF HighBitStep
<1>2. Nat \subseteq S
  <2> HIDE DEF S
  <2>1. QED
    BY <1>1, Induction
<1>3. QED
  BY <1>2

(* highBit satisfies its equation. *)
LEMMA HighBitEquation ==
    ASSUME NEW n \in Nat \ {0}
    PROVE  highBit[n] = IF n = 1 THEN 1 ELSE 2 * highBit[n \div 2]
<1> DEFINE UpTo(k) == CHOOSE f : HighBitUpTo(f, k)
           F == [k \in Nat \ {0} |-> UpTo(k)[k]]
<1>1. \A k \in Nat : HighBitUpTo(UpTo(k), k)
  BY HighBitExists
<1>2. ASSUME NEW k \in Nat \ {0}
      PROVE  F[k] = HighBitStep(F, k)
  <2>1. F[k] = UpTo(k)[k]
    OBVIOUS
  <2>2. UpTo(k)[k] = HighBitStep(UpTo(k), k)
    <3> HIDE DEF UpTo
    <3>1. QED
      BY <1>1 DEF HighBitUpTo
  <2>3. k # 1 => F[k \div 2] = UpTo(k)[k \div 2]
    <3>1. k # 1 => k \div 2 \in Nat \ {0} /\ k \div 2 <= k
      OBVIOUS
    <3>2. k # 1 => F[k \div 2] = UpTo(k \div 2)[k \div 2]
      BY <3>1
    <3> HIDE DEF UpTo, F
    <3>3. k # 1 => UpTo(k \div 2)[k \div 2] = UpTo(k)[k \div 2]
      BY <1>1, <3>1, HighBitUnique
    <3>4. QED
      BY <3>2, <3>3
  <2> HIDE DEF F, UpTo
  <2>4. QED
    BY <2>1, <2>2, <2>3 DEF HighBitStep
<1>3. F = [k \in Nat \ {0} |-> HighBitStep(F, k)]
  BY <1>2
<1> HIDE DEF F
<1>4. highBit = [k \in Nat \ {0} |-> HighBitStep(highBit, k)]
  BY <1>3 DEF highBit, HighBitStep
<1>5. highBit[n] = HighBitStep(highBit, n)
  BY <1>4
<1>6. QED
  BY <1>5 DEF HighBitStep

LEMMA HighBitRange ==
    ASSUME NEW n \in Nat \ {0}
    PROVE  /\ highBit[n] \in Nat \ {0}
           /\ highBit[n] <= n
           /\ n < 2 * highBit[n]
<1> DEFINE Good(i) == highBit[i] \in Nat \ {0} /\ highBit[i] <= i /\ i < 2 * highBit[i]
           S == {i \in Nat : i # 0 => Good(i)}
<1>1. ASSUME NEW i \in Nat, \A j \in 0 .. i - 1 : j \in S
      PROVE  i \in S
  <2> SUFFICES ASSUME i # 0
               PROVE  Good(i)
    OBVIOUS
  <2>1. CASE i = 1
    BY <2>1, HighBitEquation
  <2>2. CASE i # 1
    <3>1. i \div 2 \in 0 .. i - 1 /\ i \div 2 # 0
      BY <2>2
    <3>2. Good(i \div 2)
      BY <1>1, <3>1
    <3>3. highBit[i] = 2 * highBit[i \div 2]
      BY <2>2, HighBitEquation
    <3>4. QED
      BY <3>2, <3>3
  <2>3. QED
    BY <2>1, <2>2
<1>2. Nat \subseteq S
  <2> HIDE DEF S
  <2>1. QED
    BY <1>1, Induction
<1>3. QED
  BY <1>2

(* The powers of two: the widths of the subtrees. *)
Width == {highBit[n] : n \in Nat \ {0}}

LEMMA WidthType ==
    /\ Width \subseteq Nat \ {0}
    /\ 1 \in Width
    /\ \A w \in Width : 2 * w \in Width
<1>1. Width \subseteq Nat \ {0}
  BY HighBitRange DEF Width
<1>2. highBit[1] = 1
  BY HighBitEquation
<1>3. ASSUME NEW n \in Nat \ {0}
      PROVE  2 * highBit[n] \in Width
  <2>1. 2 * n \in Nat \ {0} /\ 2 * n # 1 /\ (2 * n) \div 2 = n
    OBVIOUS
  <2>2. highBit[2 * n] = 2 * highBit[n]
    BY <2>1, HighBitEquation
  <2>3. QED
    BY <2>1, <2>2 DEF Width
<1>4. QED
  BY <1>1, <1>2, <1>3 DEF Width

(* The highest bit is the one power of two between a number and its half. *)
LEMMA HighBitIs ==
    ASSUME NEW w \in Width, NEW m \in Nat, w <= m, m < 2 * w
    PROVE  highBit[m] = w
<1> DEFINE S == {i \in Nat : \A v \in Width : v <= i /\ i < 2 * v => highBit[i] = v}
<1>1. ASSUME NEW i \in Nat, \A j \in 0 .. i - 1 : j \in S
      PROVE  i \in S
  <2> SUFFICES ASSUME NEW v \in Width, v <= i, i < 2 * v
               PROVE  highBit[i] = v
    OBVIOUS
  <2>0. v \in Nat \ {0}
    BY WidthType
  <2>1. PICK n \in Nat \ {0} : v = highBit[n]
    BY DEF Width
  <2>2. CASE n = 1
    <3>1. v = 1 /\ i = 1
      BY <2>0, <2>1, <2>2, HighBitEquation
    <3>2. QED
      BY <2>1, <2>2, <3>1
  <2>3. CASE n # 1
    <3>1. n \div 2 \in Nat \ {0}
      BY <2>3
    <3> DEFINE u == highBit[n \div 2]
    <3>2. v = 2 * u /\ u \in Width
      BY <2>1, <2>3, <3>1, HighBitEquation DEF Width
    <3>3. u \in Nat \ {0}
      BY <3>2, WidthType
    <3> HIDE DEF u
    <3>4. /\ i \div 2 \in 0 .. i - 1
          /\ u <= i \div 2
          /\ i \div 2 < 2 * u
          /\ i # 1 /\ i # 0
      BY <3>2, <3>3
    <3>5. i \div 2 \in S
      BY <1>1, <3>4
    <3>6. highBit[i \div 2] = u
      BY <3>2, <3>4, <3>5
    <3>7. highBit[i] = 2 * highBit[i \div 2]
      BY <3>4, HighBitEquation
    <3>8. QED
      BY <3>2, <3>6, <3>7
  <2>4. QED
    BY <2>2, <2>3
<1>2. Nat \subseteq S
  <2> HIDE DEF S
  <2>1. QED
    BY <1>1, Induction
<1>3. QED
  BY <1>2

LEMMA SplitIs ==
    ASSUME NEW w \in Width, NEW size \in Nat, w < size, size <= 2 * w
    PROVE  Split(size) = w
<1>1. w \in Nat \ {0}
  BY WidthType
<1>2. size - 1 \in Nat /\ w <= size - 1 /\ size - 1 < 2 * w
  BY <1>1
<1>3. QED
  BY <1>2, HighBitIs DEF Split

(* A tree of two leaves or more is split into two that are not empty. *)
LEMMA Halves ==
    ASSUME NEW e \in Seq(Entry), Len(e) > 1
    PROVE  /\ Split(Len(e)) \in 1 .. Len(e) - 1
           /\ Left(e) \in Seq(Entry) \ {<<>>}
           /\ Right(e) \in Seq(Entry) \ {<<>>}
           /\ Len(Left(e)) = Split(Len(e))
           /\ Len(Right(e)) = Len(e) - Split(Len(e))
<1> DEFINE k == Split(Len(e))
<1>1. Len(e) \in Nat
  BY LenProperties
<1>2. Len(e) - 1 \in Nat \ {0}
  <2>1. \A n \in Nat : n > 1 => n - 1 \in Nat \ {0}
    OBVIOUS
  <2>2. QED
    BY <1>1, <2>1
<1>3. k \in 1 .. Len(e) - 1
  BY <1>2, HighBitRange DEF Split
<1> HIDE DEF k
<1>4. \A i \in 1 .. Len(e) : e[i] \in Entry
  BY ElementOfSeq
<1>5. SubSeq(e, 1, k) \in Seq(Entry) /\ Len(SubSeq(e, 1, k)) = k
  <2>1. 1 \in Int /\ k \in Int /\ \A i \in 1 .. k : e[i] \in Entry
    BY <1>1, <1>3, <1>4
  <2>2. /\ SubSeq(e, 1, k) \in Seq(Entry)
        /\ Len(SubSeq(e, 1, k)) = IF 1 <= k THEN k - 1 + 1 ELSE 0
    BY <2>1, SubSeqProperties
  <2>3. QED
    BY <1>3, <2>2
<1>6. /\ SubSeq(e, k + 1, Len(e)) \in Seq(Entry)
      /\ Len(SubSeq(e, k + 1, Len(e))) = Len(e) - k
  <2>1. k + 1 \in Int /\ Len(e) \in Int /\ \A i \in k + 1 .. Len(e) : e[i] \in Entry
    BY <1>1, <1>3, <1>4
  <2>2. /\ SubSeq(e, k + 1, Len(e)) \in Seq(Entry)
        /\ Len(SubSeq(e, k + 1, Len(e))) =
              IF k + 1 <= Len(e) THEN Len(e) - (k + 1) + 1 ELSE 0
    BY <2>1, SubSeqProperties
  <2>3. QED
    BY <1>1, <1>3, <2>2
<1>7. SubSeq(e, 1, k) # <<>> /\ SubSeq(e, k + 1, Len(e)) # <<>>
  <2>1. Len(<<>>) = 0
    OBVIOUS
  <2>2. k # 0 /\ Len(e) - k # 0
    BY <1>1, <1>3
  <2>3. QED
    BY <1>5, <1>6, <2>1, <2>2
<1>8. QED
  BY <1>3, <1>5, <1>6, <1>7 DEF Left, Right, k

-----------------------------------------------------------------------------
(* The root. *)

Logged == Seq(Entry) \ {<<>>}

NoLonger(k) == {e \in Seq(Entry) : Len(e) <= k}

RootStep(f, e) ==
    IF e = <<>> THEN EmptyHash
    ELSE IF Len(e) = 1 THEN LeafHash(e[1])
    ELSE NodeHash(f[Left(e)], f[Right(e)])

RootUpTo(f, k) == f = [e \in NoLonger(k) |-> RootStep(f, e)]

(* The two halves are shorter. *)
LEMMA HalvesShorter ==
    ASSUME NEW e \in Seq(Entry), e # <<>>, Len(e) # 1, NEW k \in Nat, Len(e) <= k
    PROVE  /\ k # 0
           /\ Left(e) \in NoLonger(k - 1) /\ Left(e) \in Logged
           /\ Right(e) \in NoLonger(k - 1) /\ Right(e) \in Logged
<1>1. Len(e) \in Nat \ {0}
  BY EmptySeq
<1>2. Len(e) > 1
  <2>1. \A n \in Nat \ {0} : n # 1 => n > 1
    OBVIOUS
  <2>2. QED
    BY <1>1, <2>1
<1> DEFINE s == Split(Len(e))
<1>3. /\ s \in 1 .. Len(e) - 1
      /\ Left(e) \in Logged
      /\ Right(e) \in Logged
      /\ Len(Left(e)) = s
      /\ Len(Right(e)) = Len(e) - s
  BY <1>2, Halves DEF Logged
<1> HIDE DEF s
<1>4. s <= k - 1 /\ Len(e) - s <= k - 1 /\ k # 0
  BY <1>1, <1>3
<1>5. QED
  BY <1>3, <1>4 DEF NoLonger, Logged

LEMMA RootExists ==
    ASSUME NEW k \in Nat
    PROVE  \E f : RootUpTo(f, k)
<1> DEFINE S == {n \in Nat : \E f : RootUpTo(f, n)}
<1>1. ASSUME NEW n \in Nat, \A m \in 0 .. n - 1 : m \in S
      PROVE  n \in S
  <2> DEFINE h == CHOOSE f : RootUpTo(f, n - 1)
             g == [e \in NoLonger(n) |-> RootStep(h, e)]
  <2>1. n # 0 => RootUpTo(h, n - 1)
    <3>1. n # 0 => n - 1 \in 0 .. n - 1
      OBVIOUS
    <3>2. QED
      BY <1>1, <3>1
  <2> HIDE DEF h
  <2>2. \A e \in NoLonger(n) : g[e] = RootStep(h, e)
    OBVIOUS
  <2> HIDE DEF S
  <2>3. n # 0 => \A e \in NoLonger(n - 1) : h[e] = g[e]
    <3>1. n # 0 => NoLonger(n - 1) \subseteq NoLonger(n)
      BY LenProperties DEF NoLonger
    <3>2. n # 0 => \A e \in NoLonger(n - 1) : h[e] = RootStep(h, e)
      BY <2>1, Zenon DEF RootUpTo
    <3> HIDE DEF g
    <3>3. QED
      BY <2>2, <3>1, <3>2
  <2>4. \A e \in NoLonger(n) : RootStep(h, e) = RootStep(g, e)
    <3> HIDE DEF g
    <3> SUFFICES ASSUME NEW e \in NoLonger(n)
                 PROVE  RootStep(h, e) = RootStep(g, e)
      OBVIOUS
    <3>1. CASE e = <<>> \/ Len(e) = 1
      BY <3>1 DEF RootStep
    <3>2. CASE e # <<>> /\ Len(e) # 1
      <4>1. n # 0 /\ Left(e) \in NoLonger(n - 1) /\ Right(e) \in NoLonger(n - 1)
        BY <3>2, HalvesShorter DEF NoLonger
      <4>2. h[Left(e)] = g[Left(e)] /\ h[Right(e)] = g[Right(e)]
        BY <2>3, <4>1
      <4>3. QED
        BY <4>2 DEF RootStep
    <3>3. QED
      BY <3>1, <3>2
  <2>5. RootUpTo(g, n)
    BY <2>4, Zenon DEF RootUpTo
  <2>6. QED
    BY <2>5 DEF S
<1>2. Nat \subseteq S
  <2> HIDE DEF S
  <2>1. QED
    BY <1>1, Induction
<1>3. QED
  BY <1>2

LEMMA RootUnique ==
    ASSUME NEW k \in Nat, NEW m \in Nat, NEW f, NEW g,
           RootUpTo(f, k), RootUpTo(g, m)
    PROVE  \A e \in NoLonger(k) : e \in NoLonger(m) => f[e] = g[e]
<1> DEFINE S == {n \in Nat : \A e \in NoLonger(n) :
                    e \in NoLonger(k) /\ e \in NoLonger(m) => f[e] = g[e]}
<1>1. ASSUME NEW n \in Nat, \A i \in 0 .. n - 1 : i \in S
      PROVE  n \in S
  <2> SUFFICES ASSUME NEW e \in NoLonger(n), e \in NoLonger(k), e \in NoLonger(m)
               PROVE  f[e] = g[e]
    OBVIOUS
  <2>1. f[e] = RootStep(f, e) /\ g[e] = RootStep(g, e)
    <3> HIDE DEF S
    <3>1. QED
      BY Zenon DEF RootUpTo
  <2>2. CASE e = <<>> \/ Len(e) = 1
    BY <2>1, <2>2 DEF RootStep
  <2>3. CASE e # <<>> /\ Len(e) # 1
    <3>1. /\ n # 0
          /\ Left(e) \in NoLonger(n - 1) /\ Right(e) \in NoLonger(n - 1)
      BY <2>3, HalvesShorter DEF NoLonger
    <3>2. /\ k # 0
          /\ Left(e) \in NoLonger(k - 1) /\ Right(e) \in NoLonger(k - 1)
      BY <2>3, HalvesShorter DEF NoLonger
    <3>3. /\ m # 0
          /\ Left(e) \in NoLonger(m - 1) /\ Right(e) \in NoLonger(m - 1)
      BY <2>3, HalvesShorter DEF NoLonger
    <3>4. /\ Left(e) \in NoLonger(k) /\ Left(e) \in NoLonger(m)
          /\ Right(e) \in NoLonger(k) /\ Right(e) \in NoLonger(m)
      BY <3>2, <3>3, LenProperties DEF NoLonger
    <3>5. n - 1 \in S
      BY <1>1, <3>1
    <3>6. f[Left(e)] = g[Left(e)] /\ f[Right(e)] = g[Right(e)]
      BY <3>1, <3>4, <3>5
    <3>7. QED
      BY <2>1, <3>6 DEF RootStep
  <2>4. QED
    BY <2>2, <2>3
<1>2. Nat \subseteq S
  <2> HIDE DEF S
  <2>1. QED
    BY <1>1, Induction
<1>3. ASSUME NEW e \in NoLonger(k), e \in NoLonger(m)
      PROVE  f[e] = g[e]
  <2>1. k \in S
    BY <1>2
  <2>2. QED
    BY <1>3, <2>1
<1>4. QED
  BY <1>3

(* root satisfies its equation. *)
LEMMA RootEquation ==
    ASSUME NEW e \in Seq(Entry)
    PROVE  root[e] = RootStep(root, e)
<1> DEFINE UpTo(k) == CHOOSE f : RootUpTo(f, k)
           F == [s \in Seq(Entry) |-> UpTo(Len(s))[s]]
<1>1. \A k \in Nat : RootUpTo(UpTo(k), k)
  BY RootExists
<1>2. \A s \in Seq(Entry) : F[s] = UpTo(Len(s))[s]
  OBVIOUS
<1> HIDE DEF UpTo
<1>3. ASSUME NEW s \in Seq(Entry)
      PROVE  F[s] = RootStep(F, s)
  <2> HIDE DEF F
  <2>1. Len(s) \in Nat /\ s \in NoLonger(Len(s))
    BY LenProperties DEF NoLonger
  <2>2. F[s] = RootStep(UpTo(Len(s)), s)
    <3>1. RootUpTo(UpTo(Len(s)), Len(s))
      BY <1>1, <2>1
    <3>2. UpTo(Len(s))[s] = RootStep(UpTo(Len(s)), s)
      BY <2>1, <3>1, Zenon DEF RootUpTo
    <3>3. QED
      BY <1>2, <3>2
  <2>3. ASSUME NEW t \in NoLonger(Len(s))
        PROVE  F[t] = UpTo(Len(s))[t]
    <3>1. t \in Seq(Entry) /\ Len(t) \in Nat /\ t \in NoLonger(Len(t))
      BY LenProperties DEF NoLonger
    <3>2. UpTo(Len(t))[t] = UpTo(Len(s))[t]
      BY <1>1, <2>1, <3>1, RootUnique
    <3>3. QED
      BY <1>2, <3>1, <3>2
  <2>4. CASE s = <<>> \/ Len(s) = 1
    BY <2>2, <2>4 DEF RootStep
  <2>5. CASE s # <<>> /\ Len(s) # 1
    <3>1. /\ Len(s) # 0
          /\ Left(s) \in NoLonger(Len(s) - 1) /\ Right(s) \in NoLonger(Len(s) - 1)
      BY <2>1, <2>5, HalvesShorter
    <3>2. Left(s) \in NoLonger(Len(s)) /\ Right(s) \in NoLonger(Len(s))
      BY <2>1, <3>1, LenProperties DEF NoLonger
    <3>3. QED
      BY <2>2, <2>3, <3>2 DEF RootStep
  <2>6. QED
    BY <2>4, <2>5
<1>4. F = [s \in Seq(Entry) |-> RootStep(F, s)]
  BY <1>3
<1> HIDE DEF F
<1>5. root = [s \in Seq(Entry) |-> RootStep(root, s)]
  BY <1>4, Zenon DEF root, RootStep
<1>6. QED
  BY <1>5, Zenon

-----------------------------------------------------------------------------
(* The audit paths. *)

LoggedNoLonger(k) == NoLonger(k) \cap Logged

PathStep(f, e) ==
    [index \in 0 .. Len(e) - 1 |->
       IF Len(e) = 1 THEN <<>>
       ELSE IF index < Split(Len(e))
       THEN Append(f[Left(e)][index], root[Right(e)])
       ELSE Append(f[Right(e)][index - Split(Len(e))], root[Left(e)])]

PathUpTo(f, k) == f = [e \in LoggedNoLonger(k) |-> PathStep(f, e)]

LEMMA PathExists ==
    ASSUME NEW k \in Nat
    PROVE  \E f : PathUpTo(f, k)
<1> DEFINE S == {n \in Nat : \E f : PathUpTo(f, n)}
<1>1. ASSUME NEW n \in Nat, \A m \in 0 .. n - 1 : m \in S
      PROVE  n \in S
  <2> DEFINE h == CHOOSE f : PathUpTo(f, n - 1)
             g == [e \in LoggedNoLonger(n) |-> PathStep(h, e)]
  <2>1. n # 0 => PathUpTo(h, n - 1)
    <3>1. n # 0 => n - 1 \in 0 .. n - 1
      OBVIOUS
    <3>2. QED
      BY <1>1, <3>1
  <2> HIDE DEF h
  <2>2. \A e \in LoggedNoLonger(n) : g[e] = PathStep(h, e)
    OBVIOUS
  <2> HIDE DEF S
  <2>3. n # 0 => \A e \in LoggedNoLonger(n - 1) : h[e] = g[e]
    <3>1. n # 0 => LoggedNoLonger(n - 1) \subseteq LoggedNoLonger(n)
      BY LenProperties DEF LoggedNoLonger, NoLonger, Logged
    <3>2. n # 0 => \A e \in LoggedNoLonger(n - 1) : h[e] = PathStep(h, e)
      BY <2>1, Zenon DEF PathUpTo
    <3> HIDE DEF g
    <3>3. QED
      BY <2>2, <3>1, <3>2
  <2>4. \A e \in LoggedNoLonger(n) : PathStep(h, e) = PathStep(g, e)
    <3> HIDE DEF g
    <3> SUFFICES ASSUME NEW e \in LoggedNoLonger(n)
                 PROVE  PathStep(h, e) = PathStep(g, e)
      OBVIOUS
    <3>1. CASE Len(e) = 1
      BY <3>1 DEF PathStep
    <3>2. CASE Len(e) # 1
      <4>1. n # 0 /\ Left(e) \in LoggedNoLonger(n - 1) /\ Right(e) \in LoggedNoLonger(n - 1)
        BY <3>2, HalvesShorter DEF LoggedNoLonger, NoLonger, Logged
      <4>2. h[Left(e)] = g[Left(e)] /\ h[Right(e)] = g[Right(e)]
        BY <2>3, <4>1
      <4>3. QED
        BY <4>2 DEF PathStep
    <3>3. QED
      BY <3>1, <3>2
  <2>5. PathUpTo(g, n)
    BY <2>4, Zenon DEF PathUpTo
  <2>6. QED
    BY <2>5 DEF S
<1>2. Nat \subseteq S
  <2> HIDE DEF S
  <2>1. QED
    BY <1>1, Induction
<1>3. QED
  BY <1>2

LEMMA PathUnique ==
    ASSUME NEW k \in Nat, NEW m \in Nat, NEW f, NEW g,
           PathUpTo(f, k), PathUpTo(g, m)
    PROVE  \A e \in LoggedNoLonger(k) : e \in LoggedNoLonger(m) => f[e] = g[e]
<1> DEFINE S == {n \in Nat : \A e \in LoggedNoLonger(n) :
                    e \in LoggedNoLonger(k) /\ e \in LoggedNoLonger(m) => f[e] = g[e]}
<1>1. ASSUME NEW n \in Nat, \A i \in 0 .. n - 1 : i \in S
      PROVE  n \in S
  <2> SUFFICES ASSUME NEW e \in LoggedNoLonger(n), e \in LoggedNoLonger(k), e \in LoggedNoLonger(m)
               PROVE  f[e] = g[e]
    OBVIOUS
  <2>1. f[e] = PathStep(f, e) /\ g[e] = PathStep(g, e)
    <3> HIDE DEF S
    <3>1. QED
      BY Zenon DEF PathUpTo
  <2>2. CASE Len(e) = 1
    BY <2>1, <2>2 DEF PathStep
  <2>3. CASE Len(e) # 1
    <3>1. /\ n # 0
          /\ Left(e) \in LoggedNoLonger(n - 1) /\ Right(e) \in LoggedNoLonger(n - 1)
      BY <2>3, HalvesShorter DEF LoggedNoLonger, NoLonger, Logged
    <3>2. /\ k # 0
          /\ Left(e) \in LoggedNoLonger(k - 1) /\ Right(e) \in LoggedNoLonger(k - 1)
      BY <2>3, HalvesShorter DEF LoggedNoLonger, NoLonger, Logged
    <3>3. /\ m # 0
          /\ Left(e) \in LoggedNoLonger(m - 1) /\ Right(e) \in LoggedNoLonger(m - 1)
      BY <2>3, HalvesShorter DEF LoggedNoLonger, NoLonger, Logged
    <3>4. /\ Left(e) \in LoggedNoLonger(k) /\ Left(e) \in LoggedNoLonger(m)
          /\ Right(e) \in LoggedNoLonger(k) /\ Right(e) \in LoggedNoLonger(m)
      BY <3>2, <3>3, LenProperties DEF LoggedNoLonger, NoLonger, Logged
    <3>5. n - 1 \in S
      BY <1>1, <3>1
    <3>6. f[Left(e)] = g[Left(e)] /\ f[Right(e)] = g[Right(e)]
      BY <3>1, <3>4, <3>5
    <3>7. QED
      BY <2>1, <3>6 DEF PathStep
  <2>4. QED
    BY <2>2, <2>3
<1>2. Nat \subseteq S
  <2> HIDE DEF S
  <2>1. QED
    BY <1>1, Induction
<1>3. ASSUME NEW e \in LoggedNoLonger(k), e \in LoggedNoLonger(m)
      PROVE  f[e] = g[e]
  <2>1. k \in S
    BY <1>2
  <2>2. QED
    BY <1>3, <2>1
<1>4. QED
  BY <1>3

(* inclusionPath satisfies its equation. *)
LEMMA PathEquation ==
    ASSUME NEW e \in Logged
    PROVE  inclusionPath[e] = PathStep(inclusionPath, e)
<1> DEFINE UpTo(k) == CHOOSE f : PathUpTo(f, k)
           F == [s \in Logged |-> UpTo(Len(s))[s]]
<1>1. \A k \in Nat : PathUpTo(UpTo(k), k)
  BY PathExists
<1>2. \A s \in Logged : F[s] = UpTo(Len(s))[s]
  OBVIOUS
<1> HIDE DEF UpTo
<1>3. ASSUME NEW s \in Logged
      PROVE  F[s] = PathStep(F, s)
  <2> HIDE DEF F
  <2>1. Len(s) \in Nat /\ s \in LoggedNoLonger(Len(s))
    BY LenProperties DEF LoggedNoLonger, NoLonger, Logged
  <2>2. F[s] = PathStep(UpTo(Len(s)), s)
    <3>1. PathUpTo(UpTo(Len(s)), Len(s))
      BY <1>1, <2>1
    <3>2. UpTo(Len(s))[s] = PathStep(UpTo(Len(s)), s)
      BY <2>1, <3>1, Zenon DEF PathUpTo
    <3>3. QED
      BY <1>2, <3>2
  <2>3. ASSUME NEW t \in LoggedNoLonger(Len(s))
        PROVE  F[t] = UpTo(Len(s))[t]
    <3>1. t \in Logged /\ Len(t) \in Nat /\ t \in LoggedNoLonger(Len(t))
      BY LenProperties DEF LoggedNoLonger, NoLonger, Logged
    <3>2. UpTo(Len(t))[t] = UpTo(Len(s))[t]
      BY <1>1, <2>1, <3>1, PathUnique
    <3>3. QED
      BY <1>2, <3>1, <3>2
  <2>4. CASE Len(s) = 1
    BY <2>2, <2>4 DEF PathStep
  <2>5. CASE Len(s) # 1
    <3>1. /\ Len(s) # 0
          /\ Left(s) \in LoggedNoLonger(Len(s) - 1) /\ Right(s) \in LoggedNoLonger(Len(s) - 1)
      BY <2>1, <2>5, HalvesShorter DEF LoggedNoLonger, Logged
    <3>2. Left(s) \in LoggedNoLonger(Len(s)) /\ Right(s) \in LoggedNoLonger(Len(s))
      BY <2>1, <3>1, LenProperties DEF LoggedNoLonger, NoLonger, Logged
    <3>3. QED
      BY <2>2, <2>3, <3>2 DEF PathStep
  <2>6. QED
    BY <2>4, <2>5
<1>4. F = [s \in Logged |-> PathStep(F, s)]
  BY <1>3
<1> HIDE DEF F
<1>5. inclusionPath = [s \in Logged |-> PathStep(inclusionPath, s)]
  BY <1>4, Zenon DEF inclusionPath, PathStep, Logged
<1>6. QED
  BY <1>5, Zenon

-----------------------------------------------------------------------------
(* The loop that skips levels. *)

Level == Nat \X Nat

ClimbStep(f, l) ==
    IF l[1] # 0 /\ ~ IsOdd(l[1]) THEN f[<<l[1] \div 2, l[2] \div 2>>] ELSE l

Lower(k) == {l \in Level : l[1] <= k}

ClimbUpTo(f, k) == f = [l \in Lower(k) |-> ClimbStep(f, l)]

LEMMA HalfIsLower ==
    ASSUME NEW l \in Level, l[1] # 0, NEW k \in Nat, l[1] <= k
    PROVE  k # 0 /\ <<l[1] \div 2, l[2] \div 2>> \in Lower(k - 1)
<1>1. /\ l[1] \in Nat /\ l[2] \in Nat
      /\ l[1] \div 2 \in Nat /\ l[2] \div 2 \in Nat
  BY DEF Level
<1>2. l[1] \div 2 <= k - 1 /\ k # 0
  BY <1>1
<1>3. QED
  BY <1>1, <1>2 DEF Lower, Level

LEMMA ClimbExists ==
    ASSUME NEW k \in Nat
    PROVE  \E f : ClimbUpTo(f, k)
<1> DEFINE S == {n \in Nat : \E f : ClimbUpTo(f, n)}
<1>1. ASSUME NEW n \in Nat, \A m \in 0 .. n - 1 : m \in S
      PROVE  n \in S
  <2> DEFINE h == CHOOSE f : ClimbUpTo(f, n - 1)
             g == [l \in Lower(n) |-> ClimbStep(h, l)]
  <2>1. n # 0 => ClimbUpTo(h, n - 1)
    <3>1. n # 0 => n - 1 \in 0 .. n - 1
      OBVIOUS
    <3>2. QED
      BY <1>1, <3>1
  <2> HIDE DEF h
  <2>2. \A l \in Lower(n) : g[l] = ClimbStep(h, l)
    OBVIOUS
  <2> HIDE DEF S
  <2>3. n # 0 => \A l \in Lower(n - 1) : h[l] = g[l]
    <3>1. n # 0 => Lower(n - 1) \subseteq Lower(n)
      BY DEF Lower, Level
    <3>2. n # 0 => \A l \in Lower(n - 1) : h[l] = ClimbStep(h, l)
      BY <2>1, Zenon DEF ClimbUpTo
    <3> HIDE DEF g
    <3>3. QED
      BY <2>2, <3>1, <3>2
  <2>4. \A l \in Lower(n) : ClimbStep(h, l) = ClimbStep(g, l)
    <3> HIDE DEF g
    <3> SUFFICES ASSUME NEW l \in Lower(n), l[1] # 0
                 PROVE  ClimbStep(h, l) = ClimbStep(g, l)
      BY DEF ClimbStep
    <3>1. n # 0 /\ <<l[1] \div 2, l[2] \div 2>> \in Lower(n - 1)
      BY HalfIsLower DEF Lower
    <3>2. QED
      BY <2>3, <3>1 DEF ClimbStep
  <2>5. ClimbUpTo(g, n)
    BY <2>4, Zenon DEF ClimbUpTo
  <2>6. QED
    BY <2>5 DEF S
<1>2. Nat \subseteq S
  <2> HIDE DEF S
  <2>1. QED
    BY <1>1, Induction
<1>3. QED
  BY <1>2

LEMMA ClimbUnique ==
    ASSUME NEW k \in Nat, NEW m \in Nat, NEW f, NEW g,
           ClimbUpTo(f, k), ClimbUpTo(g, m)
    PROVE  \A l \in Lower(k) : l \in Lower(m) => f[l] = g[l]
<1> DEFINE S == {n \in Nat : \A l \in Lower(n) :
                    l \in Lower(k) /\ l \in Lower(m) => f[l] = g[l]}
<1>1. ASSUME NEW n \in Nat, \A i \in 0 .. n - 1 : i \in S
      PROVE  n \in S
  <2> SUFFICES ASSUME NEW l \in Lower(n), l \in Lower(k), l \in Lower(m)
               PROVE  f[l] = g[l]
    OBVIOUS
  <2>1. f[l] = ClimbStep(f, l) /\ g[l] = ClimbStep(g, l)
    <3> HIDE DEF S
    <3>1. QED
      BY Zenon DEF ClimbUpTo
  <2>2. CASE l[1] = 0
    BY <2>1, <2>2 DEF ClimbStep
  <2>3. CASE l[1] # 0
    <3> DEFINE h == <<l[1] \div 2, l[2] \div 2>>
    <3>1. n # 0 /\ h \in Lower(n - 1)
      BY <2>3, HalfIsLower DEF Lower
    <3>2. k # 0 /\ h \in Lower(k - 1)
      BY <2>3, HalfIsLower DEF Lower
    <3>3. m # 0 /\ h \in Lower(m - 1)
      BY <2>3, HalfIsLower DEF Lower
    <3>4. h \in Lower(k) /\ h \in Lower(m)
      <4> HIDE DEF h
      <4>1. QED
        BY <3>2, <3>3 DEF Lower, Level
    <3>5. n - 1 \in S
      BY <1>1, <3>1
    <3>6. f[h] = g[h]
      BY <3>1, <3>4, <3>5
    <3>7. QED
      BY <2>1, <3>6 DEF ClimbStep
  <2>4. QED
    BY <2>2, <2>3
<1>2. Nat \subseteq S
  <2> HIDE DEF S
  <2>1. QED
    BY <1>1, Induction
<1>3. ASSUME NEW l \in Lower(k), l \in Lower(m)
      PROVE  f[l] = g[l]
  <2>1. k \in S
    BY <1>2
  <2>2. QED
    BY <1>3, <2>1
<1>4. QED
  BY <1>3

(* climb satisfies its equation. *)
LEMMA ClimbEquation ==
    ASSUME NEW l \in Level
    PROVE  climb[l] = ClimbStep(climb, l)
<1> DEFINE UpTo(k) == CHOOSE f : ClimbUpTo(f, k)
           F == [s \in Level |-> UpTo(s[1])[s]]
<1>1. \A k \in Nat : ClimbUpTo(UpTo(k), k)
  BY ClimbExists
<1>2. \A s \in Level : F[s] = UpTo(s[1])[s]
  OBVIOUS
<1> HIDE DEF UpTo
<1>3. ASSUME NEW s \in Level
      PROVE  F[s] = ClimbStep(F, s)
  <2> HIDE DEF F
  <2>1. s[1] \in Nat /\ s \in Lower(s[1])
    BY DEF Lower, Level
  <2>2. F[s] = ClimbStep(UpTo(s[1]), s)
    <3>1. ClimbUpTo(UpTo(s[1]), s[1])
      BY <1>1, <2>1
    <3>2. UpTo(s[1])[s] = ClimbStep(UpTo(s[1]), s)
      BY <2>1, <3>1, Zenon DEF ClimbUpTo
    <3>3. QED
      BY <1>2, <3>2
  <2>3. ASSUME NEW t \in Lower(s[1])
        PROVE  F[t] = UpTo(s[1])[t]
    <3>1. t \in Level /\ t[1] \in Nat /\ t \in Lower(t[1])
      BY DEF Lower, Level
    <3>2. UpTo(t[1])[t] = UpTo(s[1])[t]
      BY <1>1, <2>1, <3>1, ClimbUnique
    <3>3. QED
      BY <1>2, <3>1, <3>2
  <2>4. CASE s[1] = 0
    BY <2>2, <2>4 DEF ClimbStep
  <2>5. CASE s[1] # 0
    <3> DEFINE h == <<s[1] \div 2, s[2] \div 2>>
    <3>1. s[1] # 0 /\ h \in Lower(s[1] - 1)
      BY <2>1, <2>5, HalfIsLower
    <3>2. h \in Lower(s[1])
      <4> HIDE DEF h
      <4>1. QED
        BY <2>1, <3>1 DEF Lower, Level
    <3>3. QED
      BY <2>2, <2>3, <3>2 DEF ClimbStep
  <2>6. QED
    BY <2>4, <2>5
<1>4. F = [s \in Level |-> ClimbStep(F, s)]
  BY <1>3
<1> HIDE DEF F
<1>5. climb = [s \in Level |-> ClimbStep(climb, s)]
  BY <1>4, Zenon DEF climb, ClimbStep, Level
<1>6. QED
  BY <1>5, Zenon

(* What climb returns is a level again. *)
LEMMA ClimbType ==
    ASSUME NEW l \in Level
    PROVE  climb[l] \in Level
<1> DEFINE S == {n \in Nat : \A k \in Lower(n) : climb[k] \in Level}
<1>1. ASSUME NEW n \in Nat, \A i \in 0 .. n - 1 : i \in S
      PROVE  n \in S
  <2> SUFFICES ASSUME NEW k \in Lower(n)
               PROVE  climb[k] \in Level
    OBVIOUS
  <2>1. climb[k] = ClimbStep(climb, k) /\ k \in Level
    BY ClimbEquation DEF Lower
  <2>2. CASE k[1] = 0
    BY <2>1, <2>2 DEF ClimbStep
  <2>3. CASE k[1] # 0
    <3>1. n # 0 /\ <<k[1] \div 2, k[2] \div 2>> \in Lower(n - 1)
      BY <2>3, HalfIsLower DEF Lower
    <3>2. n - 1 \in S
      BY <1>1, <3>1
    <3>3. climb[<<k[1] \div 2, k[2] \div 2>>] \in Level
      BY <3>1, <3>2
    <3>4. QED
      BY <2>1, <3>3 DEF ClimbStep
  <2>4. QED
    BY <2>2, <2>3
<1>2. Nat \subseteq S
  <2> HIDE DEF S
  <2>1. QED
    BY <1>1, Induction
<1>3. l[1] \in Nat /\ l \in Lower(l[1])
  BY DEF Lower, Level
<1>4. QED
  BY <1>2, <1>3

(* The last node f of an incomplete level, at width w, starts where the odd node
   that climb finds starts, and both reach beyond the n leaves. *)
LEMMA ClimbFinds ==
    ASSUME NEW n \in Nat, NEW w \in Width, NEW f \in Nat \ {0},
           n < (f + 1) * w
    PROVE  \E v \in Width, g \in Nat :
              /\ climb[<<f, f>>] = <<g, g>>
              /\ IsOdd(g)
              /\ g * v = f * w
              /\ n < (g + 1) * v
              /\ w <= v
<1> DEFINE Found(h, u) ==
             \E v \in Width, g \in Nat :
                /\ climb[<<h, h>>] = <<g, g>>
                /\ IsOdd(g)
                /\ g * v = h * u
                /\ n < (g + 1) * v
                /\ u <= v
           S == {h \in Nat : \A u \in Width : h # 0 /\ n < (h + 1) * u => Found(h, u)}
<1>1. ASSUME NEW h \in Nat, \A i \in 0 .. h - 1 : i \in S
      PROVE  h \in S
  <2> SUFFICES ASSUME NEW u \in Width, h # 0, n < (h + 1) * u
               PROVE  Found(h, u)
    OBVIOUS
  <2>0. u \in Nat \ {0} /\ 2 * u \in Width
    BY WidthType
  <2>1. climb[<<h, h>>] = ClimbStep(climb, <<h, h>>)
    BY ClimbEquation DEF Level
  <2>2. CASE IsOdd(h)
    <3>1. climb[<<h, h>>] = <<h, h>>
      BY <2>1, <2>2 DEF ClimbStep
    <3>2. QED
      BY <2>0, <2>2, <3>1
  <2>3. CASE ~ IsOdd(h)
    <3> DEFINE g == h \div 2
    <3>1. g \in 0 .. h - 1 /\ g # 0 /\ h = 2 * g
      BY <2>3 DEF IsOdd
    <3> HIDE DEF g
    <3>2. climb[<<h, h>>] = climb[<<g, g>>]
      BY <2>1, <2>3 DEF ClimbStep, g
    <3>3. g * (2 * u) = h * u
      BY <2>0, <3>1
    <3>4. n < (g + 1) * (2 * u)
      <4>1. (h + 1) * u = h * u + u /\ (g + 1) * (2 * u) = g * (2 * u) + 2 * u
        BY <2>0, <3>1
      <4>2. h * u \in Nat
        BY <2>0
      <4>3. QED
        BY <2>0, <3>3, <4>1, <4>2
    <3>5. g \in S
      BY <1>1, <3>1
    <3>6. Found(g, 2 * u)
      BY <2>0, <3>1, <3>4, <3>5
    <3>7. QED
      <4>1. PICK v \in Width, k \in Nat :
              /\ climb[<<g, g>>] = <<k, k>>
              /\ IsOdd(k)
              /\ k * v = g * (2 * u)
              /\ n < (k + 1) * v
              /\ 2 * u <= v
        BY <3>6
      <4>2. k * v = h * u
        BY <3>3, <4>1
      <4>3. u <= v
        BY <2>0, <4>1, WidthType
      <4>4. QED
        BY <3>2, <4>1, <4>2, <4>3
  <2>4. QED
    BY <2>2, <2>3
<1>2. Nat \subseteq S
  <2> HIDE DEF S
  <2>1. QED
    BY <1>1, Induction
<1>3. QED
  BY <1>2

-----------------------------------------------------------------------------
(* Subtrees.  entries[lo:hi] of the code, with lo below the length. *)

Slice(e, lo, hi) == SubSeq(e, lo + 1, IF hi <= Len(e) THEN hi ELSE Len(e))

LEMMA SliceType ==
    ASSUME NEW e \in Logged, NEW lo \in Nat, NEW hi \in Nat, lo < hi, lo < Len(e)
    PROVE  /\ Slice(e, lo, hi) \in Logged
           /\ Len(Slice(e, lo, hi)) = IF hi <= Len(e) THEN hi - lo ELSE Len(e) - lo
           /\ \A i \in 1 .. Len(Slice(e, lo, hi)) : Slice(e, lo, hi)[i] = e[lo + i]
<1> DEFINE n == Len(e)
           last == IF hi <= n THEN hi ELSE n
<1>1. e \in Seq(Entry) /\ n \in Nat
  BY LenProperties DEF Logged
<1>2. \A i \in 1 .. n : e[i] \in Entry
  BY <1>1, ElementOfSeq
<1> HIDE DEF n
<1>3. last \in Nat /\ lo < last /\ last <= n
  BY <1>1 DEF n
<1> HIDE DEF last
<1>4. \A i \in lo + 1 .. last : e[i] \in Entry
  BY <1>1, <1>2, <1>3
<1>5. /\ SubSeq(e, lo + 1, last) \in Seq(Entry)
      /\ Len(SubSeq(e, lo + 1, last)) =
            IF lo + 1 <= last THEN last - (lo + 1) + 1 ELSE 0
      /\ \A i \in 1 .. last - (lo + 1) + 1 :
            SubSeq(e, lo + 1, last)[i] = e[lo + 1 + i - 1]
  <2>1. lo + 1 \in Int /\ last \in Int
    BY <1>3
  <2>2. QED
    BY <1>4, <2>1, SubSeqProperties
<1>6. last - (lo + 1) + 1 = last - lo /\ \A i \in Int : lo + 1 + i - 1 = lo + i
  BY <1>3
<1>7. /\ Len(SubSeq(e, lo + 1, last)) = last - lo
      /\ \A i \in 1 .. last - lo : SubSeq(e, lo + 1, last)[i] = e[lo + i]
  BY <1>3, <1>5, <1>6
<1>8. SubSeq(e, lo + 1, last) # <<>>
  <2>1. last - lo # 0
    BY <1>3
  <2>2. QED
    BY <1>7, <2>1, EmptySeq
<1>9. Slice(e, lo, hi) = SubSeq(e, lo + 1, last)
  BY DEF Slice, last, n
<1>10. last - lo = IF hi <= n THEN hi - lo ELSE n - lo
  BY <1>1 DEF last
<1>11. QED
  BY <1>5, <1>7, <1>8, <1>9, <1>10 DEF Logged, n

(* Two ends beyond the last leaf make no difference. *)
LEMMA SliceEnd ==
    ASSUME NEW e \in Logged, NEW lo \in Nat, NEW hi \in Nat, NEW end \in Nat,
           Len(e) <= hi, Len(e) <= end
    PROVE  Slice(e, lo, hi) = Slice(e, lo, end)
<1>1. Len(e) \in Nat
  BY LenProperties DEF Logged
<1>2. QED
  BY <1>1 DEF Slice

LEMMA SliceAll ==
    ASSUME NEW e \in Logged, NEW hi \in Nat, Len(e) <= hi
    PROVE  Slice(e, 0, hi) = e
<1>1. e \in Seq(Entry) /\ Len(e) \in Nat
  BY LenProperties DEF Logged
<1>2. Slice(e, 0, hi) = SubSeq(e, 1, Len(e))
  BY <1>1 DEF Slice
<1>3. QED
  BY <1>1, <1>2, SubSeqFull

(* A subtree with more leaves than w, and no more than twice as many, is split
   after the first w. *)
LEMMA SliceSplit ==
    ASSUME NEW e \in Logged, NEW w \in Width, NEW c \in Nat, c + w < Len(e)
    PROVE  LET t == Slice(e, c, c + 2 * w) IN
           /\ t \in Logged /\ Len(t) \in Nat /\ Len(t) > 1
           /\ Split(Len(t)) = w
           /\ Left(t) = Slice(e, c, c + w)
           /\ Right(t) = Slice(e, c + w, c + 2 * w)
<1> DEFINE t == Slice(e, c, c + 2 * w)
           n == Len(e)
           last == IF c + 2 * w <= n THEN c + 2 * w ELSE n
<1>0. w \in Nat \ {0}
  BY WidthType
<1>1. e \in Seq(Entry) /\ n \in Nat
  BY LenProperties DEF Logged
<1>2. last \in Nat /\ c + w < last /\ last <= n /\ last <= c + 2 * w
  BY <1>0, <1>1
<1>3. t = SubSeq(e, c + 1, last)
  BY DEF Slice
<1>4. t \in Logged /\ Len(t) = last - c
  <2> DEFINE hi == c + 2 * w
  <2>1. hi \in Nat /\ c < hi /\ c < Len(e)
    BY <1>0, <1>1
  <2> HIDE DEF hi
  <2>2. /\ Slice(e, c, hi) \in Logged
        /\ Len(Slice(e, c, hi)) = IF hi <= Len(e) THEN hi - c ELSE Len(e) - c
    BY <2>1, SliceType
  <2>3. QED
    BY <1>0, <1>1, <2>2 DEF hi
<1>5. Slice(e, c, c + w) = SubSeq(e, c + 1, c + w)
  <2>1. c + w <= Len(e)
    BY <1>0, <1>1
  <2>2. QED
    BY <2>1 DEF Slice
<1>6. Slice(e, c + w, c + 2 * w) = SubSeq(e, c + w + 1, last)
  BY DEF Slice
<1> HIDE DEF t, last, n
<1>7. last - c \in Nat /\ last - c > 1 /\ w < last - c /\ last - c <= 2 * w
  BY <1>0, <1>2
<1>8. Split(Len(t)) = w
  BY <1>4, <1>7, SplitIs
<1>9. Left(t) = SubSeq(e, c + 1, c + w)
  <2>1. /\ c + 1 \in 1 .. Len(e) /\ last \in 1 .. Len(e)
        /\ 1 \in 1 .. last - (c + 1) + 1 /\ w \in 1 .. last - (c + 1) + 1
    BY <1>0, <1>1, <1>2 DEF n
  <2>2. SubSeq(SubSeq(e, c + 1, last), 1, w) = SubSeq(e, c + 1 + 1 - 1, c + 1 + w - 1)
    BY <1>1, <2>1, SubSeqOfSubSeq
  <2>3. c + 1 + 1 - 1 = c + 1 /\ c + 1 + w - 1 = c + w
    BY <1>0
  <2>4. QED
    BY <1>3, <1>8, <2>2, <2>3 DEF Left
<1>10. Right(t) = SubSeq(e, c + w + 1, last)
  <2> DEFINE first == c + 1
             from == w + 1
             size == last - c
  <2>1. /\ first \in 1 .. Len(e) /\ last \in 1 .. Len(e)
        /\ from \in 1 .. last - first + 1 /\ size \in 1 .. last - first + 1
    BY <1>0, <1>1, <1>2 DEF n
  <2>2. first + from - 1 = c + w + 1 /\ first + size - 1 = last
    BY <1>0, <1>2
  <2> HIDE DEF first, from, size
  <2>3. SubSeq(SubSeq(e, first, last), from, size)
           = SubSeq(e, first + from - 1, first + size - 1)
    BY <1>1, <2>1, SubSeqOfSubSeq
  <2>4. QED
    BY <1>3, <1>4, <1>8, <2>2, <2>3 DEF Right, first, from, size
<1>11. QED
  BY <1>4, <1>5, <1>6, <1>7, <1>8, <1>9, <1>10 DEF t

-----------------------------------------------------------------------------
(* Audit paths, level by level. *)

(* Every sibling is the root of some entries. *)
Roots == {root[e] : e \in Seq(Entry)}

LEMMA PathType ==
    ASSUME NEW e \in Logged, NEW i \in 0 .. Len(e) - 1
    PROVE  inclusionPath[e][i] \in Seq(Roots)
<1> DEFINE S == {n \in Nat : \A t \in LoggedNoLonger(n) : \A j \in 0 .. Len(t) - 1 :
                    inclusionPath[t][j] \in Seq(Roots)}
<1>1. ASSUME NEW n \in Nat, \A m \in 0 .. n - 1 : m \in S
      PROVE  n \in S
  <2> SUFFICES ASSUME NEW t \in LoggedNoLonger(n), NEW j \in 0 .. Len(t) - 1
               PROVE  inclusionPath[t][j] \in Seq(Roots)
    OBVIOUS
  <2>0. /\ t \in Logged /\ t \in Seq(Entry) /\ t # <<>>
        /\ Len(t) \in Nat /\ Len(t) <= n
    BY LenProperties DEF LoggedNoLonger, NoLonger, Logged
  <2>1. inclusionPath[t][j] =
           IF Len(t) = 1 THEN <<>>
           ELSE IF j < Split(Len(t))
           THEN Append(inclusionPath[Left(t)][j], root[Right(t)])
           ELSE Append(inclusionPath[Right(t)][j - Split(Len(t))], root[Left(t)])
    BY <2>0, PathEquation DEF PathStep
  <2>2. CASE Len(t) = 1
    BY <2>1, <2>2
  <2>3. CASE Len(t) # 1
    <3> DEFINE k == Split(Len(t))
    <3>1. /\ n # 0
          /\ Left(t) \in LoggedNoLonger(n - 1)
          /\ Right(t) \in LoggedNoLonger(n - 1)
      BY <2>0, <2>3, HalvesShorter DEF LoggedNoLonger
    <3>2. /\ k \in 1 .. Len(t) - 1
          /\ Len(Left(t)) = k
          /\ Len(Right(t)) = Len(t) - k
      <4>1. Len(t) > 1
        <5>1. Len(t) # 0
          BY <2>0, EmptySeq
        <5>2. \A m \in Nat : m # 0 /\ m # 1 => m > 1
          OBVIOUS
        <5>3. QED
          BY <2>0, <2>3, <5>1, <5>2
      <4>2. QED
        BY <2>0, <4>1, Halves
    <3>3. n - 1 \in S
      BY <1>1, <3>1
    <3>4. root[Left(t)] \in Roots /\ root[Right(t)] \in Roots
      BY <3>1 DEF Roots, LoggedNoLonger, NoLonger
    <3> HIDE DEF k
    <3>5. CASE j < k
      <4>1. j \in 0 .. Len(Left(t)) - 1
        BY <2>0, <3>2, <3>5
      <4>2. inclusionPath[Left(t)][j] \in Seq(Roots)
        BY <3>1, <3>3, <4>1
      <4>3. QED
        BY <2>1, <2>3, <3>4, <3>5, <4>2, AppendProperties DEF k
    <3>6. CASE ~ (j < k)
      <4>1. j - k \in 0 .. Len(Right(t)) - 1
        BY <2>0, <3>2, <3>6
      <4>2. inclusionPath[Right(t)][j - k] \in Seq(Roots)
        BY <3>1, <3>3, <4>1
      <4>3. QED
        BY <2>1, <2>3, <3>4, <3>6, <4>2, AppendProperties DEF k
    <3>7. QED
      BY <3>5, <3>6
  <2>4. QED
    BY <2>2, <2>3
<1>2. Nat \subseteq S
  <2> HIDE DEF S
  <2>1. QED
    BY <1>1, Induction
<1>3. Len(e) \in Nat /\ e \in LoggedNoLonger(Len(e))
  BY LenProperties DEF LoggedNoLonger, NoLonger, Logged
<1>4. QED
  BY <1>2, <1>3

(* The leaves lo to hi - 1, their root, and the path of leaf i within them. *)
RootOf(e, lo, hi) == root[Slice(e, lo, hi)]

PathIn(e, i, lo, hi) == inclusionPath[Slice(e, lo, hi)][i - lo]

LEMMA PartTypes ==
    ASSUME NEW e \in Logged, NEW lo \in Nat, NEW hi \in Nat,
           lo < hi, lo < Len(e)
    PROVE  /\ RootOf(e, lo, hi) \in Roots
           /\ \A i \in 0 .. Len(e) - 1 :
                 lo <= i /\ i < hi => PathIn(e, i, lo, hi) \in Seq(Roots)
<1>1. Len(e) \in Nat
  BY LenProperties DEF Logged
<1>2. /\ Slice(e, lo, hi) \in Logged
      /\ Len(Slice(e, lo, hi)) = IF hi <= Len(e) THEN hi - lo ELSE Len(e) - lo
  BY SliceType
<1>3. ASSUME NEW i \in 0 .. Len(e) - 1, lo <= i, i < hi
      PROVE  i - lo \in 0 .. Len(Slice(e, lo, hi)) - 1
  BY <1>1, <1>2, <1>3
<1>4. QED
  BY <1>2, <1>3, PathType DEF RootOf, PathIn, Roots, Logged

(* The subtree of twice the width: its root, and the paths in it. *)
LEMMA Doubled ==
    ASSUME NEW e \in Logged, NEW w \in Width, NEW c \in Nat, c + w < Len(e),
           NEW i \in 0 .. Len(e) - 1, c <= i, i < c + 2 * w
    PROVE  /\ RootOf(e, c, c + 2 * w) =
                 NodeHash(RootOf(e, c, c + w), RootOf(e, c + w, c + 2 * w))
           /\ PathIn(e, i, c, c + 2 * w) =
                 IF i < c + w
                 THEN Append(PathIn(e, i, c, c + w), RootOf(e, c + w, c + 2 * w))
                 ELSE Append(PathIn(e, i, c + w, c + 2 * w), RootOf(e, c, c + w))
<1> DEFINE t == Slice(e, c, c + 2 * w)
<1>0. w \in Nat \ {0} /\ Len(e) \in Nat
  BY WidthType, LenProperties DEF Logged
<1>1. /\ t \in Logged /\ Len(t) \in Nat /\ Len(t) > 1
      /\ Split(Len(t)) = w
      /\ Left(t) = Slice(e, c, c + w)
      /\ Right(t) = Slice(e, c + w, c + 2 * w)
  BY SliceSplit
<1>2. t \in Seq(Entry) /\ t # <<>> /\ Len(t) # 1
  <2> HIDE DEF t
  <2>1. \A m \in Nat : m > 1 => m # 1
    OBVIOUS
  <2>2. QED
    BY <1>1, <2>1 DEF Logged
<1>3. Len(t) = IF c + 2 * w <= Len(e) THEN c + 2 * w - c ELSE Len(e) - c
  <2> DEFINE hi == c + 2 * w
  <2>1. hi \in Nat /\ c < hi /\ c < Len(e)
    BY <1>0
  <2> HIDE DEF hi
  <2>2. Len(Slice(e, c, hi)) = IF hi <= Len(e) THEN hi - c ELSE Len(e) - c
    BY <2>1, SliceType
  <2>3. t = Slice(e, c, hi)
    BY DEF hi
  <2> HIDE DEF t
  <2>4. Len(t) = IF hi <= Len(e) THEN hi - c ELSE Len(e) - c
    BY <2>2, <2>3, Zenon
  <2>5. QED
    BY <1>0, <2>4 DEF hi
<1>4. i - c \in 0 .. Len(t) - 1
  BY <1>0, <1>3
<1> HIDE DEF t
<1>5. root[t] = NodeHash(root[Left(t)], root[Right(t)])
  BY <1>2, RootEquation DEF RootStep
<1>6. inclusionPath[t][i - c] =
         IF i - c < w
         THEN Append(inclusionPath[Left(t)][i - c], root[Right(t)])
         ELSE Append(inclusionPath[Right(t)][i - c - w], root[Left(t)])
  BY <1>1, <1>2, <1>4, PathEquation DEF PathStep
<1>7. (i - c < w <=> i < c + w) /\ i - c - w = i - (c + w)
  BY <1>0
<1>8. RootOf(e, c, c + 2 * w) = root[t] /\ PathIn(e, i, c, c + 2 * w) = inclusionPath[t][i - c]
  BY DEF RootOf, PathIn, t
<1>9. QED
  BY <1>1, <1>5, <1>6, <1>7, <1>8 DEF RootOf, PathIn

(* q goes on after p. *)
GoesOn(p, q) == \E r \in Seq(Roots) : r # <<>> /\ q = p \o r

LEMMA GoesOnFromAppend ==
    ASSUME NEW p \in Seq(Roots), NEW x \in Roots, NEW q \in Seq(Roots),
           q = Append(p, x) \/ GoesOn(Append(p, x), q)
    PROVE  \E r \in Seq(Roots) : q = p \o (<<x>> \o r) /\ <<x>> \o r # <<>>
<1>1. <<x>> \in Seq(Roots) /\ Append(p, x) = p \o <<x>>
  BY AppendIsConcat
<1>2. PICK r \in Seq(Roots) : q = Append(p, x) \o r
  <2>1. CASE q = Append(p, x)
    <3>1. q = Append(p, x) \o <<>> /\ <<>> \in Seq(Roots)
      BY <2>1, ConcatEmptySeq, AppendProperties
    <3>2. QED
      BY <3>1
  <2>2. CASE GoesOn(Append(p, x), q)
    BY <2>2 DEF GoesOn
  <2>3. QED
    BY <2>1, <2>2
<1>3. q = p \o (<<x>> \o r)
  BY <1>1, <1>2, ConcatAssociative
<1>4. <<x>> \o r # <<>>
  <2>1. <<x>> # <<>>
    OBVIOUS
  <2>2. QED
    BY <1>1, <2>1, ConcatEqualIffEmpty
<1>5. QED
  BY <1>3, <1>4

(* The path of leaf i in a subtree that is not the whole tree goes on to the
   path of the log.  f numbers the subtrees of width w. *)
LEMMA PathGoesOn ==
    ASSUME NEW e \in Logged, NEW i \in 0 .. Len(e) - 1,
           NEW w \in Width, w < Len(e),
           NEW f \in Nat, f * w <= i, i < f * w + w
    PROVE  GoesOn(PathIn(e, i, f * w, f * w + w), inclusionPath[e][i])
<1> DEFINE n == Len(e)
           P == inclusionPath[e][i]
           Ends(v, c) == GoesOn(PathIn(e, i, c, c + v), P)
           Bad == {v \in Width : /\ v < n
                                 /\ \E g \in Nat : /\ g * v <= i
                                                   /\ i < g * v + v
                                                   /\ ~ Ends(v, g * v)}
<1>0. n \in Nat /\ i \in Nat /\ i < n /\ P \in Seq(Roots)
  BY LenProperties, PathType DEF Logged
<1> HIDE DEF P
<1>1. SUFFICES ASSUME Bad # {}
               PROVE  FALSE
  <2>1. w \in Bad \/ Ends(w, f * w)
    OBVIOUS
  <2>2. QED
    BY <2>1 DEF P
<1>2. Bad \in SUBSET (0 .. n)
  <2>1. \A v \in Bad : v \in Nat /\ v < n
    BY WidthType
  <2> HIDE DEF Bad
  <2>2. QED
    BY <1>0, <2>1
<1>3. PICK v \in Bad : \A u \in Bad : u <= v
  <2> HIDE DEF Bad, n
  <2>1. QED
    BY <1>0, <1>1, <1>2, Greatest
<1>4. v \in Width /\ v \in Nat \ {0} /\ v < n /\ 2 * v \in Width
  BY <1>3, WidthType
<1>5. PICK g \in Nat : g * v <= i /\ i < g * v + v /\ ~ Ends(v, g * v)
  BY <1>3
<1> DEFINE j == g \div 2
           c == j * (2 * v)
<1>6. j \in Nat /\ c \in Nat /\ (g * v = c \/ g * v = c + v)
  <2>1. j \in Nat /\ (g = 2 * j \/ g = 2 * j + 1)
    OBVIOUS
  <2> HIDE DEF j
  <2>2. (2 * j) * v = j * (2 * v) /\ (2 * j + 1) * v = j * (2 * v) + v
    BY <1>4, <2>1
  <2>3. j * (2 * v) \in Nat
    BY <1>4, <2>1
  <2>4. QED
    BY <2>1, <2>2, <2>3
<1>7. c <= i /\ i < c + 2 * v
  <2> HIDE DEF c
  <2>1. QED
    BY <1>0, <1>4, <1>5, <1>6
(* The subtree of twice the width. *)
<1>8. \/ c = 0 /\ PathIn(e, i, c, c + 2 * v) = P
      \/ GoesOn(PathIn(e, i, c, c + 2 * v), P)
  <2>1. CASE 2 * v < n
    <3>1. 2 * v \notin Bad
      BY <1>3, <1>4
    <3> HIDE DEF n
    <3>2. Ends(2 * v, j * (2 * v))
      BY <1>4, <1>6, <1>7, <2>1, <3>1
    <3>3. QED
      BY <3>2
  <2>2. CASE ~ (2 * v < n)
    <3>1. c = 0
      <4>1. j # 0 => 2 * v <= j * (2 * v)
        BY <1>4, <1>6
      <4>2. c < 2 * v
        <5> HIDE DEF c
        <5>1. QED
          BY <1>0, <1>4, <1>6, <1>7, <2>2
      <4>3. j = 0
        <5> HIDE DEF j
        <5>1. QED
          BY <1>4, <1>6, <4>1, <4>2
      <4>4. QED
        BY <1>4, <4>3
    <3>2. Slice(e, 0, 2 * v) = e
      BY <1>0, <1>4, <2>2, SliceAll
    <3> HIDE DEF c
    <3>3. c + 2 * v = 2 * v /\ i - c = i
      BY <1>0, <1>4, <3>1
    <3>4. PathIn(e, i, c, c + 2 * v) = P
      BY <3>1, <3>2, <3>3 DEF PathIn, P
    <3>5. QED
      BY <3>1, <3>4
  <2>3. QED
    BY <2>1, <2>2
<1> HIDE DEF c, j
<1> DEFINE p == PathIn(e, i, g * v, g * v + v)
<1>9. p \in Seq(Roots)
  <2> DEFINE lo == g * v
  <2>1. lo \in Nat /\ lo + v \in Nat /\ lo < lo + v /\ lo < Len(e)
    BY <1>0, <1>4, <1>5, <1>6
  <2>2. lo <= i /\ i < lo + v
    BY <1>5
  <2> HIDE DEF lo
  <2>3. PathIn(e, i, lo, lo + v) \in Seq(Roots)
    BY <2>1, <2>2, PartTypes
  <2>4. QED
    BY <2>3 DEF lo
<1>10. CASE c + v < n
  <2>1. PICK x \in Roots : PathIn(e, i, c, c + 2 * v) = Append(p, x)
    <3>1. PathIn(e, i, c, c + 2 * v) =
             IF i < c + v
             THEN Append(PathIn(e, i, c, c + v), RootOf(e, c + v, c + 2 * v))
             ELSE Append(PathIn(e, i, c + v, c + 2 * v), RootOf(e, c, c + v))
      BY <1>4, <1>6, <1>7, <1>10, Doubled
    <3>2. RootOf(e, c + v, c + 2 * v) \in Roots /\ RootOf(e, c, c + v) \in Roots
      <4> DEFINE lo == c + v
                 hi == c + 2 * v
      <4>1. /\ lo \in Nat /\ hi \in Nat /\ lo < hi /\ c < lo
            /\ lo < Len(e) /\ c < Len(e)
        BY <1>0, <1>4, <1>6, <1>10
      <4> HIDE DEF lo, hi
      <4>2. RootOf(e, lo, hi) \in Roots /\ RootOf(e, c, lo) \in Roots
        BY <1>6, <4>1, PartTypes
      <4>3. QED
        BY <4>2 DEF lo, hi
    <3>3. CASE g * v = c
      <4>1. i < c + v /\ p = PathIn(e, i, c, c + v)
        BY <1>5, <3>3
      <4>2. QED
        BY <3>1, <3>2, <4>1
    <3>4. CASE g * v = c + v
      <4>1. ~ (i < c + v)
        BY <1>0, <1>4, <1>5, <1>6, <3>4
      <4>2. c + v + v = c + 2 * v
        BY <1>4, <1>6
      <4>3. p = PathIn(e, i, c + v, c + 2 * v)
        BY <3>4, <4>2
      <4>4. QED
        BY <3>1, <3>2, <4>1, <4>3
    <3>5. QED
      BY <1>6, <3>3, <3>4
  <2> HIDE DEF p
  <2>2. P = Append(p, x) \/ GoesOn(Append(p, x), P)
    BY <1>8, <2>1
  <2>3. GoesOn(p, P)
    <3>1. PICK r \in Seq(Roots) : P = p \o (<<x>> \o r) /\ <<x>> \o r # <<>>
      BY <1>0, <1>9, <2>2, GoesOnFromAppend
    <3>2. <<x>> \o r \in Seq(Roots)
      BY ConcatProperties
    <3>3. QED
      BY <3>1, <3>2 DEF GoesOn
  <2>4. QED
    BY <1>5, <2>3 DEF p
<1>11. CASE ~ (c + v < n)
  <2>1. g * v = c
    BY <1>0, <1>4, <1>5, <1>6, <1>11
  <2>2. Slice(e, c, c + v) = Slice(e, c, c + 2 * v)
    <3> DEFINE lo == c + v
               hi == c + 2 * v
    <3>1. lo \in Nat /\ hi \in Nat /\ Len(e) <= lo /\ Len(e) <= hi
      BY <1>0, <1>4, <1>6, <1>11
    <3> HIDE DEF lo, hi
    <3>2. Slice(e, c, lo) = Slice(e, c, hi)
      BY <1>6, <3>1, SliceEnd
    <3>3. QED
      BY <3>2 DEF lo, hi
  <2>3. p = PathIn(e, i, c, c + 2 * v)
    BY <2>1, <2>2 DEF PathIn
  <2>4. c # 0
    <3> SUFFICES ASSUME c = 0
                 PROVE  FALSE
      OBVIOUS
    <3>1. QED
      BY <1>4, <1>11
  <2>5. GoesOn(p, P)
    BY <1>8, <2>3, <2>4
  <2>6. QED
    BY <1>5, <2>5
<1>12. QED
  BY <1>10, <1>11

(* At a width of all leaves or more there is one subtree, the whole tree. *)
LEMMA AtTop ==
    ASSUME NEW e \in Logged, NEW i \in 0 .. Len(e) - 1,
           NEW w \in Width, Len(e) <= w, NEW f \in Nat, f * w <= i
    PROVE  /\ RootOf(e, f * w, f * w + w) = root[e]
           /\ PathIn(e, i, f * w, f * w + w) = inclusionPath[e][i]
<1>0. w \in Nat \ {0} /\ Len(e) \in Nat /\ i \in Nat /\ i < Len(e)
  BY WidthType, LenProperties DEF Logged
<1>1. f = 0
  <2>1. f # 0 => w <= f * w
    BY <1>0
  <2>2. ~ (w <= f * w)
    <3> DEFINE b == f * w
    <3>1. b \in Nat
      BY <1>0
    <3> HIDE DEF b
    <3>2. b <= i
      BY DEF b
    <3>3. ~ (w <= b)
      BY <1>0, <3>1, <3>2
    <3>4. QED
      BY <3>3 DEF b
  <2>3. QED
    BY <2>1, <2>2
<1>2. f * w = 0 /\ f * w + w = w /\ i - 0 = i
  BY <1>0, <1>1
<1>3. Slice(e, 0, w) = e
  BY <1>0, SliceAll
<1>4. QED
  BY <1>2, <1>3 DEF RootOf, PathIn

-----------------------------------------------------------------------------
(* Hashes: a leaf, an inner node and the empty tree are told apart. *)

LEMMA LeafRoot ==
    ASSUME NEW e \in Logged, NEW x, root[e] = LeafHash(x)
    PROVE  Len(e) = 1 /\ e[1] = x
<1>1. e \in Seq(Entry) /\ e # <<>> /\ Len(e) \in Nat
  BY LenProperties DEF Logged
<1>2. root[e] = IF Len(e) = 1 THEN LeafHash(e[1])
                ELSE NodeHash(root[Left(e)], root[Right(e)])
  BY <1>1, RootEquation DEF RootStep
<1>3. \A a, b : LeafHash(x) # NodeHash(a, b)
  BY DEF LeafHash, NodeHash
<1>4. \A y : LeafHash(y) = LeafHash(x) => y = x
  BY DEF LeafHash
<1>5. QED
  BY <1>2, <1>3, <1>4

LEMMA NodeRoot ==
    ASSUME NEW e \in Logged, NEW a, NEW b, root[e] = NodeHash(a, b)
    PROVE  Len(e) > 1 /\ root[Left(e)] = a /\ root[Right(e)] = b
<1>1. e \in Seq(Entry) /\ e # <<>> /\ Len(e) \in Nat
  BY LenProperties DEF Logged
<1>2. root[e] = IF Len(e) = 1 THEN LeafHash(e[1])
                ELSE NodeHash(root[Left(e)], root[Right(e)])
  BY <1>1, RootEquation DEF RootStep
<1>3. \A x : LeafHash(x) # NodeHash(a, b)
  BY DEF LeafHash, NodeHash
<1>4. Len(e) # 1
  BY <1>2, <1>3
<1>5. Len(e) > 1
  <2>1. Len(e) # 0
    BY <1>1, EmptySeq
  <2>2. \A m \in Nat : m # 0 /\ m # 1 => m > 1
    OBVIOUS
  <2>3. QED
    BY <1>1, <1>4, <2>1, <2>2
<1>6. NodeHash(root[Left(e)], root[Right(e)]) = NodeHash(a, b)
  BY <1>2, <1>4
<1>7. \A x, y : NodeHash(x, y) = NodeHash(a, b) => x = a /\ y = b
  BY DEF NodeHash
<1>8. QED
  BY <1>5, <1>6, <1>7

LEMMA LeafPart ==
    ASSUME NEW e \in Logged, NEW i \in 0 .. Len(e) - 1
    PROVE  /\ RootOf(e, i, i + 1) = LeafHash(e[i + 1])
           /\ PathIn(e, i, i, i + 1) = <<>>
<1> DEFINE t == Slice(e, i, i + 1)
<1>0. i \in Nat /\ Len(e) \in Nat /\ i < Len(e)
  BY LenProperties DEF Logged
<1> DEFINE hi == i + 1
<1>1. hi \in Nat /\ i < hi /\ hi <= Len(e) /\ hi - i = 1
  BY <1>0
<1> HIDE DEF hi
<1>2. t \in Logged /\ Len(t) = 1 /\ t[1] = e[i + 1]
  <2>1. /\ Slice(e, i, hi) \in Logged
        /\ Len(Slice(e, i, hi)) = IF hi <= Len(e) THEN hi - i ELSE Len(e) - i
        /\ \A k \in 1 .. Len(Slice(e, i, hi)) : Slice(e, i, hi)[k] = e[i + k]
    BY <1>0, <1>1, SliceType
  <2>2. t = Slice(e, i, hi)
    BY DEF hi
  <2> HIDE DEF t
  <2>3. t \in Logged /\ Len(t) = 1
    BY <1>1, <2>1, <2>2
  <2>4. 1 \in 1 .. Len(t)
    BY <2>3
  <2>5. QED
    BY <2>1, <2>2, <2>3, <2>4
<1> HIDE DEF t
<1>3. t \in Seq(Entry) /\ t # <<>>
  BY <1>2 DEF Logged
<1>4. root[t] = LeafHash(t[1])
  BY <1>2, <1>3, RootEquation DEF RootStep
<1>5. inclusionPath[t][0] = <<>>
  <2>1. inclusionPath[t] = PathStep(inclusionPath, t)
    BY <1>2, PathEquation
  <2>2. 0 \in 0 .. Len(t) - 1
    BY <1>2
  <2>3. PathStep(inclusionPath, t)[0] = <<>>
    BY <1>2, <2>2 DEF PathStep
  <2>4. QED
    BY <2>1, <2>3
<1>6. i - i = 0
  BY <1>0
<1>7. QED
  BY <1>2, <1>4, <1>5, <1>6 DEF RootOf, PathIn, t

-----------------------------------------------------------------------------
(* Types. *)

Typed ==
    /\ log \in Logged
    /\ claim \in [index : Nat, entry : Entry, path : Seq(Roots)]
    /\ verifier \in {"python", "node"}
    /\ pc \in {"start", "loop", "accept", "reject"}
    /\ rest \in Seq(Roots)
    /\ fn \in Nat
    /\ sn \in Nat
    /\ pc = "start" => rest = claim.path

LEMMA ClaimTypes ==
    ASSUME NEW e \in Logged, NEW c \in Claims(e)
    PROVE  c \in [index : Nat, entry : Entry, path : Seq(Roots)]
<1>0. Len(e) \in Nat
  BY LenProperties DEF Logged
<1>1. PICK q \in PathsOf(e) : c.path \in Cut(q)
  BY DEF Claims
<1>2. PICK m \in 1 .. Len(e) : \E i \in 0 .. m - 1 :
         q = inclusionPath[SubSeq(e, 1, m)][i]
  BY DEF PathsOf
<1>3. PICK i \in 0 .. m - 1 : q = inclusionPath[SubSeq(e, 1, m)][i]
  BY <1>2
<1>4. SubSeq(e, 1, m) \in Logged /\ Len(SubSeq(e, 1, m)) = m
  <2>0. m \in Nat /\ 0 < m /\ 0 < Len(e) /\ m <= Len(e) /\ m - 0 = m
    BY <1>0
  <2>1. /\ Slice(e, 0, m) \in Logged
        /\ Len(Slice(e, 0, m)) = IF m <= Len(e) THEN m - 0 ELSE Len(e) - 0
    BY <2>0, SliceType
  <2>2. Slice(e, 0, m) = SubSeq(e, 1, m)
    BY <2>0 DEF Slice
  <2>3. QED
    BY <2>0, <2>1, <2>2
<1>5. q \in Seq(Roots)
  <2> DEFINE t == SubSeq(e, 1, m)
  <2>1. t \in Logged /\ i \in 0 .. Len(t) - 1
    BY <1>4
  <2> HIDE DEF t
  <2>2. inclusionPath[t][i] \in Seq(Roots)
    BY <2>1, PathType
  <2>3. QED
    BY <1>3, <2>2 DEF t
<1>6. c.path \in Seq(Roots)
  <2>1. CASE q = <<>>
    BY <1>1, <1>5, <2>1 DEF Cut
  <2>2. CASE q # <<>>
    <3>1. Tail(q) \in Seq(Roots)
      BY <1>5, <2>2, HeadTailProperties
    <3>2. SubSeq(q, 1, Len(q) - 1) \in Seq(Roots)
      <4>1. Len(q) \in Nat /\ \A k \in 1 .. Len(q) : q[k] \in Roots
        BY <1>5, LenProperties, ElementOfSeq
      <4> DEFINE k == Len(q) - 1
      <4>2. 1 \in Int /\ k \in Int /\ \A j \in 1 .. k : q[j] \in Roots
        BY <4>1
      <4> HIDE DEF k
      <4>3. SubSeq(q, 1, k) \in Seq(Roots)
        BY <4>2, SubSeqProperties
      <4>4. QED
        BY <4>3 DEF k
    <3>3. QED
      BY <1>1, <1>5, <2>2, <3>1, <3>2 DEF Cut
  <2>3. QED
    BY <2>1, <2>2
<1>7. QED
  BY <1>0, <1>6 DEF Claims

LEMMA AlwaysTyped == Spec => []Typed
<1>1. Init => Typed
  BY ClaimTypes, VerifierAssumption DEF Init, Typed, Logged
<1>2. Typed /\ [Next]_vars => Typed'
  <2> SUFFICES ASSUME Typed, [Next]_vars
               PROVE  Typed'
    OBVIOUS
  <2>0. Len(log) \in Nat /\ Len(log) - 1 \in Nat
    <3>1. Len(log) \in Nat \ {0}
      BY EmptySeq DEF Typed, Logged
    <3>2. \A n \in Nat \ {0} : n \in Nat /\ n - 1 \in Nat
      OBVIOUS
    <3>3. QED
      BY <3>1, <3>2
  <2>1. CASE StartPython \/ StartNode
    BY <2>0, <2>1 DEF StartPython, StartNode, Begin, Typed
  <2>2. CASE RefusePython \/ TooLong \/ Decide
    BY <2>2 DEF RefusePython, TooLong, Decide, Typed
  <2>3. CASE TakeLeft
    <3>1. climb[<<fn, sn>>] \in Level
      BY ClimbType DEF Typed, Level
    <3>2. fn' \in Nat /\ sn' \in Nat
      <4> DEFINE l == climb[<<fn, sn>>]
      <4>1. l[1] \in Nat /\ l[2] \in Nat
        BY <3>1 DEF Level
      <4> HIDE DEF l
      <4>2. l[1] \div 2 \in Nat /\ l[2] \div 2 \in Nat
        BY <4>1
      <4>3. QED
        BY <2>3, <4>2 DEF TakeLeft, Halve, l
    <3>3. Tail(rest) \in Seq(Roots)
      BY <2>3, HeadTailProperties DEF TakeLeft, Typed
    <3>4. QED
      BY <2>3, <3>2, <3>3 DEF TakeLeft, Typed
  <2>4. CASE TakeRight
    <3>1. fn \div 2 \in Nat /\ sn \div 2 \in Nat
      BY DEF Typed
    <3>2. fn' \in Nat /\ sn' \in Nat
      BY <2>4, <3>1 DEF TakeRight, Halve
    <3>3. Tail(rest) \in Seq(Roots)
      BY <2>4, HeadTailProperties DEF TakeRight, Typed
    <3>4. QED
      BY <2>4, <3>2, <3>3 DEF TakeRight, Typed
  <2>5. CASE UNCHANGED vars
    BY <2>5 DEF vars, Typed
  <2>6. QED
    BY <2>1, <2>2, <2>3, <2>4, <2>5 DEF Next
<1>3. QED
  BY <1>1, <1>2, PTL DEF Spec

-----------------------------------------------------------------------------
(* What either program accepts is in the log: the hash it computed is the root
   of no entries in which the claimed one has not the path used so far. *)

(* The claimed entry is one of e, and what is used of the path is its path. *)
UsedIn(e, left) ==
    \E i \in 0 .. Len(e) - 1 :
       /\ claim.entry = e[i + 1]
       /\ claim.path = inclusionPath[e][i] \o left

ContainedInv ==
    /\ pc = "loop" =>
         \A e \in Logged : computed = root[e] => UsedIn(e, rest)
    /\ pc = "accept" => UsedIn(log, <<>>)

(* The entries of the two halves. *)
LEMMA HalvesEntries ==
    ASSUME NEW e \in Logged, Len(e) > 1
    PROVE  /\ \A i \in 1 .. Split(Len(e)) : Left(e)[i] = e[i]
           /\ \A i \in 1 .. Len(e) - Split(Len(e)) : Right(e)[i] = e[Split(Len(e)) + i]
<1> DEFINE k == Split(Len(e))
<1>0. e \in Seq(Entry) /\ Len(e) \in Nat
  BY LenProperties DEF Logged
<1>1. k \in 1 .. Len(e) - 1 /\ Len(Left(e)) = k /\ Len(Right(e)) = Len(e) - k
  BY <1>0, Halves
<1>2. Left(e) = SubSeq(e, 1, k) /\ Right(e) = SubSeq(e, k + 1, Len(e))
  BY DEF Left, Right
<1> HIDE DEF k
<1>3. \A i \in 1 .. Len(e) : e[i] \in Entry
  BY <1>0, ElementOfSeq
<1>4. \A i \in 1 .. k : Left(e)[i] = e[i]
  <2>1. 1 \in Int /\ k \in Int /\ \A i \in 1 .. k : e[i] \in Entry
    BY <1>0, <1>1, <1>3
  <2>2. \A i \in 1 .. k - 1 + 1 : SubSeq(e, 1, k)[i] = e[1 + i - 1]
    BY <2>1, SubSeqProperties
  <2>3. k - 1 + 1 = k /\ \A i \in Int : 1 + i - 1 = i
    BY <1>1
  <2>4. QED
    BY <1>1, <1>2, <2>2, <2>3
<1>5. \A i \in 1 .. Len(e) - k : Right(e)[i] = e[k + i]
  <2> DEFINE m == k + 1
             n == Len(e)
  <2>1. m \in Int /\ n \in Int /\ \A i \in m .. n : e[i] \in Entry
    BY <1>0, <1>1, <1>3
  <2>2. n - m + 1 = n - k /\ \A i \in Int : m + i - 1 = k + i
    BY <1>0, <1>1
  <2> HIDE DEF m, n
  <2>3. \A i \in 1 .. n - m + 1 : SubSeq(e, m, n)[i] = e[m + i - 1]
    BY <2>1, SubSeqProperties
  <2>4. QED
    BY <1>0, <1>1, <1>2, <2>2, <2>3 DEF m, n
<1>6. QED
  BY <1>4, <1>5 DEF k

(* The sibling that comes next takes a path in a half to one in the whole. *)
LEMMA UsedInHalves ==
    ASSUME NEW e \in Logged, Len(e) > 1, Typed, rest # <<>>
    PROVE  \/ UsedIn(Left(e), rest) /\ Head(rest) = root[Right(e)]
           \/ UsedIn(Right(e), rest) /\ Head(rest) = root[Left(e)]
           => UsedIn(e, Tail(rest))
<1> DEFINE k == Split(Len(e))
<1>0. e \in Seq(Entry) /\ Len(e) \in Nat
  BY LenProperties DEF Logged
<1>1. k \in 1 .. Len(e) - 1 /\ Len(Left(e)) = k /\ Len(Right(e)) = Len(e) - k
  BY <1>0, Halves
<1>2. \A i \in 1 .. k : Left(e)[i] = e[i]
  BY HalvesEntries
<1>3. \A i \in 1 .. Len(e) - k : Right(e)[i] = e[k + i]
  BY HalvesEntries
<1> HIDE DEF k
<1>4. Left(e) \in Logged /\ Right(e) \in Logged
  BY <1>0, Halves DEF Logged
<1>5. /\ Head(rest) \in Roots /\ Tail(rest) \in Seq(Roots)
      /\ rest = <<Head(rest)>> \o Tail(rest)
  <2>1. rest \in Seq(Roots)
    BY DEF Typed
  <2>2. Head(rest) \in Roots /\ Tail(rest) \in Seq(Roots)
    BY <2>1, HeadTailProperties
  <2>3. rest = <<Head(rest)>> \o Tail(rest)
    BY <2>1
  <2>4. QED
    BY <2>2, <2>3
<1>6. ASSUME NEW p \in Seq(Roots)
      PROVE  p \o rest = Append(p, Head(rest)) \o Tail(rest)
  <2> DEFINE x == Head(rest)
             t == Tail(rest)
  <2>1. <<x>> \in Seq(Roots) /\ Append(p, x) = p \o <<x>>
    BY <1>5, AppendIsConcat
  <2>2. t \in Seq(Roots) /\ rest = <<x>> \o t
    BY <1>5
  <2> HIDE DEF x, t
  <2>3. (p \o <<x>>) \o t = p \o (<<x>> \o t)
    BY <2>1, <2>2, ConcatAssociative
  <2>4. p \o rest = Append(p, x) \o t
    BY <2>1, <2>2, <2>3
  <2>5. QED
    BY <2>4 DEF x, t
<1>7. ASSUME NEW i \in 0 .. Len(e) - 1
      PROVE  inclusionPath[e][i] =
                IF i < k
                THEN Append(inclusionPath[Left(e)][i], root[Right(e)])
                ELSE Append(inclusionPath[Right(e)][i - k], root[Left(e)])
  <2>1. inclusionPath[e] = PathStep(inclusionPath, e)
    BY PathEquation
  <2>2. Len(e) # 1
    <3>1. \A n \in Nat : n > 1 => n # 1
      OBVIOUS
    <3>2. QED
      BY <1>0, <3>1
  <2>3. QED
    BY <2>1, <2>2 DEF PathStep, k
<1>8. CASE UsedIn(Left(e), rest) /\ Head(rest) = root[Right(e)]
  <2>1. PICK i \in 0 .. k - 1 :
          /\ claim.entry = Left(e)[i + 1]
          /\ claim.path = inclusionPath[Left(e)][i] \o rest
    BY <1>1, <1>8 DEF UsedIn
  <2>2. i \in 0 .. Len(e) - 1 /\ i < k /\ i + 1 \in 1 .. k
    BY <1>0, <1>1
  <2>3. claim.entry = e[i + 1]
    BY <1>2, <2>1, <2>2
  <2>4. inclusionPath[Left(e)][i] \in Seq(Roots)
    BY <1>1, <1>4, PathType
  <2>5. inclusionPath[e][i] = Append(inclusionPath[Left(e)][i], Head(rest))
    BY <1>7, <1>8, <2>2
  <2>6. QED
    BY <1>6, <2>1, <2>2, <2>3, <2>4, <2>5 DEF UsedIn
<1>9. CASE UsedIn(Right(e), rest) /\ Head(rest) = root[Left(e)]
  <2> DEFINE m == Len(e) - k
  <2>1. PICK i \in 0 .. m - 1 :
          /\ claim.entry = Right(e)[i + 1]
          /\ claim.path = inclusionPath[Right(e)][i] \o rest
    BY <1>1, <1>9 DEF UsedIn
  <2> DEFINE j == k + i
  <2>2. /\ j \in 0 .. Len(e) - 1 /\ ~ (j < k) /\ i + 1 \in 1 .. Len(e) - k
        /\ k + (i + 1) = j + 1 /\ j - k = i
    BY <1>0, <1>1
  <2>3. claim.entry = e[j + 1]
    BY <1>3, <2>1, <2>2
  <2>4. inclusionPath[Right(e)][i] \in Seq(Roots)
    BY <1>1, <1>4, PathType
  <2> HIDE DEF j
  <2>5. inclusionPath[e][j] = Append(inclusionPath[Right(e)][i], Head(rest))
    BY <1>7, <1>9, <2>2
  <2>6. QED
    BY <1>6, <2>1, <2>2, <2>3, <2>4, <2>5 DEF UsedIn
<1>10. QED
  BY <1>8, <1>9

(* Neither program accepts anything but an entry of the log with the path that
   the log gives for it, whatever is claimed, for logs of any length. *)
THEOREM AcceptedLogged == Spec => []AcceptedIsLogged
<1>1. Init => ContainedInv
  BY DEF Init, ContainedInv
<1>2. Typed /\ ContainedInv /\ [Next]_vars => ContainedInv'
  <2> SUFFICES ASSUME Typed, ContainedInv, [Next]_vars
               PROVE  ContainedInv'
    OBVIOUS
  <2>1. CASE StartPython \/ StartNode
    <3>1. /\ pc' = "loop" /\ UNCHANGED <<log, claim>>
          /\ computed' = LeafHash(claim.entry)
      BY <2>1 DEF StartPython, StartNode, Begin
    <3>2. ASSUME NEW e \in Logged, computed' = root[e]
          PROVE  UsedIn(e, rest)
      <4>1. Len(e) = 1 /\ e[1] = claim.entry
        BY <3>1, <3>2, LeafRoot
      <4>2. 0 \in 0 .. Len(e) - 1 /\ 0 + 1 = 1
        BY <4>1
      <4>3. inclusionPath[e][0] = <<>>
        BY <4>1, <4>2, PathEquation DEF PathStep
      <4>4. claim.path \in Seq(Roots) /\ <<>> \o claim.path = claim.path
        BY ConcatEmptySeq DEF Typed
      <4>5. rest = claim.path
        BY <2>1 DEF StartPython, StartNode, Typed
      <4>6. QED
        BY <4>1, <4>2, <4>3, <4>4, <4>5 DEF UsedIn
    <3>3. UNCHANGED rest
      BY <2>1 DEF StartPython, StartNode, Begin
    <3>4. QED
      BY <3>1, <3>2, <3>3 DEF ContainedInv, UsedIn
  <2>2. CASE RefusePython \/ TooLong
    BY <2>2 DEF RefusePython, TooLong, ContainedInv
  <2>3. CASE TakeLeft \/ TakeRight
    <3>1. /\ pc = "loop" /\ UNCHANGED <<pc, log, claim>>
          /\ rest # <<>> /\ rest' = Tail(rest)
          /\ \/ computed' = NodeHash(Head(rest), computed)
             \/ computed' = NodeHash(computed, Head(rest))
      BY <2>3 DEF TakeLeft, TakeRight
    <3>2. ASSUME NEW e \in Logged, computed' = root[e]
          PROVE  UsedIn(e, Tail(rest))
      <4>1. /\ Len(e) > 1
            /\ \/ computed = root[Left(e)] /\ Head(rest) = root[Right(e)]
               \/ computed = root[Right(e)] /\ Head(rest) = root[Left(e)]
        BY <3>1, <3>2, NodeRoot
      <4>2. Left(e) \in Logged /\ Right(e) \in Logged
        BY <4>1, Halves DEF Logged
      <4>3. \/ UsedIn(Left(e), rest) /\ Head(rest) = root[Right(e)]
            \/ UsedIn(Right(e), rest) /\ Head(rest) = root[Left(e)]
        BY <3>1, <4>1, <4>2 DEF ContainedInv
      <4>4. QED
        BY <3>1, <4>1, <4>3, UsedInHalves
    <3>3. QED
      BY <3>1, <3>2 DEF ContainedInv, UsedIn
  <2>4. CASE Decide
    <3>1. /\ pc = "loop" /\ rest = <<>> /\ UNCHANGED <<log, claim>>
          /\ pc' # "loop" /\ (pc' = "accept" => computed = root[log])
      BY <2>4 DEF Decide, AtRoot
    <3>2. pc' = "accept" => UsedIn(log, <<>>)
      BY <3>1 DEF ContainedInv, Typed
    <3>3. QED
      BY <3>1, <3>2 DEF ContainedInv, UsedIn
  <2>5. CASE UNCHANGED vars
    BY <2>5 DEF vars, ContainedInv, UsedIn
  <2>6. QED
    BY <2>1, <2>2, <2>3, <2>4, <2>5 DEF Next
<1>3. Typed /\ ContainedInv => AcceptedIsLogged
  <2> SUFFICES ASSUME Typed, ContainedInv, pc = "accept"
               PROVE  \E i \in 0 .. Len(log) - 1 :
                         claim.entry = log[i + 1] /\ claim.path = inclusionPath[log][i]
    BY DEF AcceptedIsLogged
  <2>1. PICK i \in 0 .. Len(log) - 1 :
          claim.entry = log[i + 1] /\ claim.path = inclusionPath[log][i] \o <<>>
    BY DEF ContainedInv, UsedIn
  <2>2. inclusionPath[log][i] \o <<>> = inclusionPath[log][i]
    BY PathType, ConcatEmptySeq DEF Typed
  <2>3. QED
    BY <2>1, <2>2
<1>4. QED
  BY <1>1, <1>2, <1>3, AlwaysTyped, PTL DEF Spec

-----------------------------------------------------------------------------
(* The Python program decides whether the proof is the one that the log gives.
   On its way up, at a subtree of width w, it has used the part of the path that
   lies within the subtree, and has its root exactly if everything so far was
   as in the log. *)

(* The program is at the subtree f of width w, and s is the last of that width. *)
Position(w, f, s) ==
    /\ f * w <= claim.index
    /\ claim.index < f * w + w
    /\ s * w <= Len(log) - 1
    /\ Len(log) - 1 < s * w + w

(* c is the hash computed for the leaves lo to hi - 1, r what is left of the
   path. *)
Agrees(lo, hi, c, r) ==
    /\ c = RootOf(log, lo, hi) =>
         /\ claim.entry = log[claim.index + 1]
         /\ claim.path = PathIn(log, claim.index, lo, hi) \o r
    /\ IsHonest =>
         /\ c = RootOf(log, lo, hi)
         /\ claim.path = PathIn(log, claim.index, lo, hi) \o r

Climbing ==
    /\ claim.index < Len(log)
    /\ \E w \in Width :
          Position(w, fn, sn) /\ Agrees(fn * w, fn * w + w, computed, rest)

PythonInv ==
    verifier = "python" =>
       /\ pc = "loop" => Climbing
       /\ pc = "accept" => IsHonest
       /\ pc = "reject" => ~ IsHonest

LEMMA IndexType ==
    ASSUME Typed, claim.index < Len(log)
    PROVE  /\ Len(log) \in Nat
           /\ claim.index \in Nat
           /\ claim.index \in 0 .. Len(log) - 1
<1>1. Len(log) \in Nat /\ claim.index \in Nat
  BY LenProperties DEF Typed, Logged
<1>2. QED
  BY <1>1

(* The last node of a level is node 0 exactly at the top. *)
LEMMA TopIs ==
    ASSUME Typed, NEW w \in Width, NEW f \in Nat, NEW s \in Nat,
           claim.index < Len(log), Position(w, f, s)
    PROVE  s = 0 <=> Len(log) <= w
<1>0. w \in Nat \ {0} /\ Len(log) \in Nat
  BY WidthType, IndexType
<1>1. s = 0 => s * w = 0
  BY <1>0
<1>2. s # 0 => w <= s * w
  BY <1>0
<1> DEFINE b == s * w
<1>3. b \in Nat /\ b <= Len(log) - 1 /\ Len(log) - 1 < b + w
  BY <1>0 DEF Position
<1>4. (s = 0 => b = 0) /\ (s # 0 => w <= b)
  BY <1>1, <1>2
<1> HIDE DEF b
<1>5. QED
  BY <1>0, <1>3, <1>4

(* One sibling: from a half of a subtree of width 2w to the whole of it. *)
LEMMA TakeSibling ==
    ASSUME Typed, claim.index < Len(log), rest # <<>>,
           NEW w \in Width, NEW j \in Nat, NEW c \in Nat, c = j * (2 * w),
           c <= claim.index, claim.index < c + 2 * w, c + w < Len(log)
    PROVE  /\ /\ claim.index < c + w
              /\ Agrees(c, c + w, computed, rest)
              => Agrees(c, c + 2 * w, NodeHash(computed, Head(rest)), Tail(rest))
           /\ /\ ~ (claim.index < c + w)
              /\ Agrees(c + w, c + 2 * w, computed, rest)
              => Agrees(c, c + 2 * w, NodeHash(Head(rest), computed), Tail(rest))
<1> DEFINE i == claim.index
           left == RootOf(log, c, c + w)
           right == RootOf(log, c + w, c + 2 * w)
           low == PathIn(log, i, c, c + w)
           high == PathIn(log, i, c + w, c + 2 * w)
           whole == PathIn(log, i, c, c + 2 * w)
           P == inclusionPath[log][i]
<1>0. /\ w \in Nat \ {0} /\ 2 * w \in Width
      /\ log \in Logged /\ Len(log) \in Nat /\ i \in Nat
      /\ i \in 0 .. Len(log) - 1
  BY WidthType, IndexType DEF Typed
<1>1. /\ RootOf(log, c, c + 2 * w) = NodeHash(left, right)
      /\ whole = IF i < c + w THEN Append(low, right) ELSE Append(high, left)
  BY <1>0, Doubled
<1>2. P \in Seq(Roots)
  BY <1>0, PathType
<1>3. whole = P \/ GoesOn(whole, P)
  <2> DEFINE v == 2 * w
  <2>1. v \in Width /\ v \in Nat /\ c + v = j * v + v /\ j * v <= i /\ i < j * v + v
    BY <1>0
  <2>2. whole = PathIn(log, i, j * v, j * v + v)
    BY <2>1
  <2> HIDE DEF v, whole, P, i
  <2>3. CASE v < Len(log)
    BY <1>0, <2>1, <2>2, <2>3, PathGoesOn DEF P
  <2>4. CASE ~ (v < Len(log))
    <3>1. Len(log) <= v
      BY <1>0, <2>1, <2>4
    <3>2. QED
      BY <1>0, <2>1, <2>2, <3>1, AtTop DEF P
  <2>5. QED
    BY <2>3, <2>4
<1>4. left \in Roots /\ right \in Roots
  <2> DEFINE lo == c + w
             hi == c + 2 * w
  <2>1. lo \in Nat /\ hi \in Nat /\ c < lo /\ lo < hi /\ c < Len(log) /\ lo < Len(log)
    BY <1>0
  <2> HIDE DEF lo, hi
  <2>2. RootOf(log, c, lo) \in Roots /\ RootOf(log, lo, hi) \in Roots
    BY <1>0, <2>1, PartTypes
  <2>3. QED
    BY <2>2 DEF lo, hi
<1>5. IF i < c + w THEN low \in Seq(Roots) ELSE high \in Seq(Roots)
  <2> DEFINE lo == c + w
             hi == c + 2 * w
  <2>1. /\ lo \in Nat /\ hi \in Nat /\ c < lo /\ lo < hi
        /\ c < Len(log) /\ lo < Len(log) /\ i < hi
        /\ i < lo \/ lo <= i
    BY <1>0
  <2> HIDE DEF lo, hi, i
  <2>2. /\ i < lo => PathIn(log, i, c, lo) \in Seq(Roots)
        /\ lo <= i => PathIn(log, i, lo, hi) \in Seq(Roots)
    BY <1>0, <2>1, PartTypes DEF i
  <2>3. IF i < lo THEN PathIn(log, i, c, lo) \in Seq(Roots)
                  ELSE PathIn(log, i, lo, hi) \in Seq(Roots)
    BY <2>1, <2>2
  <2>4. QED
    BY <2>3 DEF lo, hi
<1>6. /\ Head(rest) \in Roots /\ Tail(rest) \in Seq(Roots)
      /\ rest = <<Head(rest)>> \o Tail(rest)
  <2>1. rest \in Seq(Roots)
    BY DEF Typed
  <2>2. Head(rest) \in Roots /\ Tail(rest) \in Seq(Roots)
    BY <2>1, HeadTailProperties
  <2>3. rest = <<Head(rest)>> \o Tail(rest)
    BY <2>1
  <2>4. QED
    BY <2>2, <2>3
<1>7. claim.path = P => IsHonest \/ claim.entry # log[i + 1]
  BY DEF IsHonest
<1>8. IsHonest => claim.path = P
  BY DEF IsHonest
(* What holds of the part of the path, and of the sibling that has to follow. *)
<1>9. ASSUME NEW p \in Seq(Roots), NEW x \in Roots, whole = Append(p, x)
      PROVE  /\ Head(rest) = x /\ claim.path = p \o rest =>
                   claim.path = whole \o Tail(rest)
             /\ IsHonest /\ claim.path = p \o rest =>
                   Head(rest) = x /\ claim.path = whole \o Tail(rest)
  <2> HIDE DEF whole, P
  <2>1. <<x>> \in Seq(Roots) /\ whole = p \o <<x>>
    BY <1>9, AppendIsConcat
  <2>2. whole \o Tail(rest) = p \o (<<x>> \o Tail(rest))
    BY <1>6, <2>1, ConcatAssociative
  <2>3. Head(rest) = x /\ claim.path = p \o rest => claim.path = whole \o Tail(rest)
    BY <1>6, <2>2
  <2>4. ASSUME IsHonest, claim.path = p \o rest
        PROVE  Head(rest) = x
    <3>1. PICK q \in Seq(Roots) : P = p \o (<<x>> \o q)
      BY <1>2, <1>3, <1>9, GoesOnFromAppend
    <3>2. p \o rest = p \o (<<x>> \o q)
      BY <1>8, <2>4, <3>1
    <3>3. <<x>> \o q \in Seq(Roots) /\ rest \in Seq(Roots)
      BY <2>1, ConcatProperties DEF Typed
    <3>4. rest = <<x>> \o q
      BY <3>2, <3>3, ConcatSimplifications
    <3>5. Head(<<x>> \o q) = x
      <4>1. /\ Len(<<x>>) = 1 /\ <<x>>[1] = x /\ Len(q) \in Nat
        BY LenProperties
      <4>2. 1 \in 1 .. Len(<<x>>) + Len(q)
        BY <4>1
      <4>3. (<<x>> \o q)[1] = x
        BY <2>1, <4>1, <4>2, ConcatProperties
      <4>4. QED
        BY <4>3
    <3>6. QED
      BY <3>4, <3>5
  <2>5. QED
    BY <2>3, <2>4
<1>10. \A a, b, x, y : NodeHash(a, b) = NodeHash(x, y) => a = x /\ b = y
  BY DEF NodeHash
<1> HIDE DEF left, right, low, high, whole, P
<1>11. ASSUME i < c + w, Agrees(c, c + w, computed, rest)
       PROVE  Agrees(c, c + 2 * w, NodeHash(computed, Head(rest)), Tail(rest))
  <2>1. whole = Append(low, right) /\ low \in Seq(Roots)
    BY <1>1, <1>5, <1>11
  <2>2. /\ computed = left =>
             /\ claim.entry = log[claim.index + 1]
             /\ claim.path = low \o rest
        /\ IsHonest => computed = left /\ claim.path = low \o rest
    BY <1>11 DEF Agrees, left, low
  <2>3. /\ NodeHash(computed, Head(rest)) = NodeHash(left, right) =>
             /\ claim.entry = log[claim.index + 1]
             /\ claim.path = whole \o Tail(rest)
        /\ IsHonest => /\ NodeHash(computed, Head(rest)) = NodeHash(left, right)
                       /\ claim.path = whole \o Tail(rest)
    BY <1>4, <1>9, <1>10, <2>1, <2>2
  <2>4. QED
    BY <1>1, <2>3 DEF Agrees, whole
<1>12. ASSUME ~ (i < c + w), Agrees(c + w, c + 2 * w, computed, rest)
       PROVE  Agrees(c, c + 2 * w, NodeHash(Head(rest), computed), Tail(rest))
  <2>1. whole = Append(high, left) /\ high \in Seq(Roots)
    BY <1>1, <1>5, <1>12
  <2>2. /\ computed = right =>
             /\ claim.entry = log[claim.index + 1]
             /\ claim.path = high \o rest
        /\ IsHonest => computed = right /\ claim.path = high \o rest
    BY <1>12 DEF Agrees, right, high
  <2> DEFINE up == NodeHash(Head(rest), computed)
  <2>3. /\ Head(rest) = left /\ claim.path = high \o rest =>
              claim.path = whole \o Tail(rest)
        /\ IsHonest /\ claim.path = high \o rest =>
              Head(rest) = left /\ claim.path = whole \o Tail(rest)
    BY <1>4, <1>9, <2>1
  <2>4. up = NodeHash(left, right) => Head(rest) = left /\ computed = right
    BY <1>10
  <2>5. Head(rest) = left /\ computed = right => up = NodeHash(left, right)
    OBVIOUS
  <2> HIDE DEF up
  <2>6. /\ up = NodeHash(left, right) =>
             /\ claim.entry = log[claim.index + 1]
             /\ claim.path = whole \o Tail(rest)
        /\ IsHonest => /\ up = NodeHash(left, right)
                       /\ claim.path = whole \o Tail(rest)
    BY <2>2, <2>3, <2>4, <2>5
  <2>7. QED
    BY <1>1, <2>6 DEF Agrees, whole, up
<1>13. QED
  BY <1>11, <1>12

LEMMA Multiples ==
    ASSUME NEW w \in Nat, NEW a \in Nat, NEW b \in Nat, a < b
    PROVE  a * w + w <= b * w
<1> DEFINE k == b - a - 1
<1>1. k \in Nat /\ b = a + 1 + k
  OBVIOUS
<1> HIDE DEF k
<1>2. (a + 1 + k) * w = a * w + w + k * w /\ k * w \in Nat /\ a * w \in Nat
  BY <1>1
<1>3. QED
  BY <1>1, <1>2

LEMMA Doubling ==
    ASSUME NEW w \in Nat, NEW f \in Nat
    PROVE  /\ f \div 2 \in Nat
           /\ (f \div 2) * (2 * w) \in Nat
           /\ IsOdd(f) => f * w = (f \div 2) * (2 * w) + w
           /\ ~ IsOdd(f) => f * w = (f \div 2) * (2 * w)
<1> DEFINE j == f \div 2
<1>1. /\ j \in Nat
      /\ IsOdd(f) => f = 2 * j + 1
      /\ ~ IsOdd(f) => f = 2 * j
  BY DEF IsOdd
<1> HIDE DEF j
<1>2. /\ j * (2 * w) \in Nat
      /\ (2 * j + 1) * w = j * (2 * w) + w
      /\ (2 * j) * w = j * (2 * w)
  BY <1>1
<1>3. QED
  BY <1>1, <1>2 DEF j

(* One level up, the program is at the subtree that contains its own. *)
LEMMA PositionUp ==
    ASSUME Typed, claim.index < Len(log),
           NEW w \in Width, NEW f \in Nat, NEW s \in Nat, Position(w, f, s)
    PROVE  /\ 2 * w \in Width
           /\ Position(2 * w, f \div 2, s \div 2)
<1>0. w \in Nat \ {0} /\ 2 * w \in Width /\ Len(log) \in Nat /\ claim.index \in Nat
  BY WidthType, IndexType
<1> DEFINE c == (f \div 2) * (2 * w)
           d == (s \div 2) * (2 * w)
           a == f * w
           b == s * w
<1>1. /\ c \in Nat /\ d \in Nat /\ a \in Nat /\ b \in Nat
      /\ a = c + w \/ a = c
      /\ b = d + w \/ b = d
  BY <1>0, Doubling
<1>2. a <= claim.index /\ claim.index < a + w /\ b <= Len(log) - 1 /\ Len(log) - 1 < b + w
  BY DEF Position
<1>3. Position(2 * w, f \div 2, s \div 2) <=>
        /\ c <= claim.index /\ claim.index < c + 2 * w
        /\ d <= Len(log) - 1 /\ Len(log) - 1 < d + 2 * w
  BY DEF Position
<1> HIDE DEF a, b, c, d
<1>4. c <= claim.index /\ claim.index < c + 2 * w
  BY <1>0, <1>1, <1>2
<1>5. d <= Len(log) - 1 /\ Len(log) - 1 < d + 2 * w
  BY <1>0, <1>1, <1>2
<1>6. QED
  BY <1>0, <1>3, <1>4, <1>5

(* A subtree that is not the last of its level has a sibling on its right. *)
LEMMA NotLast ==
    ASSUME Typed, claim.index < Len(log),
           NEW w \in Width, NEW f \in Nat, NEW s \in Nat, Position(w, f, s), f # s
    PROVE  f * w + w < Len(log)
<1>0. w \in Nat \ {0} /\ Len(log) \in Nat /\ claim.index \in Nat
  BY WidthType, IndexType
<1> DEFINE a == f * w
           b == s * w
<1>1. a \in Nat /\ b \in Nat
  BY <1>0
<1>2. a <= claim.index /\ claim.index < a + w /\ b <= Len(log) - 1 /\ Len(log) - 1 < b + w
  BY DEF Position
<1>3. (f < s => a + w <= b) /\ (s < f => b + w <= a)
  BY <1>0, Multiples
<1> HIDE DEF a, b
<1>4. a + w < Len(log)
  BY <1>0, <1>1, <1>2, <1>3
<1>5. QED
  BY <1>4 DEF a

(* The loop's step, from a right half and from a left half. *)
LEMMA StepUp ==
    ASSUME Typed, claim.index < Len(log), rest # <<>>,
           NEW w \in Width, NEW f \in Nat, NEW s \in Nat, Position(w, f, s),
           Agrees(f * w, f * w + w, computed, rest),
           NEW v, v = 2 * w, NEW j, j = f \div 2
    PROVE  /\ IsOdd(f) =>
                Agrees(j * v, j * v + v, NodeHash(Head(rest), computed), Tail(rest))
           /\ ~ IsOdd(f) /\ f # s =>
                Agrees(j * v, j * v + v, NodeHash(computed, Head(rest)), Tail(rest))
<1>0. w \in Nat \ {0} /\ Len(log) \in Nat /\ claim.index \in Nat
  BY WidthType, IndexType
<1> DEFINE c == j * v
           a == f * w
<1>1. /\ j \in Nat /\ c \in Nat /\ c = j * (2 * w)
      /\ IsOdd(f) => a = c + w
      /\ ~ IsOdd(f) => a = c
  BY <1>0, Doubling
<1>2. /\ a <= claim.index /\ claim.index < a + w
      /\ Agrees(a, a + w, computed, rest)
  BY DEF Position
<1>3. f # s => a + w < Len(log)
  BY NotLast
<1> HIDE DEF a, c
<1>4. ASSUME IsOdd(f)
      PROVE  Agrees(c, c + v, NodeHash(Head(rest), computed), Tail(rest))
  <2>1. /\ c <= claim.index /\ claim.index < c + 2 * w /\ c + w < Len(log)
        /\ ~ (claim.index < c + w) /\ a + w = c + 2 * w
    BY <1>0, <1>1, <1>2, <1>4
  <2>2. Agrees(c + w, c + 2 * w, computed, rest)
    BY <1>1, <1>2, <1>4, <2>1
  <2>3. Agrees(c, c + 2 * w, NodeHash(Head(rest), computed), Tail(rest))
    BY <1>1, <2>1, <2>2, TakeSibling
  <2>4. QED
    BY <2>3
<1>5. ASSUME ~ IsOdd(f), f # s
      PROVE  Agrees(c, c + v, NodeHash(computed, Head(rest)), Tail(rest))
  <2>1. /\ c <= claim.index /\ claim.index < c + 2 * w /\ c + w < Len(log)
        /\ claim.index < c + w
    BY <1>0, <1>1, <1>2, <1>3, <1>5
  <2>2. Agrees(c, c + w, computed, rest)
    BY <1>1, <1>2, <1>5
  <2>3. Agrees(c, c + 2 * w, NodeHash(computed, Head(rest)), Tail(rest))
    BY <1>1, <2>1, <2>2, TakeSibling
  <2>4. QED
    BY <2>3
<1>6. QED
  BY <1>4, <1>5 DEF c

(* Skipping the levels on which the last node has no sibling leaves the program
   at the same leaves. *)
LEMMA Climbed ==
    ASSUME Typed, claim.index < Len(log),
           NEW w \in Width, NEW f \in Nat, NEW s \in Nat \ {0}, Position(w, f, s),
           Agrees(f * w, f * w + w, computed, rest), SiblingIsLeft(f, s)
    PROVE  \E v \in Width, g \in Nat, t \in Nat :
              /\ climb[<<f, s>>] = <<g, t>>
              /\ IsOdd(g)
              /\ Position(v, g, t)
              /\ Agrees(g * v, g * v + v, computed, rest)
<1>0. w \in Nat \ {0} /\ Len(log) \in Nat /\ claim.index \in Nat
  BY WidthType, IndexType
<1>1. CASE IsOdd(f)
  <2>1. climb[<<f, s>>] = ClimbStep(climb, <<f, s>>)
    BY ClimbEquation DEF Level
  <2>2. climb[<<f, s>>] = <<f, s>>
    BY <1>1, <2>1 DEF ClimbStep
  <2>3. QED
    BY <1>1, <2>2
<1>2. CASE ~ IsOdd(f)
  <2>1. f = s
    BY <1>2 DEF SiblingIsLeft
  <2> DEFINE n == Len(log) - 1
             a == f * w
  <2>2. n \in Nat /\ a \in Nat /\ a <= n /\ n < a + w
    BY <1>0, <2>1 DEF Position
  <2>3. (f + 1) * w = a + w
    BY <1>0
  <2>4. n < (f + 1) * w
    BY <2>2, <2>3
  <2> HIDE DEF n, a
  <2>5. PICK v \in Width : \E g \in Nat :
          /\ climb[<<f, f>>] = <<g, g>> /\ IsOdd(g)
          /\ g * v = f * w /\ n < (g + 1) * v /\ w <= v
    BY <2>1, <2>2, <2>4, ClimbFinds
  <2>6. PICK g \in Nat :
          /\ climb[<<f, f>>] = <<g, g>> /\ IsOdd(g)
          /\ g * v = f * w /\ n < (g + 1) * v /\ w <= v
    BY <2>5
  <2>7. v \in Nat
    BY WidthType
  <2>8. (g + 1) * v = a + v /\ g * v = a
    <3>1. (g + 1) * v = g * v + v
      BY <2>7
    <3>2. QED
      BY <2>6, <3>1 DEF a
  <2>9. claim.index < a + w /\ a <= claim.index
    BY DEF Position, a
  <2>10. Position(v, g, g)
    <3>1. /\ a <= claim.index /\ claim.index < a + v
          /\ a <= Len(log) - 1 /\ Len(log) - 1 < a + v
      BY <1>0, <2>2, <2>6, <2>7, <2>8, <2>9 DEF n
    <3>2. QED
      BY <2>8, <3>1 DEF Position
  <2>11. Slice(log, a, a + w) = Slice(log, a, a + v)
    <3> DEFINE lo == a + w
               hi == a + v
    <3>1. lo \in Nat /\ hi \in Nat /\ Len(log) <= lo /\ Len(log) <= hi
      BY <1>0, <2>2, <2>6, <2>7 DEF n
    <3>2. log \in Logged
      BY DEF Typed
    <3> HIDE DEF lo, hi
    <3>3. Slice(log, a, lo) = Slice(log, a, hi)
      BY <2>2, <3>1, <3>2, SliceEnd
    <3>4. QED
      BY <3>3 DEF lo, hi
  <2>12. Agrees(a, a + v, computed, rest)
    <3>1. Agrees(a, a + w, computed, rest)
      BY DEF a
    <3>2. QED
      BY <2>11, <3>1 DEF Agrees, RootOf, PathIn
  <2>13. QED
    BY <2>1, <2>6, <2>8, <2>10, <2>12
<1>3. QED
  BY <1>1, <1>2

(* The start, at the claimed leaf. *)
LEMMA Started ==
    ASSUME Typed, claim.index < Len(log)
    PROVE  /\ Position(1, claim.index, Len(log) - 1)
           /\ Agrees(claim.index * 1, claim.index * 1 + 1,
                     LeafHash(claim.entry), claim.path)
<1> DEFINE i == claim.index
           n == Len(log)
<1>1. n \in Nat /\ i \in Nat /\ i < n /\ i \in 0 .. n - 1 /\ log \in Logged
  BY IndexType DEF Typed
<1>2. RootOf(log, i, i + 1) = LeafHash(log[i + 1]) /\ PathIn(log, i, i, i + 1) = <<>>
  BY <1>1, LeafPart
<1>3. claim.path \in Seq(Roots) /\ <<>> \o claim.path = claim.path
  BY ConcatEmptySeq DEF Typed
<1>4. \A a, b : LeafHash(a) = LeafHash(b) <=> a = b
  BY DEF LeafHash
<1> HIDE DEF i, n
<1>5. i * 1 = i /\ (n - 1) * 1 = n - 1 /\ i < i + 1 /\ n - 1 < n - 1 + 1
  BY <1>1
<1>6. Position(1, i, n - 1)
  BY <1>1, <1>5 DEF Position, i, n
<1>7. Agrees(i, i + 1, LeafHash(claim.entry), claim.path)
  <2>1. IsHonest => claim.entry = log[i + 1]
    BY DEF IsHonest, i
  <2>2. PathIn(log, i, i, i + 1) \o claim.path = claim.path
    BY <1>2, <1>3
  <2>3. LeafHash(claim.entry) = RootOf(log, i, i + 1) <=> claim.entry = log[i + 1]
    BY <1>2, <1>4
  <2>4. QED
    BY <2>1, <2>2, <2>3 DEF Agrees, i
<1>8. QED
  BY <1>5, <1>6, <1>7 DEF i, n

LEMMA StillClimbing ==
    ASSUME UNCHANGED <<log, claim>>, claim.index < Len(log), NEW w \in Width,
           Position(w, fn', sn'), Agrees(fn' * w, fn' * w + w, computed', rest')
    PROVE  Climbing'
BY DEF Climbing, Position, Agrees, IsHonest

(* At the top the program has the root of the log and nothing is left of the
   path exactly for the proof that the log gives. *)
LEMMA Topmost ==
    ASSUME Typed, Climbing, sn = 0
    PROVE  /\ IsHonest <=> computed = root[log] /\ rest = <<>>
<1>1. PICK w \in Width :
        Position(w, fn, sn) /\ Agrees(fn * w, fn * w + w, computed, rest)
  BY DEF Climbing
<1> DEFINE i == claim.index
           P == inclusionPath[log][i]
<1>2. /\ log \in Logged /\ i \in 0 .. Len(log) - 1 /\ i < Len(log)
      /\ fn \in Nat /\ sn \in Nat /\ rest \in Seq(Roots)
  BY IndexType DEF Typed, Climbing
<1>3. Len(log) <= w
  BY <1>1, <1>2, TopIs
<1>4. fn * w <= i
  BY <1>1 DEF Position
<1>5. RootOf(log, fn * w, fn * w + w) = root[log] /\ PathIn(log, i, fn * w, fn * w + w) = P
  BY <1>2, <1>3, <1>4, AtTop
<1>6. P \in Seq(Roots)
  BY <1>2, PathType
<1>7. /\ computed = root[log] => claim.entry = log[i + 1] /\ claim.path = P \o rest
      /\ IsHonest => computed = root[log] /\ claim.path = P \o rest
  BY <1>1, <1>5 DEF Agrees
<1>8. IsHonest <=> claim.entry = log[i + 1] /\ claim.path = P
  BY <1>2 DEF IsHonest
<1> HIDE DEF P
<1>9. P \o rest = P <=> rest = <<>>
  BY <1>2, <1>6, ConcatEqualIffEmpty
<1>10. QED
  BY <1>7, <1>8, <1>9

(* Below the top, the proof that the log gives has a sibling left. *)
LEMMA SiblingLeft ==
    ASSUME Typed, Climbing, sn # 0, IsHonest
    PROVE  rest # <<>>
<1>1. PICK w \in Width :
        Position(w, fn, sn) /\ Agrees(fn * w, fn * w + w, computed, rest)
  BY DEF Climbing
<1> DEFINE i == claim.index
           P == inclusionPath[log][i]
           lo == fn * w
           p == PathIn(log, i, lo, lo + w)
<1>2. /\ log \in Logged /\ i \in 0 .. Len(log) - 1 /\ i < Len(log)
      /\ fn \in Nat /\ sn \in Nat /\ w \in Nat \ {0} /\ Len(log) \in Nat /\ i \in Nat
  BY IndexType, WidthType DEF Typed, Climbing
<1>3. w < Len(log)
  BY <1>1, <1>2, TopIs
<1>4. lo \in Nat /\ lo <= i /\ i < lo + w
  BY <1>1, <1>2 DEF Position
<1>5. GoesOn(p, P)
  BY <1>2, <1>3, <1>4, PathGoesOn
<1>6. P = p \o rest
  BY <1>1 DEF Agrees, IsHonest
<1>7. p \in Seq(Roots)
  <2> DEFINE hi == lo + w
  <2>1. hi \in Nat /\ lo < hi /\ lo < Len(log) /\ i < hi
    BY <1>2, <1>4
  <2> HIDE DEF hi, lo, i
  <2>2. PathIn(log, i, lo, hi) \in Seq(Roots)
    BY <1>2, <1>4, <2>1, PartTypes
  <2>3. QED
    BY <2>2 DEF hi
<1> HIDE DEF p, P
<1>8. SUFFICES ASSUME rest = <<>>
               PROVE  FALSE
  OBVIOUS
<1>9. P = p
  BY <1>6, <1>7, <1>8, ConcatEmptySeq
<1>10. PICK r \in Seq(Roots) : r # <<>> /\ P = p \o r
  BY <1>5 DEF GoesOn
<1>11. QED
  BY <1>7, <1>9, <1>10, ConcatEqualIffEmpty

LEMMA AlwaysDecided == Spec => [](Typed /\ PythonInv)
<1>1. Init => PythonInv
  BY DEF Init, PythonInv
<1>2. Typed /\ PythonInv /\ [Next]_vars => PythonInv'
  <2> SUFFICES ASSUME Typed, PythonInv, [Next]_vars, verifier = "python"
               PROVE  PythonInv'
    BY DEF PythonInv, Next, StartPython, RefusePython, StartNode, Begin,
           TakeLeft, TakeRight, TooLong, Decide, vars
  <2>1. CASE StartPython
    <3>1. /\ UNCHANGED <<log, claim>> /\ claim.index < Len(log) /\ pc' = "loop"
          /\ fn' = claim.index /\ sn' = Len(log) - 1
          /\ computed' = LeafHash(claim.entry) /\ rest' = claim.path
      BY <2>1 DEF StartPython, Begin, Typed
    <3>2. /\ Position(1, fn', sn')
          /\ Agrees(fn' * 1, fn' * 1 + 1, computed', rest')
      BY <3>1, Started
    <3>3. Climbing'
      BY <3>1, <3>2, StillClimbing, WidthType
    <3>4. QED
      BY <3>1, <3>3 DEF PythonInv
  <2>2. CASE RefusePython
    <3>1. claim.index >= Len(log) /\ pc' = "reject" /\ UNCHANGED <<log, claim>>
      BY <2>2 DEF RefusePython
    <3>2. ~ (claim.index < Len(log))
      <4>1. Len(log) \in Nat /\ claim.index \in Nat
        BY LenProperties DEF Typed, Logged
      <4>2. QED
        BY <3>1, <4>1
    <3>3. QED
      BY <3>1, <3>2 DEF PythonInv, IsHonest
  <2>3. CASE StartNode
    BY <2>3 DEF StartNode
  <2>4. CASE TakeLeft
    <3>1. /\ UNCHANGED <<log, claim, pc>> /\ pc = "loop" /\ rest # <<>> /\ sn # 0
          /\ SiblingIsLeft(fn, sn) /\ Halve(climb[<<fn, sn>>])
          /\ computed' = NodeHash(Head(rest), computed) /\ rest' = Tail(rest)
      BY <2>4 DEF TakeLeft
    <3>2. Climbing /\ fn \in Nat /\ sn \in Nat \ {0}
      BY <3>1 DEF PythonInv, Typed
    <3>3. PICK w \in Width :
            Position(w, fn, sn) /\ Agrees(fn * w, fn * w + w, computed, rest)
      BY <3>2 DEF Climbing
    <3>4. claim.index < Len(log)
      BY <3>2 DEF Climbing
    <3>5. PICK v \in Width : \E g \in Nat, t \in Nat :
            /\ climb[<<fn, sn>>] = <<g, t>> /\ IsOdd(g)
            /\ Position(v, g, t) /\ Agrees(g * v, g * v + v, computed, rest)
      BY <3>1, <3>2, <3>3, <3>4, Climbed
    <3>6. PICK g \in Nat, t \in Nat :
            /\ climb[<<fn, sn>>] = <<g, t>> /\ IsOdd(g)
            /\ Position(v, g, t) /\ Agrees(g * v, g * v + v, computed, rest)
      BY <3>5
    <3>7. fn' = g \div 2 /\ sn' = t \div 2
      BY <3>1, <3>6 DEF Halve
    <3>8. 2 * v \in Width /\ Position(2 * v, fn', sn')
      BY <3>4, <3>6, <3>7, PositionUp
    <3> DEFINE u == 2 * v
    <3>9. Agrees(fn' * u, fn' * u + u, computed', rest')
      BY <3>1, <3>4, <3>6, <3>7, StepUp
    <3>10. Climbing'
      BY <3>1, <3>4, <3>8, <3>9, StillClimbing
    <3>11. QED
      BY <3>1, <3>10 DEF PythonInv
  <2>5. CASE TakeRight
    <3>1. /\ UNCHANGED <<log, claim, pc>> /\ pc = "loop" /\ rest # <<>>
          /\ ~ IsOdd(fn) /\ fn # sn /\ fn' = fn \div 2 /\ sn' = sn \div 2
          /\ computed' = NodeHash(computed, Head(rest)) /\ rest' = Tail(rest)
      BY <2>5 DEF TakeRight, SiblingIsLeft, Halve
    <3>2. Climbing /\ fn \in Nat /\ sn \in Nat
      BY <3>1 DEF PythonInv, Typed
    <3>3. PICK w \in Width :
            Position(w, fn, sn) /\ Agrees(fn * w, fn * w + w, computed, rest)
      BY <3>2 DEF Climbing
    <3>4. claim.index < Len(log)
      BY <3>2 DEF Climbing
    <3>5. 2 * w \in Width /\ Position(2 * w, fn', sn')
      BY <3>1, <3>2, <3>3, <3>4, PositionUp
    <3> DEFINE u == 2 * w
    <3>6. Agrees(fn' * u, fn' * u + u, computed', rest')
      BY <3>1, <3>2, <3>3, <3>4, StepUp
    <3>7. Climbing'
      BY <3>1, <3>4, <3>5, <3>6, StillClimbing
    <3>8. QED
      BY <3>1, <3>7 DEF PythonInv
  <2>6. CASE TooLong
    <3>1. /\ pc = "loop" /\ rest # <<>> /\ sn = 0 /\ pc' = "reject"
          /\ UNCHANGED <<log, claim>>
      BY <2>6 DEF TooLong
    <3>2. ~ IsHonest
      BY <3>1, Topmost DEF PythonInv
    <3>3. QED
      BY <3>1, <3>2 DEF PythonInv, IsHonest
  <2>7. CASE Decide
    <3>1. /\ pc = "loop" /\ rest = <<>> /\ UNCHANGED <<log, claim>>
          /\ pc' = IF AtRoot THEN "accept" ELSE "reject"
      BY <2>7 DEF Decide
    <3>2. AtRoot <=> IsHonest
      <4>1. CASE sn = 0
        BY <3>1, <4>1, Topmost DEF PythonInv, AtRoot
      <4>2. CASE sn # 0
        BY <3>1, <4>2, SiblingLeft DEF PythonInv, AtRoot
      <4>3. QED
        BY <4>1, <4>2
    <3>3. QED
      BY <3>1, <3>2 DEF PythonInv, IsHonest
  <2>8. CASE UNCHANGED vars
    BY <2>8 DEF vars, PythonInv, Climbing, Position, Agrees, IsHonest
  <2>9. QED
    BY <2>1, <2>2, <2>3, <2>4, <2>5, <2>6, <2>7, <2>8 DEF Next
<1>3. QED
  BY <1>1, <1>2, AlwaysTyped, PTL DEF Spec

(* The Python program accepts the proof that the log gives for each of its
   lines, for logs of any length. *)
THEOREM HonestAccepted == Spec => []HonestIsAccepted
<1>1. Typed /\ PythonInv => HonestIsAccepted
  BY DEF PythonInv, HonestIsAccepted
<1>2. QED
  BY <1>1, AlwaysDecided, PTL

(* It accepts no other proof: neither one for another line or from an earlier
   size of the log, nor one cut short or with a sibling too many. *)
THEOREM OnlyHonestAccepted == Spec => []OnlyHonestIsAccepted
<1>1. Typed /\ PythonInv => OnlyHonestIsAccepted
  BY DEF PythonInv, OnlyHonestIsAccepted
<1>2. QED
  BY <1>1, AlwaysDecided, PTL
=============================================================================
