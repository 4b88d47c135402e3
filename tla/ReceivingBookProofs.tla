-------------------------- MODULE ReceivingBookProofs --------------------------
(***************************************************************************)
(* Inbound is serializable, and its stock, orders and receipts agree.      *)
(*                                                                         *)
(* IInv of ReceivingProofs says what the documents and the locks on them   *)
(* keep.  Two more parts are needed here.  TInv adds the stock: a posting  *)
(* about to be written fits in what was read, and what was read is what    *)
(* would be read now or recognisably older.  FInv says what an open        *)
(* request has carried out: the calls a Receive has made, replayed on the  *)
(* rows as they are committed at this moment, leave exactly what it wrote, *)
(* because the locks keep every other transaction off those rows.  A       *)
(* commit therefore is one entry of ReceivingBook, and what an entry does  *)
(* to stock and orders is a sum over the lines of the receipt.             *)
(*                                                                         *)
(* The module begins with what it needs of counting: induction over the    *)
(* naturals, from the well-foundedness of <, and sums over finite sets.    *)
(***************************************************************************)
EXTENDS ReceivingProofs, WellFoundedInduction

-----------------------------------------------------------------------------
(* Counting: induction, sums and places *)

Pick(s) == CHOOSE x \in s : TRUE

Adds(f, S, h) ==
    h = [s \in SUBSET S |-> IF s = {} THEN 0 ELSE f[Pick(s)] + h[s \ {Pick(s)}]]

LEMMA SumDef ==
    ASSUME NEW f, NEW S
    PROVE SumFunctionOnSet(f, S) = (CHOOSE h : Adds(f, S, h))[S]
BY DEF SumFunctionOnSet, FoldFunctionOnSet, MapThenFoldSet, Adds, Pick

LEMMA Induction ==
    ASSUME NEW S, 0 \in S, \A n \in Nat : n \in S => n + 1 \in S
    PROVE  Nat \subseteq S
<1> DEFINE R == OpToRel(<, Nat)
           T == Nat \ S
<1>1. IsWellFoundedOn(R, Nat)
    BY NatLessThanWellFounded
<1>2. \A m, n \in Nat : m < n => <<m, n>> \in R
    BY DEF OpToRel
<1> HIDE DEF R
<1>3. SUFFICES ASSUME T # {} PROVE FALSE
    OBVIOUS
<1>4. PICK n \in T : \A m \in T : ~ (<<m, n>> \in R)
    <2>1. T \subseteq Nat
        OBVIOUS
    <2> HIDE DEF T
    <2>2. QED
        BY <1>1, <1>3, <2>1, WFMin
<1>5. n # 0 /\ n \in Nat
    OBVIOUS
<1>6. n - 1 \in Nat /\ n - 1 \notin S
    BY <1>5
<1>7. n - 1 \in T
    BY <1>6
<1>8. QED
    <2>1. n - 1 < n
        BY <1>5
    <2> HIDE DEF T
    <2>2. QED
        BY <1>2, <1>4, <1>5, <1>6, <1>7, <2>1

\* A subset of a finite set has a size, and one element less has one less.
LEMMA Sizes ==
    ASSUME NEW S, IsFiniteSet(S), NEW s \in SUBSET S
    PROVE  /\ Cardinality(s) \in Nat
           /\ IsFiniteSet(s)
           /\ Cardinality(s) <= Cardinality(S)
           /\ Cardinality(s) = 0 <=> s = {}
           /\ \A x \in s : Cardinality(s \ {x}) = Cardinality(s) - 1
<1>1. IsFiniteSet(s) /\ Cardinality(s) <= Cardinality(S)
    BY FS_Subset
<1>2. \A x \in s : Cardinality(s \ {x}) = Cardinality(s) - 1
    BY <1>1, FS_RemoveElement
<1>3. QED
    BY <1>1, <1>2, FS_CardinalityType, FS_EmptySet

LEMMA SumExists ==
    ASSUME NEW f, NEW S, IsFiniteSet(S)
    PROVE  \E h : Adds(f, S, h)
<1> DEFINE NextSum(h, s) == IF s = {} THEN 0 ELSE f[Pick(s)] + h[s \ {Pick(s)}]
           Upto(n, h) == /\ h = [s \in SUBSET S |-> h[s]]
                         /\ \A s \in SUBSET S : Cardinality(s) <= n => h[s] = NextSum(h, s)
           T == {n \in Nat : \E h : Upto(n, h)}
<1>0. \A s \in SUBSET S : s # {} => Pick(s) \in s
    BY DEF Pick
<1>1. 0 \in T
    <2>1. Upto(0, [s \in SUBSET S |-> 0])
        BY Sizes
    <2>2. QED
        BY <2>1
<1>2. ASSUME NEW n \in Nat, n \in T
      PROVE  n + 1 \in T
    <2>1. PICK h : Upto(n, h)
        BY <1>2
    <2> DEFINE g == [s \in SUBSET S |-> IF Cardinality(s) <= n THEN h[s] ELSE NextSum(h, s)]
    <2>2. ASSUME NEW s \in SUBSET S, Cardinality(s) <= n + 1
          PROVE  g[s] = NextSum(g, s)
        <3>1. CASE s = {}
            <4>1. Cardinality(s) <= n
                BY <3>1, Sizes
            <4>2. QED
                BY <2>1, <3>1, <4>1
        <3>2. CASE s # {}
            <4> DEFINE t == s \ {Pick(s)}
            <4>1. t \in SUBSET S /\ Cardinality(t) = Cardinality(s) - 1 /\ Cardinality(s) \in Nat
                BY <1>0, <3>2, Sizes
            <4>2. g[t] = h[t]
                BY <2>2, <4>1
            <4>3. g[s] = NextSum(h, s)
                BY <2>1, <2>2
            <4>4. QED
                BY <3>2, <4>2, <4>3
        <3>3. QED
            BY <3>1, <3>2
    <2>3. Upto(n + 1, g)
        <3>1. g = [s \in SUBSET S |-> g[s]]
            OBVIOUS
        <3> HIDE DEF g, NextSum
        <3>2. QED
            BY <2>2, <3>1
    <2> HIDE DEF g, Upto
    <2>4. QED
        BY <2>3
<1>3. Cardinality(S) \in T
    <2> HIDE DEF T
    <2>1. Nat \subseteq T
        BY <1>1, <1>2, Induction
    <2>2. QED
        BY <2>1, FS_CardinalityType
<1>4. PICK h : Upto(Cardinality(S), h)
    BY <1>3
<1>5. \A s \in SUBSET S : h[s] = NextSum(h, s)
    BY <1>4, Sizes
<1>6. Adds(f, S, h)
    BY <1>4, <1>5 DEF Adds
<1>7. QED
    BY <1>6

\* The sum of the empty set, and of a set of which some element is taken out.
LEMMA Sums ==
    ASSUME NEW f, NEW S, IsFiniteSet(S), \A x \in S : f[x] \in Int,
           NEW h, Adds(f, S, h)
    PROVE  \A s \in SUBSET S :
             /\ h[s] \in Int
             /\ s = {} => h[s] = 0
             /\ \A x \in s : h[s] = h[s \ {x}] + f[x]
<1> DEFINE Holds(s) == h[s] \in Int /\ \A x \in s : h[s] = h[s \ {x}] + f[x]
           T == {n \in Nat : \A s \in SUBSET S : Cardinality(s) <= n => Holds(s)}
<1>0. \A s \in SUBSET S : s # {} => Pick(s) \in s /\ h[s] = f[Pick(s)] + h[s \ {Pick(s)}]
    BY DEF Pick, Adds
<1>1. \A s \in SUBSET S : s = {} => h[s] = 0
    BY DEF Adds
<1>2. 0 \in T
    <2>1. \A s \in SUBSET S : Cardinality(s) <= 0 => s = {}
        BY Sizes
    <2>2. QED
        BY <1>1, <2>1
<1>3. ASSUME NEW n \in Nat, n \in T
      PROVE  n + 1 \in T
    <2>1. \A s \in SUBSET S : Cardinality(s) <= n => Holds(s)
        BY <1>3
    <2>2. ASSUME NEW s \in SUBSET S, Cardinality(s) <= n + 1, s # {}
          PROVE  Holds(s)
        <3> DEFINE c == Pick(s)
        <3>1. \A x \in s : s \ {x} \in SUBSET S /\ Holds(s \ {x}) /\ f[x] \in Int
            <4>1. \A x \in s : s \ {x} \in SUBSET S /\ Cardinality(s \ {x}) <= n
                BY <2>2, Sizes
            <4> HIDE DEF Holds
            <4>2. QED
                BY <2>1, <4>1
        <3>2. c \in s /\ h[s] = f[c] + h[s \ {c}]
            BY <1>0, <2>2
        <3> HIDE DEF c
        <3>3. h[s] \in Int
            BY <3>1, <3>2
        <3>4. ASSUME NEW x \in s
              PROVE  h[s] = h[s \ {x}] + f[x]
            <4>1. CASE x = c
                BY <3>1, <3>2, <4>1
            <4>2. CASE x # c
                <5> DEFINE t == (s \ {x}) \ {c}
                <5>1. (s \ {c}) \ {x} = t /\ t \in SUBSET S
                    OBVIOUS
                <5>2. h[s \ {c}] = h[t] + f[x] /\ h[s \ {x}] = h[t] + f[c]
                    BY <3>1, <3>2, <4>2, <5>1
                <5>3. h[t] \in Int
                    <6>1. Cardinality(s) \in Nat /\ Cardinality(t) <= n
                        <7>1. Cardinality(s \ {x}) \in Nat /\ Cardinality(s \ {x}) = Cardinality(s) - 1
                              /\ Cardinality(t) = Cardinality(s \ {x}) - 1 /\ Cardinality(s) \in Nat
                            BY <3>2, <4>2, Sizes
                        <7>2. QED
                            BY <2>2, <7>1
                    <6> HIDE DEF t
                    <6>2. Holds(t)
                        BY <2>1, <5>1, <6>1
                    <6>3. QED
                        BY <6>2
                <5> HIDE DEF t
                <5>4. QED
                    BY <3>1, <3>2, <5>2, <5>3
            <4>3. QED
                BY <4>1, <4>2
        <3>5. QED
            BY <3>3, <3>4
    <2>3. Holds({})
        BY <1>1
    <2> HIDE DEF Holds
    <2>4. QED
        BY <2>2, <2>3
<1>4. Nat \subseteq T
    <2> HIDE DEF T
    <2>1. QED
        BY <1>2, <1>3, Induction
<1>5. ASSUME NEW s \in SUBSET S
      PROVE  Holds(s)
    <2>1. Cardinality(s) \in Nat
        BY Sizes
    <2>2. Cardinality(s) \in T
        BY <1>4, <2>1
    <2> HIDE DEF Holds
    <2>3. QED
        BY <2>1, <2>2
<1>6. QED
    BY <1>1, <1>5

\* Sums over a subset do not depend on the set they are taken in.
LEMMA SumsAgree ==
    ASSUME NEW f, NEW S, IsFiniteSet(S), \A x \in S : f[x] \in Int,
           NEW S0 \in SUBSET S, NEW h, Adds(f, S, h), NEW h0, Adds(f, S0, h0)
    PROVE  h0[S0] = h[S0]
<1> DEFINE T == {n \in Nat : \A s \in SUBSET S0 : Cardinality(s) <= n => h0[s] = h[s]}
<1>0. \A s \in SUBSET S0 :
        /\ s \in SUBSET S
        /\ s # {} => Pick(s) \in s /\ h[s] = f[Pick(s)] + h[s \ {Pick(s)}] /\ h0[s] = f[Pick(s)] + h0[s \ {Pick(s)}]
        /\ s = {} => h[s] = 0 /\ h0[s] = 0
    BY DEF Pick, Adds
<1>1. 0 \in T
    <2>1. \A s \in SUBSET S0 : Cardinality(s) <= 0 => s = {}
        BY <1>0, Sizes
    <2>2. QED
        BY <1>0, <2>1
<1>2. ASSUME NEW n \in Nat, n \in T
      PROVE  n + 1 \in T
    <2>1. ASSUME NEW s \in SUBSET S0, Cardinality(s) <= n + 1, s # {}
          PROVE  h0[s] = h[s]
        <3> DEFINE t == s \ {Pick(s)}
        <3>1. IsFiniteSet(S0)
            BY Sizes
        <3>2. t \in SUBSET S0 /\ Cardinality(t) <= n
            <4>1. Pick(s) \in s
                BY <1>0, <2>1
            <4>2. Cardinality(t) = Cardinality(s) - 1 /\ Cardinality(s) \in Nat
                BY <3>1, <4>1, Sizes
            <4>3. QED
                BY <2>1, <4>2
        <3>3. h0[t] = h[t]
            BY <1>2, <3>2
        <3>4. QED
            BY <1>0, <2>1, <3>3
    <2>2. \A s \in SUBSET S0 : s = {} => h0[s] = h[s]
        BY <1>0
    <2>3. QED
        BY <2>1, <2>2
<1>3. Nat \subseteq T
    <2> HIDE DEF T
    <2>1. QED
        BY <1>1, <1>2, Induction
<1>4. Cardinality(S0) \in Nat /\ S0 \in SUBSET S0
    BY Sizes
<1>5. QED
    BY <1>3, <1>4

LEMMA SumIn ==
    ASSUME NEW f, NEW S, IsFiniteSet(S), \A x \in S : f[x] \in Int,
           NEW S0 \in SUBSET S, NEW h, Adds(f, S, h)
    PROVE  SumFunctionOnSet(f, S0) = h[S0]
<1>1. IsFiniteSet(S0)
    BY Sizes
<1>2. \E g : Adds(f, S0, g)
    BY <1>1, SumExists
<1> DEFINE h0 == CHOOSE g : Adds(f, S0, g)
<1>3. Adds(f, S0, h0)
    BY <1>2
<1>4. SumFunctionOnSet(f, S0) = h0[S0]
    BY SumDef
<1> HIDE DEF h0
<1>5. QED
    BY <1>3, <1>4, SumsAgree

LEMMA SumsUp ==
    ASSUME NEW f, NEW S, IsFiniteSet(S), \A x \in S : f[x] \in Int
    PROVE  /\ SumFunctionOnSet(f, S) \in Int
           /\ S = {} => SumFunctionOnSet(f, S) = 0
           /\ \A x \in S : SumFunctionOnSet(f, S) = SumFunctionOnSet(f, S \ {x}) + f[x]
<1>0. IsFiniteSet(S) /\ \A x \in S : f[x] \in Int
    OBVIOUS
<1>1. PICK h : Adds(f, S, h)
    BY SumExists
<1>2. ASSUME NEW s \in SUBSET S
      PROVE  SumFunctionOnSet(f, s) = h[s]
    BY <1>1, SumIn
<1>3. S \in SUBSET S /\ \A x \in S : S \ {x} \in SUBSET S
    OBVIOUS
<1>4. /\ h[S] \in Int /\ (S = {} => h[S] = 0)
      /\ \A x \in S : h[S] = h[S \ {x}] + f[x]
    <2>1. \A s \in SUBSET S :
            /\ h[s] \in Int
            /\ s = {} => h[s] = 0
            /\ \A x \in s : h[s] = h[s \ {x}] + f[x]
        <3>1. SUFFICES ASSUME NEW s \in SUBSET S
                       PROVE  /\ h[s] \in Int
                              /\ s = {} => h[s] = 0
                              /\ \A x \in s : h[s] = h[s \ {x}] + f[x]
            OBVIOUS
        <3>2. QED
            BY <1>1, Sums
    <2>2. QED
        BY ONLY <1>3, <2>1
<1>5. QED
    BY <1>2, <1>3, <1>4

\* Equal functions have equal sums: only the values on the set matter.
LEMMA SumSame ==
    ASSUME NEW f, NEW g, NEW S, \A x \in S : f[x] = g[x]
    PROVE  SumFunctionOnSet(f, S) = SumFunctionOnSet(g, S)
<1>1. \A s \in SUBSET S : s # {} => f[Pick(s)] = g[Pick(s)]
    BY DEF Pick
<1>2. \A h : Adds(f, S, h) <=> Adds(g, S, h)
    BY <1>1 DEF Adds
<1>3. (CHOOSE h : Adds(f, S, h)) = (CHOOSE h : Adds(g, S, h))
    BY <1>2
<1>4. QED
    BY <1>3, SumDef

Upto(S, i) == {j \in S : j <= i}

\* The positions of numbers in order: every place from first to last is some
\* number's, and no two have the same.
LEMMA RankIn ==
    ASSUME NEW n \in Nat, NEW S \in SUBSET (1 .. n)
    PROVE  /\ IsFiniteSet(S) /\ Cardinality(S) \in Nat
           /\ \A i \in S : Cardinality(Upto(S, i)) \in 1 .. Cardinality(S)
<1>1. IsFiniteSet(1 .. n)
    BY FS_Interval
<1>2. IsFiniteSet(S) /\ Cardinality(S) \in Nat
    BY <1>1, Sizes
<1>3. ASSUME NEW i \in S
      PROVE  Cardinality(Upto(S, i)) \in 1 .. Cardinality(S)
    <2>1. Upto(S, i) \in SUBSET S /\ i \in Upto(S, i)
        BY DEF Upto
    <2>2. Cardinality(Upto(S, i)) \in Nat /\ Cardinality(Upto(S, i)) <= Cardinality(S)
          /\ Cardinality(Upto(S, i)) # 0
        BY <1>2, <2>1, Sizes
    <2>3. QED
        BY <1>2, <2>2
<1>4. QED
    BY <1>2, <1>3

LEMMA RankInjective ==
    ASSUME NEW n \in Nat, NEW S \in SUBSET (1 .. n), NEW i \in S, NEW j \in S,
           Cardinality(Upto(S, i)) = Cardinality(Upto(S, j))
    PROVE  i = j
<1>1. ASSUME NEW a \in S, NEW b \in S, a < b
      PROVE  Cardinality(Upto(S, a)) # Cardinality(Upto(S, b))
    <2>1. \A x \in S : x \in Int
        OBVIOUS
    <2>2. /\ Upto(S, a) \subseteq Upto(S, b) \ {b}
          /\ b \in Upto(S, b) /\ Upto(S, b) \subseteq S
        <3>1. \A x \in S : x <= a => x <= b /\ x # b
            BY <1>1, <2>1
        <3>2. b <= b
            BY <2>1
        <3>3. QED
            BY <3>1, <3>2, Zenon DEF Upto
    <2>3. IsFiniteSet(S)
        BY RankIn
    <2>4. /\ Cardinality(Upto(S, b)) \in Nat /\ IsFiniteSet(Upto(S, b))
          /\ Cardinality(Upto(S, b) \ {b}) = Cardinality(Upto(S, b)) - 1
        BY <2>2, <2>3, Sizes
    <2>5. IsFiniteSet(Upto(S, b) \ {b})
        <3>1. Upto(S, b) \ {b} \in SUBSET S
            BY <2>2
        <3>2. QED
            BY <2>3, <3>1, Sizes
    <2>6. /\ Cardinality(Upto(S, a)) <= Cardinality(Upto(S, b) \ {b})
          /\ Cardinality(Upto(S, a)) \in Nat
        BY <2>2, <2>5, Sizes
    <2>7. QED
        BY <2>4, <2>6
<1>2. i \in Int /\ j \in Int
    OBVIOUS
<1>3. QED
    BY <1>1, <1>2

LEMMA RankOnto ==
    ASSUME NEW n \in Nat, NEW S \in SUBSET (1 .. n), NEW k \in 1 .. Cardinality(S)
    PROVE  \E i \in S : Cardinality(Upto(S, i)) = k
<1> DEFINE size(m) == Cardinality(Upto(S, m))
           T == {m \in Nat : \A l \in 1 .. size(m) : \E i \in S : i <= m /\ size(i) = l}
<1>a. \A j \in S : j \in Nat /\ 1 <= j /\ j <= n
    OBVIOUS
<1>0. IsFiniteSet(S) /\ \A m : Upto(S, m) \in SUBSET S /\ size(m) \in Nat
    <2>1. IsFiniteSet(S) /\ \A m : Upto(S, m) \in SUBSET S
        BY RankIn DEF Upto
    <2>2. QED
        BY <2>1, Sizes
<1>1. 0 \in T
    <2>1. Upto(S, 0) = {}
        <3>1. \A j \in S : ~(j <= 0)
            BY <1>a
        <3>2. QED
            BY <3>1, Zenon DEF Upto
    <2>2. size(0) = 0
        BY <2>1, FS_EmptySet
    <2>3. QED
        BY <2>2
<1>2. ASSUME NEW m \in Nat, m \in T
      PROVE  m + 1 \in T
    <2>1. CASE m + 1 \notin S
        <3>1. Upto(S, m + 1) = Upto(S, m)
            <4>1. \A j \in S : j <= m + 1 <=> j <= m
                BY <1>a, <2>1
            <4>2. QED
                BY <4>1, Zenon DEF Upto
        <3>2. QED
            BY <1>2, <3>1
    <2>2. CASE m + 1 \in S
        <3>1. Upto(S, m + 1) \ {m + 1} = Upto(S, m) /\ m + 1 \in Upto(S, m + 1)
            <4>1. \A j \in S : (j <= m + 1 /\ j # m + 1) <=> j <= m
                BY <1>a
            <4>2. m + 1 <= m + 1
                OBVIOUS
            <4>3. QED
                BY <2>2, <4>1, <4>2, Zenon DEF Upto
        <3>2. Cardinality(Upto(S, m + 1) \ {m + 1}) = Cardinality(Upto(S, m + 1)) - 1
            <4>1. ASSUME NEW s, IsFiniteSet(s), NEW x \in s
                  PROVE  Cardinality(s \ {x}) = Cardinality(s) - 1
                BY <4>1, FS_RemoveElement
            <4>2. IsFiniteSet(Upto(S, m + 1))
                BY <1>0, FS_Subset, Zenon
            <4>3. QED
                BY ONLY <3>1, <4>1, <4>2
        <3>3. size(m + 1) = size(m) + 1 /\ size(m) \in Nat
            <4>1. size(m) \in Nat /\ size(m + 1) \in Nat
                BY <1>0
            <4>2. size(m) = size(m + 1) - 1
                BY <3>1, <3>2, Zenon
            <4> HIDE DEF size
            <4>3. QED
                BY <4>1, <4>2
        <3> HIDE DEF size
        <3>4. ASSUME NEW l \in 1 .. size(m + 1)
              PROVE  \E i \in S : i <= m + 1 /\ size(i) = l
            <4>1. CASE l = size(m + 1)
                BY <2>2, <4>1
            <4>2. CASE l # size(m + 1)
                <5>1. l \in 1 .. size(m)
                    BY <3>3, <4>2
                <5>2. PICK i \in S : i <= m /\ size(i) = l
                    BY <1>2, <5>1
                <5>3. i <= m + 1
                    BY <5>2
                <5>4. QED
                    BY <5>2, <5>3
            <4>3. QED
                BY <4>1, <4>2
        <3>5. QED
            BY <3>4
    <2>3. QED
        BY <2>1, <2>2
<1>3. n \in T
    <2> HIDE DEF T
    <2>1. QED
        BY <1>1, <1>2, Induction
<1>4. Upto(S, n) = S
    BY <1>a DEF Upto
<1>5. QED
    BY <1>3, <1>4

LEMMA SumNat ==
    ASSUME NEW f, NEW S, IsFiniteSet(S), \A x \in S : f[x] \in Nat
    PROVE  SumFunctionOnSet(f, S) \in Nat
<1> DEFINE T == {n \in Nat : \A s \in SUBSET S : Cardinality(s) <= n => SumFunctionOnSet(f, s) \in Nat}
<1>0. ASSUME NEW s \in SUBSET S
      PROVE  /\ Cardinality(s) \in Nat
             /\ Cardinality(s) = 0 <=> s = {}
             /\ \A x \in s : Cardinality(s \ {x}) = Cardinality(s) - 1
             /\ s = {} => SumFunctionOnSet(f, s) = 0
             /\ \A x \in s : SumFunctionOnSet(f, s) = SumFunctionOnSet(f, s \ {x}) + f[x]
    <2>1. IsFiniteSet(s) /\ \A x \in s : f[x] \in Int
        BY Sizes
    <2>2. QED
        BY <2>1, Sizes, SumsUp
<1>1. 0 \in T
    BY <1>0
<1>2. ASSUME NEW n \in Nat, n \in T
      PROVE  n + 1 \in T
    <2>1. ASSUME NEW s \in SUBSET S, Cardinality(s) <= n + 1, NEW x \in s
          PROVE  SumFunctionOnSet(f, s) \in Nat
        <3>1. s \ {x} \in SUBSET S /\ Cardinality(s \ {x}) <= n
            BY <1>0, <2>1
        <3>2. SumFunctionOnSet(f, s \ {x}) \in Nat /\ f[x] \in Nat
            BY <1>2, <3>1
        <3>3. QED
            BY <1>0, <3>2
    <2>2. \A s \in SUBSET S : s = {} => SumFunctionOnSet(f, s) \in Nat
        BY <1>0
    <2>3. QED
        BY <2>1, <2>2
<1>3. Nat \subseteq T
    <2> HIDE DEF T
    <2>1. QED
        BY <1>1, <1>2, Induction
<1>4. Cardinality(S) \in Nat /\ S \in SUBSET S
    BY <1>0
<1>5. QED
    BY <1>3, <1>4

-----------------------------------------------------------------------------
(* The calls of a receipt *)

ProductAt(lines, i) == ProductOf[lines[i].position]

FirstLines(lines) ==
    {i \in DOMAIN lines : \A j \in 1 .. (i - 1) : ProductAt(lines, j) # ProductAt(lines, i)}

Nth(lines, k) == CHOOSE i \in FirstLines(lines) : Cardinality(Upto(FirstLines(lines), i)) = k

LEMMA ProductsOfForm ==
    ASSUME NEW lines
    PROVE  ProductsOf(lines) =
             [k \in 1 .. Cardinality(FirstLines(lines)) |-> ProductAt(lines, Nth(lines, k))]
BY DEF ProductsOf, FirstLines, ProductAt, Nth, Upto

\* The products of a receipt: each one's once.
LEMMA ProductsListed ==
    ASSUME NEW lines \in Seq(Arrivals)
    PROVE  \E n \in Nat :
             /\ ProductsOf(lines) \in [1 .. n -> Products]
             /\ \A k, l \in 1 .. n : ProductsOf(lines)[k] = ProductsOf(lines)[l] => k = l
             /\ \A i \in 1 .. Len(lines) : \E k \in 1 .. n : ProductsOf(lines)[k] = ProductAt(lines, i)
             /\ \A k \in 1 .. n : \E i \in 1 .. Len(lines) : ProductsOf(lines)[k] = ProductAt(lines, i)
<1> DEFINE len == Len(lines)
           F == FirstLines(lines)
           n == Cardinality(F)
<1>1. len \in Nat /\ DOMAIN lines = 1 .. len /\ F \in SUBSET (1 .. len)
      /\ \A i \in 1 .. len : ProductAt(lines, i) \in Products
    <2>1. len \in Nat /\ DOMAIN lines = 1 .. len /\ \A i \in 1 .. len : lines[i] \in Arrivals
        OBVIOUS
    <2>2. \A i \in 1 .. len : ProductAt(lines, i) \in Products
        BY <2>1, RulesAssumption DEF ProductAt, Arrivals
    <2>3. F \in SUBSET (1 .. len)
        BY <2>1 DEF FirstLines
    <2>4. QED
        BY <2>1, <2>2, <2>3
<1>2. \A i \in F : \A j \in F : ProductAt(lines, i) = ProductAt(lines, j) => i = j
    <2>1. SUFFICES ASSUME NEW i \in F, NEW j \in F, ProductAt(lines, i) = ProductAt(lines, j), i < j
                   PROVE  FALSE
        BY <1>1
    <2>2. i \in 1 .. (j - 1)
        BY <1>1, <2>1
    <2>3. QED
        BY <2>1, <2>2 DEF FirstLines
<1>3. ASSUME NEW i \in 1 .. len
      PROVE  \E j \in F : ProductAt(lines, j) = ProductAt(lines, i)
    <2> DEFINE T == {m \in Nat : (\E j \in 1 .. len : j <= m /\ ProductAt(lines, j) = ProductAt(lines, i))
                                   => \E j \in F : ProductAt(lines, j) = ProductAt(lines, i)}
    <2>1. 0 \in T
        BY <1>1
    <2>2. ASSUME NEW m \in Nat, m \in T
          PROVE  m + 1 \in T
        <3>1. SUFFICES ASSUME NEW j \in 1 .. len, j <= m + 1, ProductAt(lines, j) = ProductAt(lines, i)
                       PROVE  \E h \in F : ProductAt(lines, h) = ProductAt(lines, i)
            OBVIOUS
        <3>2. CASE j \in F
            BY <3>1, <3>2
        <3>3. CASE j \notin F
            <4>1. PICK h \in 1 .. (j - 1) : ProductAt(lines, h) = ProductAt(lines, j)
                BY <1>1, <3>3 DEF FirstLines
            <4>2. h \in 1 .. len /\ h <= m
                BY <1>1, <3>1, <4>1
            <4>3. QED
                BY <2>2, <3>1, <4>1, <4>2
        <3>4. QED
            BY <3>2, <3>3
    <2>3. len \in T
        <3> HIDE DEF T
        <3>1. QED
            BY <1>1, <2>1, <2>2, Induction
    <2>4. i <= len
        BY <1>1
    <2>5. QED
        BY <2>3, <2>4
<1> HIDE DEF F
<1>4. n \in Nat /\ \A i \in F : Cardinality(Upto(F, i)) \in 1 .. n
    BY <1>1, RankIn
<1>5. ASSUME NEW k \in 1 .. n
      PROVE  Nth(lines, k) \in F /\ Cardinality(Upto(F, Nth(lines, k))) = k
    <2>1. \E i \in F : Cardinality(Upto(F, i)) = k
        BY <1>1, RankOnto
    <2>2. QED
        BY <2>1 DEF Nth, F
<1>6. ASSUME NEW i \in F
      PROVE  Nth(lines, Cardinality(Upto(F, i))) = i
    <2> DEFINE k == Cardinality(Upto(F, i))
               j == Nth(lines, k)
    <2>1. k \in 1 .. n
        BY <1>4
    <2> HIDE DEF k
    <2>2. j \in F /\ Cardinality(Upto(F, j)) = k
        BY <1>5, <2>1
    <2>3. Cardinality(Upto(F, j)) = Cardinality(Upto(F, i))
        BY <2>2 DEF k
    <2> HIDE DEF j
    <2>4. j = i
        BY <1>1, <2>2, <2>3, RankInjective
    <2>5. QED
        BY <2>4 DEF j, k
<1>7. ProductsOf(lines) = [k \in 1 .. n |-> ProductAt(lines, Nth(lines, k))]
    BY ProductsOfForm DEF F
<1> HIDE DEF n, len
<1>8. ProductsOf(lines) \in [1 .. n -> Products]
    BY <1>1, <1>5, <1>7
<1>9. ASSUME NEW k \in 1 .. n, NEW l \in 1 .. n, ProductsOf(lines)[k] = ProductsOf(lines)[l]
      PROVE  k = l
    <2>1. Nth(lines, k) = Nth(lines, l)
        BY <1>2, <1>5, <1>7, <1>9
    <2>2. QED
        BY <1>5, <2>1
<1>10. ASSUME NEW i \in 1 .. len
       PROVE  \E k \in 1 .. n : ProductsOf(lines)[k] = ProductAt(lines, i)
    <2>1. PICK j \in F : ProductAt(lines, j) = ProductAt(lines, i)
        BY <1>3
    <2>2. QED
        BY <1>4, <1>6, <1>7, <2>1
<1>11. \A k \in 1 .. n : \E i \in 1 .. len : ProductsOf(lines)[k] = ProductAt(lines, i)
    BY <1>1, <1>5, <1>7
<1>12. QED
    BY <1>4, <1>8, <1>9, <1>10, <1>11 DEF len

LEMMA UnitsNat ==
    ASSUME NEW lines \in Seq(Arrivals), NEW product
    PROVE  /\ Units(lines, product) \in Nat
           /\ (\A i \in 1 .. Len(lines) : ProductAt(lines, i) # product) => Units(lines, product) = 0
<1> DEFINE S == {i \in DOMAIN lines : ProductOf[lines[i].position] = product}
           f == [i \in DOMAIN lines |-> lines[i].units]
<1>1. Len(lines) \in Nat /\ DOMAIN lines = 1 .. Len(lines) /\ \A i \in DOMAIN lines : lines[i] \in Arrivals
    OBVIOUS
<1>2. S \in SUBSET (1 .. Len(lines)) /\ \A i \in S : f[i] \in Nat /\ f[i] \in Int
    BY <1>1, RulesAssumption DEF Arrivals
<1>3. IsFiniteSet(S)
    <2> HIDE DEF S
    <2>1. QED
        BY <1>1, <1>2, RankIn
<1>4. Units(lines, product) = SumFunctionOnSet(f, S)
    BY DEF Units
<1>5. (\A i \in 1 .. Len(lines) : ProductAt(lines, i) # product) => S = {}
    BY <1>1 DEF ProductAt
<1> HIDE DEF f, S
<1>6. QED
    BY <1>2, <1>3, <1>4, <1>5, SumNat, SumsUp

CallSet ==
    [kind : {"Post"}, item : Positions, units : 1 .. MaxInt]
        \cup [kind : {"Record"}, item : Orders, product : Products, units : Int]

\* How many of the receipt's products its order is told of.
RecordCount(d) == IF d.order = NoOrder THEN 0 ELSE Len(ProductsOf(d.lines))

\* The calls of a receipt: its postings, then the receipts of its order.
LEMMA CallsForm ==
    ASSUME NEW d, d.lines \in Seq(Arrivals), d.order \in Orders \cup {NoOrder}
    PROVE  /\ Len(d.lines) \in Nat /\ RecordCount(d) \in Nat
           /\ Calls(d) \in Seq(CallSet) /\ Len(Calls(d)) = Len(d.lines) + RecordCount(d)
           /\ \A i \in 1 .. Len(d.lines) : d.lines[i] \in Arrivals /\ Calls(d)[i] = Post(d.lines[i])
           /\ \A i \in 1 .. Len(Calls(d)) : i > Len(d.lines) =>
                /\ i - Len(d.lines) \in 1 .. RecordCount(d) /\ d.order \in Orders
                /\ LET product == ProductsOf(d.lines)[i - Len(d.lines)]
                   IN  Calls(d)[i] = Record(d.order, product, Wrap(Units(d.lines, product)))
<1> DEFINE posts == [i \in DOMAIN d.lines |-> Post(d.lines[i])]
           records == IF d.order = NoOrder THEN <<>> ELSE Records(d)
           len == Len(d.lines)
<1>1. len \in Nat /\ DOMAIN d.lines = 1 .. len /\ \A i \in 1 .. len : d.lines[i] \in Arrivals
    OBVIOUS
<1>2. posts \in Seq(CallSet) /\ Len(posts) = len /\ \A i \in 1 .. len : posts[i] = Post(d.lines[i])
    <2>1. \A i \in 1 .. len : Post(d.lines[i]) \in CallSet
        BY <1>1 DEF Post, CallSet, Arrivals
    <2> HIDE DEF CallSet
    <2>2. posts \in [1 .. len -> CallSet]
        BY <1>1, <2>1
    <2>3. QED
        BY <1>1, <2>2
<1>3. PICK n \in Nat : ProductsOf(d.lines) \in [1 .. n -> Products]
    BY ProductsListed
<1>4. ProductsOf(d.lines) \in Seq(Products) /\ Len(ProductsOf(d.lines)) = n
    BY <1>3
<1>5. /\ records \in Seq(CallSet) /\ Len(records) = RecordCount(d)
      /\ \A j \in 1 .. RecordCount(d) :
           LET product == ProductsOf(d.lines)[j]
           IN  records[j] = Record(d.order, product, Wrap(Units(d.lines, product)))
    <2>1. CASE d.order = NoOrder
        BY <2>1, EmptySeq DEF RecordCount
    <2>2. CASE d.order # NoOrder
        <3> DEFINE rec(j) == Record(d.order, ProductsOf(d.lines)[j], Wrap(Units(d.lines, ProductsOf(d.lines)[j])))
        <3>1. Records(d) = [j \in 1 .. n |-> rec(j)]
            BY <1>3 DEF Records
        <3>2. \A j \in 1 .. n : rec(j) \in CallSet
            <4>1. SUFFICES ASSUME NEW j \in 1 .. n PROVE rec(j) \in CallSet
                OBVIOUS
            <4>2. ProductsOf(d.lines)[j] \in Products /\ Units(d.lines, ProductsOf(d.lines)[j]) \in Nat
                BY <1>3, UnitsNat
            <4>3. Wrap(Units(d.lines, ProductsOf(d.lines)[j])) \in Int
                BY <4>2, RulesAssumption DEF Wrap
            <4>4. QED
                BY <2>2, <4>2, <4>3 DEF Record, CallSet
        <3> HIDE DEF CallSet, rec
        <3>3. Records(d) \in [1 .. n -> CallSet]
            BY <3>1, <3>2
        <3>4. Records(d) \in Seq(CallSet) /\ Len(Records(d)) = n
            BY <3>3
        <3>5. RecordCount(d) = n
            BY <1>4, <2>2 DEF RecordCount
        <3>6. QED
            BY <2>2, <3>1, <3>4, <3>5 DEF rec
    <2>3. QED
        BY <2>1, <2>2
<1>6. RecordCount(d) \in Nat /\ (RecordCount(d) > 0 => d.order \in Orders)
    BY <1>4 DEF RecordCount
<1>7. Calls(d) = posts \o records
    BY DEF Calls
<1> HIDE DEF posts, records, CallSet
<1>8. /\ Calls(d) \in Seq(CallSet) /\ Len(Calls(d)) = len + RecordCount(d)
      /\ \A i \in 1 .. len + RecordCount(d) : Calls(d)[i] = IF i <= len THEN posts[i] ELSE records[i - len]
    <2>1. /\ posts \in Seq(CallSet) /\ Len(posts) = len
          /\ records \in Seq(CallSet) /\ Len(records) = RecordCount(d)
        BY <1>2, <1>5
    <2>2. /\ posts \o records \in Seq(CallSet) /\ Len(posts \o records) = len + RecordCount(d)
          /\ \A i \in 1 .. len + RecordCount(d) :
               (posts \o records)[i] = IF i <= len THEN posts[i] ELSE records[i - len]
        <3> DEFINE p == posts
                   q == records
        <3>1. p \in Seq(CallSet) /\ q \in Seq(CallSet) /\ Len(p) = len /\ Len(q) = RecordCount(d)
            BY <2>1
        <3> HIDE DEF p, q, len
        <3>2. p \o q \in Seq(CallSet) /\ Len(p \o q) = Len(p) + Len(q)
            BY <3>1, ConcatProperties
        <3>3. \A i \in 1 .. Len(p) + Len(q) : (p \o q)[i] = IF i <= Len(p) THEN p[i] ELSE q[i - Len(p)]
            BY <3>1, ConcatProperties
        <3>4. QED
            BY <3>1, <3>2, <3>3 DEF p, q
    <2>3. QED
        BY <1>7, <2>2
<1> HIDE DEF len
<1>9. ASSUME NEW i \in 1 .. Len(Calls(d)), i > len
      PROVE  i - len \in 1 .. RecordCount(d) /\ Calls(d)[i] = records[i - len]
    <2>1. PICK count \in Nat : count = RecordCount(d)
        BY <1>6
    <2>2. i \in 1 .. len + count /\ ~(i <= len) /\ i - len \in 1 .. count
        BY <1>1, <1>8, <1>9, <2>1
    <2>3. QED
        BY ONLY <1>8, <2>1, <2>2
<1>10. \A i \in 1 .. len : Calls(d)[i] = posts[i]
    BY <1>1, <1>6, <1>8
<1>11. ASSUME NEW i \in 1 .. Len(Calls(d)), i > len
       PROVE  /\ i - len \in 1 .. RecordCount(d) /\ d.order \in Orders
              /\ LET product == ProductsOf(d.lines)[i - len]
                 IN  Calls(d)[i] = Record(d.order, product, Wrap(Units(d.lines, product)))
    <2>1. i - len \in 1 .. RecordCount(d) /\ Calls(d)[i] = records[i - len]
        BY <1>9, <1>11
    <2>2. RecordCount(d) > 0
        BY <1>6, <2>1
    <2>3. QED
        BY <1>5, <1>6, <2>1, <2>2
<1>12. /\ len \in Nat /\ RecordCount(d) \in Nat
       /\ Calls(d) \in Seq(CallSet) /\ Len(Calls(d)) = len + RecordCount(d)
       /\ \A i \in 1 .. len : d.lines[i] \in Arrivals /\ Calls(d)[i] = Post(d.lines[i])
    BY <1>1, <1>2, <1>6, <1>8, <1>10
<1>13. QED
    BY <1>11, <1>12, Zenon DEF len

LEMMA CallSetIsCalls ==
    \A c \in CallSet :
        /\ IsCall(c) /\ c.item \in Items
        /\ c.item \in Positions => c.kind = "Post" /\ c.units \in 1 .. MaxInt
        /\ c.item \in Documents => c.kind = "Record" /\ c.item \in Orders /\ c.product \in Products
BY DocumentsDiffer DEF CallSet, IsCall, Items, Documents

-----------------------------------------------------------------------------
(* Calls carried out one after another *)

IsFile(b) == b = [x \in Items |-> b[x]]

LEMMA ReplaySteps ==
    ASSUME NEW b, NEW calls, Len(calls) \in Nat
    PROVE  /\ Replay(b, calls)[0] = b
           /\ \A k \in 1 .. Len(calls) : Replay(b, calls)[k] = Apply(Replay(b, calls)[k - 1], calls[k])
<1> DEFINE len == Len(calls)
           After(h, k) == IF k = 0 THEN b ELSE Apply(h[k - 1], calls[k])
           IsReplay(h) == h = [k \in 0 .. len |-> After(h, k)]
           Holds(n, h) == /\ h = [k \in 0 .. len |-> h[k]]
                          /\ \A k \in 0 .. len : k <= n => h[k] = After(h, k)
           T == {n \in Nat : \E h : Holds(n, h)}
<1>1. 0 \in T
    <2>1. Holds(0, [k \in 0 .. len |-> b])
        OBVIOUS
    <2> HIDE DEF Holds
    <2>2. QED
        BY <2>1
<1>2. ASSUME NEW n \in Nat, n \in T
      PROVE  n + 1 \in T
    <2>1. PICK h : Holds(n, h)
        BY <1>2
    <2> DEFINE g == [k \in 0 .. len |-> IF k <= n THEN h[k] ELSE After(h, k)]
    <2>2. ASSUME NEW k \in 0 .. len, k <= n + 1
          PROVE  g[k] = After(g, k)
        <3>1. CASE k = 0
            BY <2>1, <3>1
        <3>2. CASE k # 0
            <4>1. k - 1 \in 0 .. len /\ k - 1 <= n
                BY <2>2, <3>2
            <4>2. g[k - 1] = h[k - 1]
                BY <4>1
            <4>3. g[k] = After(h, k)
                BY <2>1, <2>2
            <4>4. QED
                BY <3>2, <4>2, <4>3
        <3>3. QED
            BY <3>1, <3>2
    <2>3. g = [k \in 0 .. len |-> g[k]]
        OBVIOUS
    <2> HIDE DEF g, After
    <2>4. Holds(n + 1, g)
        BY <2>2, <2>3
    <2> HIDE DEF Holds
    <2>5. QED
        BY <2>4
<1>3. \E h : IsReplay(h)
    <2>1. len \in T
        <3> HIDE DEF T
        <3>1. QED
            BY <1>1, <1>2, Induction
    <2>2. PICK h : Holds(len, h)
        BY <2>1
    <2>3. \A k \in 0 .. len : h[k] = After(h, k)
        <3>1. \A k \in 0 .. len : k <= len
            OBVIOUS
        <3> HIDE DEF After
        <3>2. QED
            BY <2>2, <3>1
    <2> HIDE DEF After
    <2>4. IsReplay(h)
        BY <2>2, <2>3
    <2>5. QED
        BY <2>4
<1>4. Replay(b, calls) = CHOOSE h : IsReplay(h)
    BY DEF Replay
<1>5. IsReplay(Replay(b, calls))
    <2> HIDE DEF IsReplay
    <2>1. QED
        BY <1>3, <1>4
<1>6. QED
    BY <1>5

\* Of each item a call changes only its own, by what the item itself holds.
LEMMA ReplayItem ==
    ASSUME NEW b, IsFile(b), NEW calls, Len(calls) \in Nat,
           \A i \in 1 .. Len(calls) : calls[i].item \in Items
    PROVE  /\ \A k \in 0 .. Len(calls) :
                /\ IsFile(Replay(b, calls)[k])
                /\ \A x \in Items : (\A i \in 1 .. k : calls[i].item # x) => Replay(b, calls)[k][x] = b[x]
           /\ \A k \in 1 .. Len(calls), x \in Items :
                Replay(b, calls)[k][x] = IF x = calls[k].item THEN Result(calls[k], Replay(b, calls)[k - 1][x])
                                         ELSE Replay(b, calls)[k - 1][x]
<1> DEFINE len == Len(calls)
           R == Replay(b, calls)
           Is(k) == /\ IsFile(R[k])
                    /\ \A x \in Items : (\A i \in 1 .. k : calls[i].item # x) => R[k][x] = b[x]
           T == {k \in Nat : k <= len => Is(k)}
<1>1. R[0] = b /\ \A k \in 1 .. len : R[k] = Apply(R[k - 1], calls[k])
    BY ReplaySteps
<1> HIDE DEF R
<1>2. ASSUME NEW k \in 1 .. len, IsFile(R[k - 1])
      PROVE  /\ IsFile(R[k])
             /\ \A x \in Items : R[k][x] = IF x = calls[k].item THEN Result(calls[k], R[k - 1][x]) ELSE R[k - 1][x]
    <2>1. calls[k].item \in Items
        OBVIOUS
    <2>2. R[k] = [R[k - 1] EXCEPT ![calls[k].item] = Result(calls[k], @)]
        BY <1>1 DEF Apply
    <2>3. R[k - 1] = [x \in Items |-> R[k - 1][x]]
        BY <1>2 DEF IsFile
    <2>4. R[k] = [x \in Items |-> R[k][x]]
          /\ \A x \in Items : R[k][x] = IF x = calls[k].item THEN Result(calls[k], R[k - 1][x]) ELSE R[k - 1][x]
        BY <2>1, <2>2, <2>3
    <2>5. QED
        BY <2>4 DEF IsFile
<1>3. 0 \in T
    BY <1>1
<1>4. ASSUME NEW n \in Nat, n \in T
      PROVE  n + 1 \in T
    <2>1. SUFFICES ASSUME n + 1 <= len PROVE Is(n + 1)
        OBVIOUS
    <2>2. n + 1 \in 1 .. len /\ Is(n) /\ (n + 1) - 1 = n
        BY <1>4, <2>1
    <2>3. /\ IsFile(R[n + 1])
          /\ \A x \in Items : R[n + 1][x] = IF x = calls[n + 1].item THEN Result(calls[n + 1], R[n][x]) ELSE R[n][x]
        BY <1>2, <2>2
    <2>4. ASSUME NEW x \in Items, \A i \in 1 .. n + 1 : calls[i].item # x
          PROVE  R[n + 1][x] = b[x]
        <3>1. calls[n + 1].item # x /\ \A i \in 1 .. n : calls[i].item # x
            BY <2>4
        <3>2. R[n][x] = b[x]
            BY <2>2, <3>1
        <3>3. QED
            BY <2>3, <3>1, <3>2
    <2>5. QED
        BY <2>3, <2>4
<1>5. ASSUME NEW k \in 0 .. len
      PROVE  Is(k)
    <2>1. Nat \subseteq T
        <3> HIDE DEF T
        <3>1. QED
            BY <1>3, <1>4, Induction
    <2>2. k \in T /\ k <= len
        BY <2>1
    <2>3. QED
        BY <2>2
<1>6. ASSUME NEW k \in 1 .. len, NEW x \in Items
      PROVE  R[k][x] = IF x = calls[k].item THEN Result(calls[k], R[k - 1][x]) ELSE R[k - 1][x]
    <2>1. k \in 1 .. len /\ k - 1 \in 0 .. len
        BY <1>6
    <2>2. QED
        BY <1>2, <1>5, <2>1
<1>7. QED
    BY <1>5, <1>6 DEF R

\* What becomes of an item depends on that item alone.
LEMMA ReplayLocal ==
    ASSUME NEW b, IsFile(b), NEW c, IsFile(c),
           NEW calls, Len(calls) \in Nat, \A i \in 1 .. Len(calls) : calls[i].item \in Items,
           NEW x \in Items, b[x] = c[x]
    PROVE  \A k \in 0 .. Len(calls) : Replay(b, calls)[k][x] = Replay(c, calls)[k][x]
<1> DEFINE T == {k \in Nat : k <= Len(calls) => Replay(b, calls)[k][x] = Replay(c, calls)[k][x]}
<1>1. 0 \in T
    BY ReplaySteps
<1>2. ASSUME NEW n \in Nat, n \in T
      PROVE  n + 1 \in T
    <2>1. SUFFICES ASSUME n + 1 <= Len(calls)
                   PROVE  Replay(b, calls)[n + 1][x] = Replay(c, calls)[n + 1][x]
        OBVIOUS
    <2>2. n + 1 \in 1 .. Len(calls) /\ (n + 1) - 1 = n /\ Replay(b, calls)[n][x] = Replay(c, calls)[n][x]
        BY <1>2, <2>1
    <2>3. ASSUME NEW e, IsFile(e), NEW k \in 1 .. Len(calls)
          PROVE  Replay(e, calls)[k][x] = IF x = calls[k].item THEN Result(calls[k], Replay(e, calls)[k - 1][x])
                                          ELSE Replay(e, calls)[k - 1][x]
        BY <2>3, ReplayItem
    <2>4. /\ Replay(b, calls)[n + 1][x] = (IF x = calls[n + 1].item THEN Result(calls[n + 1], Replay(b, calls)[n][x])
                                           ELSE Replay(b, calls)[n][x])
          /\ Replay(c, calls)[n + 1][x] = (IF x = calls[n + 1].item THEN Result(calls[n + 1], Replay(c, calls)[n][x])
                                           ELSE Replay(c, calls)[n][x])
        BY <2>2, <2>3
    <2>5. QED
        BY <2>2, <2>4
<1>3. Nat \subseteq T
    <2> HIDE DEF T
    <2>1. QED
        BY <1>1, <1>2, Induction
<1>4. QED
    BY <1>3

-----------------------------------------------------------------------------
(* What rows and reads hold *)

StockFits == \A x \in Positions : row[x] \in RowOf(x) /\ (row[x].version = 0 => row[x].data = 0)

Labels ==
    /\ \A x \in Items : opening[x] \in RowOf(x)
    /\ announced \in [Requests -> SUBSET Items]
    /\ \A r \in Requests : pc[r] \in Running \cup Committed \cup Refusals

\* An open transaction holds the rows it wrote, of stock always a new version.
ReadsFit(r) ==
    /\ \A x \in Items : loaded[r][x] \in RowOf(x)
    /\ \A x \in Items \ written[r] : mine[r][x] = NoRow(x)
    /\ \A x \in written[r] \cap Positions :
         mine[r][x] \in RowOf(x) /\ mine[r][x].version > row[x].version
    /\ \A i \in 1 .. Len(todo[r]) : IsCall(todo[r][i])

\* A posting about to be written fits in what was read, which is what would be read
\* now or an older version.
PostingFits(r) ==
    LET x == Target(r)
    IN  pc[r] = "write" /\ x \in Positions =>
          /\ Accepts(Current(r), loaded[r][x].data)
          /\ loaded[r][x].version <= Seen(r, x).version
          /\ loaded[r][x].version = Seen(r, x).version => loaded[r][x].data = Seen(r, x).data
          /\ x \in written[r] => loaded[r][x].version > 0

TInv == StockFits /\ Labels /\ \A r \in Requests : ReadsFit(r) /\ PostingFits(r)

LEMMA NoDataFits == \A x \in Items : NoData(x) \in Data(x) /\ NoRow(x) \in RowOf(x) /\ NoRows[x] = NoRow(x)
<1>1. SUFFICES ASSUME NEW x \in Items PROVE NoData(x) \in Data(x)
    BY DEF NoRow, RowOf, NoRows
<1>2. CASE x \in Positions
    BY <1>2, RulesAssumption DEF NoData, Data
<1>3. CASE x \notin Positions
    <2>1. x \in Documents
        BY <1>3 DEF Items
    <2>2. NoData(x) = [status |-> "NONE", order |-> NoOrder, lines |-> NoLines(x)]
        BY <1>3 DEF NoData
    <2>3. NoLines(x) \in Lines(x)
        BY <2>1, NoLinesAreLines
    <2>4. QED
        BY <2>1, <2>2, <2>3, IsData DEF Absent
<1>4. QED
    BY <1>2, <1>3

LEMMA InitTInv == Init => TInv
<1> SUFFICES ASSUME Init PROVE TInv
    OBVIOUS
<1>1. PICK w \in Openings :
        row = [x \in Items |-> [version |-> IF w[x] = NoData(x) THEN 0 ELSE 1, data |-> w[x]]]
    BY DEF Init
<1>2. WellFormed(w)
    BY OpeningsAssumption
<1>3. ASSUME NEW x \in Items
      PROVE  row[x] \in RowOf(x) /\ (row[x].version = 0 => row[x].data = NoData(x))
    <2>1. w[x] \in Data(x)
        BY <1>2 DEF WellFormed
    <2>2. row[x] = [version |-> IF w[x] = NoData(x) THEN 0 ELSE 1, data |-> w[x]]
        BY <1>1
    <2>3. QED
        BY <2>1, <2>2 DEF RowOf
<1>4. StockFits
    BY <1>3 DEF StockFits, NoData, Items
<1>5. Labels
    BY <1>3 DEF Init, Labels, Running
<1>6. ASSUME NEW r \in Requests
      PROVE  ReadsFit(r) /\ PostingFits(r)
    <2>1. /\ todo[r] = <<>> /\ pc[r] = "load" /\ written[r] = {}
          /\ \A x \in Items : loaded[r][x] = NoRow(x) /\ mine[r][x] = NoRow(x)
        BY NoDataFits DEF Init
    <2>2. Len(todo[r]) = 0
        BY <2>1, EmptySeq
    <2>3. QED
        BY <2>1, <2>2, NoDataFits DEF ReadsFit, PostingFits
<1>7. QED
    BY <1>4, <1>5, <1>6 DEF TInv

LEMMA SameReads ==
    ASSUME NEW q \in Requests, row' = row, op' = op, pc'[q] = pc[q], todo'[q] = todo[q],
           loaded'[q] = loaded[q], written'[q] = written[q], mine'[q] = mine[q],
           ReadsFit(q), PostingFits(q)
    PROVE  ReadsFit(q)' /\ PostingFits(q)'
<1>1. Current(q)' = Current(q) /\ Target(q)' = Target(q) /\ \A x : Seen(q, x)' = Seen(q, x)
    BY DEF Current, Outermost, Target, Seen
<1>2. ReadsFit(q)'
    BY DEF ReadsFit
<1>3. PostingFits(q)'
    BY <1>1 DEF PostingFits
<1>4. QED
    BY <1>2, <1>3

LEMMA OwnStep ==
    ASSUME TInv, NEW r \in Requests, UNCHANGED <<row, opening, op>>,
           \A q \in Requests \ {r} : /\ pc'[q] = pc[q] /\ todo'[q] = todo[q] /\ loaded'[q] = loaded[q]
                                     /\ written'[q] = written[q] /\ mine'[q] = mine[q],
           announced' \in [Requests -> SUBSET Items],
           pc'[r] \in Running \cup Committed \cup Refusals, ReadsFit(r)', PostingFits(r)'
    PROVE  TInv'
<1>1. StockFits'
    BY DEF TInv, StockFits
<1>2. Labels'
    BY DEF TInv, Labels
<1>3. \A q \in Requests \ {r} : ReadsFit(q)' /\ PostingFits(q)'
    BY SameReads DEF TInv
<1>4. QED
    BY <1>1, <1>2, <1>3 DEF TInv

LEMMA RollBackFits ==
    ASSUME IInv, TInv, NEW r \in Requests, NEW outcome \in Refusals, RollBack(r, outcome)
    PROVE  TInv'
<1>1. /\ UNCHANGED <<row, opening, op, announced>>
      /\ pc'[r] = outcome /\ todo'[r] = <<>> /\ loaded'[r] = NoRows /\ written'[r] = {} /\ mine'[r] = NoRows
      /\ \A q \in Requests \ {r} : /\ pc'[q] = pc[q] /\ todo'[q] = todo[q] /\ loaded'[q] = loaded[q]
                                   /\ written'[q] = written[q] /\ mine'[q] = mine[q]
    BY DEF RollBack, GoTo, db, IInv, Shape
<1>2. Len(todo'[r]) = 0
    BY <1>1, EmptySeq
<1>3. ReadsFit(r)'
    BY <1>1, <1>2, NoDataFits DEF ReadsFit
<1>4. PostingFits(r)'
    BY <1>1 DEF PostingFits, Refusals
<1>5. announced' \in [Requests -> SUBSET Items]
    BY <1>1 DEF TInv, Labels
<1>6. QED
    BY <1>1, <1>3, <1>4, <1>5, OwnStep

\* What any transaction sees of an item.
LEMMA SeenFits ==
    ASSUME IInv, TInv, NEW r \in Requests, NEW x \in Items
    PROVE  Seen(r, x) \in RowOf(x)
<1>1. CASE x \in Documents
    BY <1>1, SeenRow
<1>2. CASE x \in Positions
    BY <1>2 DEF Seen, TInv, ReadsFit, StockFits
<1>3. QED
    BY <1>1, <1>2 DEF Items

LEMMA LoadPositionFits ==
    ASSUME IInv, TInv, NEW r \in Requests, LoadPosition(r)
    PROVE  TInv'
<1> DEFINE x == Target(r)
<1>1. CASE ~Accepts(Current(r), Seen(r, x).data)
    BY <1>1, RollBackFits DEF LoadPosition, Refusals
<1>2. CASE Accepts(Current(r), Seen(r, x).data)
    <2>1. /\ x \in Positions /\ x \in Items
          /\ loaded' = [loaded EXCEPT ![r][x] = Seen(r, x)] /\ pc' = [pc EXCEPT ![r] = "write"]
          /\ UNCHANGED <<row, opening, op, todo, written, mine, announced>>
        BY <1>2 DEF LoadPosition, GoTo, Keep, db, Items
    <2>2. Seen(r, x) \in RowOf(x) /\ Seen(r, x).version \in Nat
        BY <2>1, SeenFits DEF RowOf
    <2>3. x = Target(r)' /\ Current(r)' = Current(r) /\ \A y : Seen(r, y)' = Seen(r, y)
        BY <2>1 DEF Current, Outermost, Target, Seen
    <2>4. Accepts(Current(r), Seen(r, x).data)
        BY <1>2
    <2> HIDE DEF x
    <2>5. /\ pc'[r] = "write" /\ loaded'[r][x] = Seen(r, x)
          /\ \A y \in Items \ {x} : loaded'[r][y] = loaded[r][y]
          /\ \A q \in Requests \ {r} : pc'[q] = pc[q] /\ loaded'[q] = loaded[q]
        BY <2>1 DEF IInv, Shape
    <2>6. ReadsFit(r)'
        BY <2>1, <2>2, <2>5 DEF TInv, ReadsFit
    <2>7. PostingFits(r)'
        <3>1. x \in written[r] => Seen(r, x).version > 0
            <4>1. SUFFICES ASSUME x \in written[r] PROVE mine[r][x].version > 0
                BY DEF Seen
            <4>2. /\ mine[r][x] \in RowOf(x) /\ mine[r][x].version > row[x].version
                  /\ row[x] \in RowOf(x)
                BY <2>1, <4>1 DEF TInv, ReadsFit, StockFits
            <4>3. QED
                BY <4>2 DEF RowOf
        <3>2. QED
            BY <2>1, <2>2, <2>3, <2>4, <2>5, <3>1 DEF PostingFits
    <2>8. announced' \in [Requests -> SUBSET Items] /\ pc'[r] \in Running
        BY <2>1, <2>5 DEF TInv, Labels, Running
    <2>9. QED
        BY <2>1, <2>5, <2>6, <2>7, <2>8, OwnStep
<1>3. QED
    BY <1>1, <1>2

LEMMA LoadHeaderFits ==
    ASSUME IInv, TInv, NEW r \in Requests, LoadHeader(r)
    PROVE  TInv'
<1> DEFINE x == Target(r)
           now == Seen(r, x)
<1>1. CASE ~Exists(x, now)
    BY <1>1, RollBackFits DEF LoadHeader, Refusals
<1>2. CASE Exists(x, now)
    <2> DEFINE head == [now EXCEPT !.data.lines = NoLines(x)]
    <2>1. /\ x \in Documents /\ x \in Items
          /\ loaded' = [loaded EXCEPT ![r][x] = head] /\ pc' = [pc EXCEPT ![r] = "loadLines"]
          /\ UNCHANGED <<row, opening, op, todo, written, mine, announced>>
        BY <1>2 DEF LoadHeader, GoTo, Keep, db, Items
    <2>2. now \in RowOf(x) /\ now.version > 0
        BY <1>2, <2>1, SeenRow DEF Exists
    <2>3. head.version > 0
        BY <2>2 DEF RowOf
    <2> HIDE DEF x, now, head
    <2>4. /\ pc'[r] = "loadLines" /\ loaded'[r][x] = head
          /\ \A y \in Items \ {x} : loaded'[r][y] = loaded[r][y]
          /\ \A q \in Requests \ {r} : pc'[q] = pc[q] /\ loaded'[q] = loaded[q]
        BY <2>1 DEF IInv, Shape
    <2>5. loaded'[r][x] \in RowOf(x)
        BY <2>1, <2>3, <2>4, LoadHeaderKeeps DEF IInv, SnapshotOf
    <2>6. ReadsFit(r)'
        BY <2>1, <2>4, <2>5 DEF TInv, ReadsFit
    <2>7. PostingFits(r)'
        BY <2>4 DEF PostingFits
    <2>8. announced' \in [Requests -> SUBSET Items] /\ pc'[r] \in Running
        BY <2>1, <2>4 DEF TInv, Labels, Running
    <2>9. QED
        BY <2>1, <2>4, <2>6, <2>7, <2>8, OwnStep
<1>3. QED
    BY <1>1, <1>2

LEMMA LoadLinesFits ==
    ASSUME IInv, TInv, NEW r \in Requests, LoadLines(r)
    PROVE  TInv'
<1> DEFINE x == Target(r)
           data == [loaded[r][x].data EXCEPT !.lines = Seen(r, x).data.lines]
<1>1. CASE ~Accepts(Current(r), data)
    BY <1>1, RollBackFits DEF LoadLines, Accepted, Refusals
<1>2. CASE Accepts(Current(r), data)
    <2> DEFINE calls == Current(r).kind = "Receive" /\ Calls(data) # <<>>
    <2>1. /\ pc[r] = "loadLines" /\ loaded' = [loaded EXCEPT ![r][x].data = data]
          /\ pc' = [pc EXCEPT ![r] = IF calls THEN "load" ELSE "write"]
          /\ todo' = IF calls THEN [todo EXCEPT ![r] = Calls(data)] ELSE todo
          /\ UNCHANGED <<row, opening, op, written, mine, announced>>
        BY <1>2 DEF LoadLines, Accepted, GoTo, Keep, db
    <2>2. /\ x \in Documents /\ x \in Items /\ x \notin Positions
          /\ loaded[r][x].version > 0 /\ loaded[r][x] \in RowOf(x)
        BY <2>1, DocumentsDiffer DEF IInv, ReadyOf, SnapshotOf, Items
    <2>3. loaded[r][x] = [version |-> loaded[r][x].version, data |-> loaded[r][x].data]
        BY <2>2 DEF RowOf
    <2>4. calls => Current(r).kind = "Receive" /\ todo[r] = <<>> /\ Current(r) = op[r] /\ x \in Receipts
        BY Commands DEF calls, IsNested, IsOperation, Target, x
    <2>5. ~calls => Target(r)' = x
        BY <2>1 DEF Target, Current, Outermost
    <2> HIDE DEF x, data, calls
    <2>6. /\ loaded'[r][x] = [version |-> loaded[r][x].version, data |-> data]
          /\ \A y \in Items \ {x} : loaded'[r][y] = loaded[r][y]
        BY <2>1, <2>2, <2>3 DEF IInv, Shape
    <2>7. /\ pc'[r] = (IF calls THEN "load" ELSE "write")
          /\ todo'[r] = (IF calls THEN Calls(data) ELSE todo[r])
          /\ \A q \in Requests \ {r} : pc'[q] = pc[q] /\ todo'[q] = todo[q] /\ loaded'[q] = loaded[q]
        BY <2>1 DEF IInv, Shape
    <2>8. loaded'[r][x] \in RowOf(x)
        <3>1. loaded'[r][x].version = loaded[r][x].version
            BY <2>6
        <3>2. SnapshotOf(r)'
            BY LoadLinesKeeps DEF IInv
        <3>3. loaded'[r][x].version > 0 => loaded'[r][x] \in RowOf(x)
            BY <2>2, <3>2 DEF SnapshotOf
        <3>4. QED
            BY <2>2, <3>1, <3>3
    <2>9. \A i \in 1 .. Len(todo'[r]) : IsCall(todo'[r][i])
        <3>1. CASE ~calls
            BY <2>7, <3>1 DEF TInv, ReadsFit
        <3>2. CASE calls
            <4>1. data \in Data(x) /\ x \in Receipts
                BY <2>4, <2>6, <2>8, <3>2 DEF RowOf
            <4>2. data.lines \in Seq(Arrivals) /\ data.order \in Orders \cup {NoOrder}
                BY <2>2, <4>1, DataShape DEF Lines
            <4>3. Calls(data) \in Seq(CallSet)
                BY <4>2, CallsForm
            <4>4. \A i \in 1 .. Len(Calls(data)) : Calls(data)[i] \in CallSet
                BY <4>3, ElementOfSeq
            <4>5. QED
                BY <2>7, <3>2, <4>4, CallSetIsCalls
        <3>3. QED
            BY <3>1, <3>2
    <2>10. ReadsFit(r)'
        BY <2>1, <2>6, <2>8, <2>9 DEF TInv, ReadsFit
    <2>11. PostingFits(r)'
        BY <2>2, <2>5, <2>7 DEF PostingFits
    <2>12. announced' \in [Requests -> SUBSET Items] /\ pc'[r] \in Running
        BY <2>1, <2>7 DEF TInv, Labels, Running
    <2>13. QED
        BY <2>1, <2>7, <2>10, <2>11, <2>12, OwnStep
<1>3. QED
    BY <1>1, <1>2

LEMMA CheckNumberFits ==
    ASSUME IInv, TInv, NEW r \in Requests, CheckNumber(r)
    PROVE  TInv'
<1>1. CASE \E y \in Documents : SameNumber(Target(r), y) /\ Exists(y, row[y])
    BY <1>1, RollBackFits DEF CheckNumber, Refusals
<1>2. CASE ~\E y \in Documents : SameNumber(Target(r), y) /\ Exists(y, row[y])
    <2>1. /\ pc[r] = "load" /\ Current(r).kind = "Create" /\ pc' = [pc EXCEPT ![r] = "write"]
          /\ UNCHANGED <<row, opening, op, todo, loaded, written, mine, announced>>
        BY <1>2 DEF CheckNumber, GoTo, Keep, db
    <2>2. pc'[r] = "write" /\ \A q \in Requests \ {r} : pc'[q] = pc[q]
        BY <2>1 DEF IInv, Shape
    <2>3. Target(r)' \notin Positions
        <3>1. todo[r] = <<>> /\ Current(r) = op[r]
            BY <2>1, Commands DEF IsNested
        <3>2. Target(r)' = op[r].item /\ op[r].item \in Documents
            BY <2>1, <3>1, Commands DEF Target, Current, Outermost
        <3>3. QED
            BY <3>2, DocumentsDiffer
    <2>4. ReadsFit(r)'
        BY <2>1 DEF TInv, ReadsFit
    <2>5. PostingFits(r)'
        BY <2>3 DEF PostingFits
    <2>6. announced' \in [Requests -> SUBSET Items] /\ pc'[r] \in Running
        BY <2>1, <2>2 DEF TInv, Labels, Running
    <2>7. QED
        BY <2>1, <2>2, <2>4, <2>5, <2>6, OwnStep
<1>3. QED
    BY <1>1, <1>2

LEMMA PublishFits ==
    ASSUME IInv, TInv, NEW r \in Requests, Publish(r) \/ LoseEvents(r)
    PROVE  TInv'
<1>1. /\ pc' = [pc EXCEPT ![r] = pc'[r]] /\ pc'[r] \in {"published", "lost"}
      /\ UNCHANGED <<row, opening, op, todo, loaded, written, mine>>
    BY DEF Publish, LoseEvents, GoTo, db, IInv, Shape
<1>2. announced' \in [Requests -> SUBSET Items]
    <2>1. op[r].item \in Items
        BY Commands DEF Items
    <2>2. QED
        BY <2>1 DEF Publish, LoseEvents, TInv, Labels
<1>3. \A q \in Requests \ {r} : pc'[q] = pc[q]
    BY <1>1 DEF IInv, Shape
<1>4. ReadsFit(r)'
    BY <1>1 DEF TInv, ReadsFit
<1>5. PostingFits(r)'
    BY <1>1 DEF PostingFits
<1>6. QED
    BY <1>1, <1>2, <1>3, <1>4, <1>5, OwnStep DEF Committed

LEMMA WriteFits ==
    ASSUME IInv, TInv, NEW r \in Requests, NEW w, Write(r, w),
           Target(r) \in Positions => w \in RowOf(Target(r)) /\ w.version > row[Target(r)].version
    PROVE  TInv'
<1> DEFINE x == Target(r)
<1>1. /\ written' = [written EXCEPT ![r] = @ \cup {x}] /\ mine' = [mine EXCEPT ![r][x] = w]
      /\ todo[r] = <<>> => pc' = [pc EXCEPT ![r] = "commit"] /\ todo' = todo /\ announced' = announced
      /\ todo[r] # <<>> =>
           /\ todo' = [todo EXCEPT ![r] = Tail(@)]
           /\ pc' = [pc EXCEPT ![r] = IF Len(todo[r]) = 1 THEN "write" ELSE "load"]
           /\ announced' = [announced EXCEPT ![r] = @ \cup {x}]
      /\ UNCHANGED <<row, opening, op, loaded>>
    BY DEF Write, GoTo, Outermost, db
<1>2. x \in Items /\ (x \in Documents => x \notin Positions)
    BY Commands, DocumentsDiffer
<1>3. /\ todo[r] = <<>> => pc'[r] = "commit" /\ todo'[r] = <<>>
      /\ todo[r] # <<>> =>
           todo'[r] = Tail(todo[r]) /\ pc'[r] = (IF Len(todo[r]) = 1 THEN "write" ELSE "load")
    BY <1>1 DEF IInv, Shape
<1>4. /\ written'[r] = written[r] \cup {x} /\ mine'[r][x] = w
      /\ \A y \in Items \ {x} : mine'[r][y] = mine[r][y]
    BY <1>1, <1>2 DEF IInv, Shape
<1>5. \A q \in Requests \ {r} : /\ written'[q] = written[q] /\ mine'[q] = mine[q]
                                /\ todo'[q] = todo[q] /\ pc'[q] = pc[q] /\ loaded'[q] = loaded[q]
    BY <1>1 DEF IInv, Shape
<1>6. x \in Positions => w \in RowOf(x) /\ w.version > row[x].version
    OBVIOUS
<1> HIDE DEF x
<1>7. \A i \in 1 .. Len(todo'[r]) : IsCall(todo'[r][i])
    <2>1. CASE todo[r] = <<>>
        BY <1>3, <2>1 DEF TInv, ReadsFit
    <2>2. CASE todo[r] # <<>>
        <3>1. PICK S : todo[r] \in Seq(S)
            BY DEF IInv, Shape
        <3>2. /\ Len(Tail(todo[r])) = Len(todo[r]) - 1 /\ Len(todo[r]) \in Nat
              /\ \A i \in 1 .. Len(Tail(todo[r])) : Tail(todo[r])[i] = todo[r][i + 1]
            BY <2>2, <3>1, HeadTailProperties, LenProperties
        <3>3. \A i \in 1 .. Len(todo[r]) : IsCall(todo[r][i])
            BY DEF TInv, ReadsFit
        <3>4. \A i \in 1 .. Len(Tail(todo[r])) : i + 1 \in 1 .. Len(todo[r])
            BY <3>2
        <3>5. QED
            BY <1>3, <2>2, <3>2, <3>3, <3>4
    <2>3. QED
        BY <2>1, <2>2
<1>8. ReadsFit(r)'
    <2>1. \A y \in Items \ written'[r] : mine'[r][y] = NoRow(y)
        BY <1>4 DEF TInv, ReadsFit
    <2>2. \A y \in written'[r] \cap Positions : mine'[r][y] \in RowOf(y) /\ mine'[r][y].version > row[y].version
        BY <1>2, <1>4, <1>6 DEF TInv, ReadsFit, Items
    <2>3. QED
        BY <1>1, <1>7, <2>1, <2>2 DEF TInv, ReadsFit
<1>9. PostingFits(r)'
    <2>1. CASE pc'[r] # "write"
        BY <2>1 DEF PostingFits
    <2>2. CASE pc'[r] = "write"
        <3>1. todo[r] # <<>> /\ Len(todo[r]) = 1
            BY <1>3, <2>2
        <3>2. todo'[r] = <<>> /\ op'[r].item \in Documents
            BY <1>1, <1>3, <3>1, Commands
        <3>3. Target(r)' \notin Positions
            BY <3>2, DocumentsDiffer DEF Target, Current, Outermost
        <3>4. QED
            BY <3>3 DEF PostingFits
    <2>3. QED
        BY <2>1, <2>2
<1>10. announced' \in [Requests -> SUBSET Items] /\ pc'[r] \in Running
    <2>1. CASE todo[r] = <<>>
        BY <1>1, <1>3, <2>1 DEF TInv, Labels, Running
    <2>2. CASE todo[r] # <<>>
        BY <1>1, <1>2, <1>3, <2>2 DEF TInv, Labels, Running
    <2>3. QED
        BY <2>1, <2>2
<1>11. QED
    BY <1>1, <1>5, <1>8, <1>9, <1>10, OwnStep

LEMMA WriteRowFits ==
    ASSUME IInv, TInv, NEW r \in Requests, WriteRow(r)
    PROVE  TInv'
<1> DEFINE x == Target(r)
           c == Current(r)
           was == loaded[r][x]
           w == [version |-> was.version + 1, data |-> Result(c, was.data)]
<1>1. /\ pc[r] = "write" /\ Write(r, w)
      /\ IF Inserts(r) THEN ~Duplicate(r) ELSE ~Stale(r)
    BY DEF WriteRow, Writing
<1>2. ASSUME x \in Positions
      PROVE  w \in RowOf(x) /\ w.version > row[x].version
    <2>1. c.item = x /\ x \in Items /\ x \notin Documents
        BY <1>2, DocumentsDiffer DEF Target, Items
    <2>2. todo[r] # <<>> /\ c = Head(todo[r])
        BY <2>1, Commands
    <2>3. c.kind = "Post" /\ c.units \in 1 .. MaxInt
        <3>1. PICK S : todo[r] \in Seq(S)
            BY DEF IInv, Shape
        <3>2. c = todo[r][1] /\ 1 \in 1 .. Len(todo[r])
            BY <2>2, <3>1
        <3>3. IsCall(c)
            BY <3>2 DEF TInv, ReadsFit
        <3>4. QED
            BY <1>2, <2>1, <3>3, DocumentsDiffer DEF IsCall, Documents
    <2>4. was \in RowOf(x) /\ row[x] \in RowOf(x) /\ Seen(r, x) \in RowOf(x)
        BY <1>2, <2>1, SeenFits DEF TInv, ReadsFit, StockFits
    <2>5. was.version \in Nat /\ was.data \in 0 .. MaxInt /\ row[x].version \in Nat /\ Seen(r, x).version \in Nat
        BY <1>2, <2>4 DEF RowOf, Data
    <2>6. Accepts(c, was.data)
        BY <1>1, <1>2 DEF TInv, PostingFits
    <2>7. was.data + c.units \in 0 .. MaxInt
        <3>1. was.data <= Capacity[x] - c.units
            BY <2>1, <2>3, <2>6 DEF Accepts, Room
        <3>2. Capacity[x] \in 0 .. MaxInt
            BY <1>2, RulesAssumption
        <3> HIDE DEF x, c, was
        <3>3. QED
            BY <2>3, <2>5, <3>1, <3>2, RulesAssumption
    <2>8. Result(c, was.data) = was.data + c.units
        BY <2>3 DEF Result
    <2>9. was.version + 1 > row[x].version
        <3>1. CASE Inserts(r)
            <4>1. was.version = 0 /\ ~(row[x].version > 0)
                BY <1>1, <1>2, <3>1 DEF Inserts, Duplicate
            <4> HIDE DEF x, was
            <4>2. QED
                BY <2>5, <4>1
        <3>2. CASE ~Inserts(r)
            <4>1. Seen(r, x).version = was.version
                BY <1>1, <3>2 DEF Stale
            <4>2. Seen(r, x).version >= row[x].version
                BY <1>2, <2>5 DEF Seen, TInv, ReadsFit
            <4> HIDE DEF x, was
            <4>3. QED
                BY <2>5, <4>1, <4>2
        <3>3. QED
            BY <3>1, <3>2
    <2> HIDE DEF x, c, was
    <2>10. QED
        BY <1>2, <2>5, <2>7, <2>8, <2>9 DEF RowOf, Data
<1> HIDE DEF w
<1>3. QED
    BY <1>1, <1>2, WriteFits

LEMMA DeleteDraftFits ==
    ASSUME IInv, TInv, NEW r \in Requests, DeleteDraft(r)
    PROVE  TInv'
<1> DEFINE x == Target(r)
           w == [row[x] EXCEPT !.data = Result(Current(r), @)]
<1>1. CASE ~Deletable(x, row[x])
    BY <1>1, RollBackFits DEF DeleteDraft, Refusals
<1>2. CASE Deletable(x, row[x])
    <2>1. Write(r, w) /\ Current(r).kind = "Delete"
        BY <1>2 DEF DeleteDraft
    <2>2. todo[r] = <<>> /\ x = op[r].item
        BY <2>1, Commands DEF Target, IsNested
    <2>3. x \notin Positions
        BY <2>2, Commands, DocumentsDiffer
    <2> HIDE DEF w
    <2>4. QED
        BY <2>1, <2>3, WriteFits
<1>3. QED
    BY <1>1, <1>2

\* What a commit does to the rows, and to the others' open transactions.
LEMMA CommitDoes ==
    ASSUME IInv, NEW r \in Requests, Commit(r)
    PROVE  /\ pc[r] = "commit" /\ todo[r] = <<>> /\ UNCHANGED <<opening, op, todo, announced>>
           /\ pc'[r] = "publish" /\ loaded'[r] = NoRows /\ written'[r] = {} /\ mine'[r] = NoRows
           /\ \A q \in Requests \ {r} : /\ pc'[q] = pc[q] /\ loaded'[q] = loaded[q]
                                        /\ written'[q] = written[q] /\ mine'[q] = mine[q]
                                        /\ written[q] \cap written[r] = {}
           /\ \A x \in Items \ written[r] : row'[x] = row[x]
           /\ \A x \in written[r] : x \in Items /\ row'[x] = mine[r][x]
           /\ \A q \in Requests : Current(q)' = Current(q) /\ Target(q)' = Target(q)
<1>1. /\ pc[r] = "commit" /\ row' = [x \in Items |-> Seen(r, x)] /\ pc' = [pc EXCEPT ![r] = "publish"]
      /\ loaded' = [loaded EXCEPT ![r] = NoRows] /\ written' = [written EXCEPT ![r] = {}]
      /\ mine' = [mine EXCEPT ![r] = NoRows] /\ UNCHANGED <<opening, op, todo, announced>>
    BY DEF Commit, GoTo
<1>2. todo[r] = <<>>
    BY <1>1 DEF IInv, ReadyOf
<1>3. /\ pc'[r] = "publish" /\ loaded'[r] = NoRows /\ written'[r] = {} /\ mine'[r] = NoRows
      /\ \A q \in Requests \ {r} : /\ pc'[q] = pc[q] /\ loaded'[q] = loaded[q]
                                   /\ written'[q] = written[q] /\ mine'[q] = mine[q]
    BY <1>1 DEF IInv, Shape
<1>4. \A q \in Requests \ {r} : written[q] \cap written[r] = {}
    BY DEF IInv, Locks
<1>5. \A x \in written[r] : x \in Items
    BY DEF IInv, Shape
<1>6. \A q \in Requests : Current(q)' = Current(q) /\ Target(q)' = Target(q)
    BY <1>1 DEF Current, Outermost, Target
<1>7. QED
    BY <1>1, <1>2, <1>3, <1>4, <1>5, <1>6 DEF Seen

LEMMA CommitFits ==
    ASSUME IInv, TInv, NEW r \in Requests, Commit(r)
    PROVE  TInv'
<1>1. /\ pc[r] = "commit" /\ todo[r] = <<>> /\ UNCHANGED <<opening, op, todo, announced>>
      /\ pc'[r] = "publish" /\ loaded'[r] = NoRows /\ written'[r] = {} /\ mine'[r] = NoRows
      /\ \A q \in Requests \ {r} : /\ pc'[q] = pc[q] /\ loaded'[q] = loaded[q]
                                   /\ written'[q] = written[q] /\ mine'[q] = mine[q]
                                   /\ written[q] \cap written[r] = {}
      /\ \A x \in Items \ written[r] : row'[x] = row[x]
      /\ \A x \in written[r] : x \in Items /\ row'[x] = mine[r][x]
      /\ \A q \in Requests : Current(q)' = Current(q) /\ Target(q)' = Target(q)
    BY CommitDoes
<1>2. \A x \in Positions : x \in Items /\ row[x] \in RowOf(x) /\ row[x].version \in Nat
    BY DEF TInv, StockFits, RowOf, Items
<1>3. \A x \in written[r] \cap Positions :
        row'[x] \in RowOf(x) /\ row'[x].version \in Nat /\ row'[x].version > row[x].version
    BY <1>1 DEF TInv, ReadsFit, RowOf
<1>4. StockFits'
    <2>1. SUFFICES ASSUME NEW x \in Positions
                   PROVE  row'[x] \in RowOf(x) /\ (row'[x].version = 0 => row'[x].data = 0)
        BY DEF StockFits, RowOf, Data
    <2>2. CASE x \in written[r]
        BY <1>2, <1>3, <2>2
    <2>3. CASE x \notin written[r]
        BY <1>1, <1>2, <2>3 DEF TInv, StockFits
    <2>4. QED
        BY <2>2, <2>3
<1>5. Labels'
    <2>1. pc'[r] \in Committed
        BY <1>1 DEF Committed
    <2>2. QED
        BY <1>1, <2>1 DEF TInv, Labels
<1>6. ReadsFit(r)' /\ PostingFits(r)'
    <2>1. Len(todo'[r]) = 0
        BY <1>1, EmptySeq
    <2>2. ReadsFit(r)'
        BY <1>1, <2>1, NoDataFits DEF ReadsFit
    <2>3. QED
        BY <1>1, <2>2 DEF PostingFits
<1>7. ASSUME NEW q \in Requests \ {r}
      PROVE  ReadsFit(q)' /\ PostingFits(q)'
    <2>1. ReadsFit(q)'
        <3>1. \A x \in written[q] \cap Positions : x \in Items /\ row'[x] = row[x]
            BY <1>1, <1>2
        <3>2. QED
            BY <1>1, <3>1 DEF TInv, ReadsFit
    <2>2. ASSUME pc[q] = "write", NEW x \in Positions, x = Target(q)
          PROVE  /\ Accepts(Current(q), loaded[q][x].data)
                 /\ loaded[q][x].version <= Seen(q, x)'.version
                 /\ loaded[q][x].version = Seen(q, x)'.version => loaded[q][x].data = Seen(q, x)'.data
                 /\ x \in written[q] => loaded[q][x].version > 0
        <3>1. /\ Accepts(Current(q), loaded[q][x].data)
              /\ loaded[q][x].version <= Seen(q, x).version
              /\ loaded[q][x].version = Seen(q, x).version => loaded[q][x].data = Seen(q, x).data
              /\ x \in written[q] => loaded[q][x].version > 0
            BY <2>2 DEF TInv, PostingFits
        <3>2. x \in Positions /\ x \in Items /\ loaded[q][x] \in RowOf(x)
            BY <1>2, <2>2 DEF TInv, ReadsFit
        <3>3. CASE x \in written[q] \/ x \notin written[r]
            <4>1. Seen(q, x)' = Seen(q, x)
                BY <1>1, <3>2, <3>3 DEF Seen
            <4>2. QED
                BY <3>1, <4>1
        <3>4. CASE x \notin written[q] /\ x \in written[r]
            <4>1. Seen(q, x) = row[x] /\ Seen(q, x)' = row'[x]
                BY <1>1, <3>4 DEF Seen
            <4>2. row'[x].version > row[x].version /\ row'[x].version \in Nat /\ row[x].version \in Nat
                  /\ loaded[q][x].version \in Nat
                BY <1>2, <1>3, <3>2, <3>4 DEF RowOf
            <4>3. loaded[q][x].version <= row'[x].version /\ loaded[q][x].version # row'[x].version
                BY <3>1, <4>1, <4>2
            <4>4. QED
                BY <3>1, <4>1, <4>3
        <3>5. QED
            BY <3>3, <3>4
    <2>3. PostingFits(q)'
        BY <1>1, <2>2 DEF PostingFits
    <2>4. QED
        BY <2>1, <2>3
<1>8. QED
    BY <1>4, <1>5, <1>6, <1>7 DEF TInv

LEMMA StepFits == IInv /\ TInv /\ [Next]_vars => TInv'
<1> SUFFICES ASSUME IInv, TInv, [Next]_vars PROVE TInv'
    OBVIOUS
<1>1. CASE UNCHANGED vars
    <2>1. UNCHANGED <<row, opening, op, pc, todo, loaded, written, mine, announced>>
        BY <1>1 DEF vars
    <2>2. StockFits' /\ Labels'
        BY <2>1 DEF TInv, StockFits, Labels
    <2>3. \A q \in Requests : ReadsFit(q)' /\ PostingFits(q)'
        BY <2>1, SameReads DEF TInv
    <2>4. QED
        BY <2>2, <2>3 DEF TInv
<1>2. ASSUME NEW r \in Requests,
             Step(r) \/ InputRefused(r) \/ Fail(r) \/ LoseEvents(r) \/ DeadlockVictim(r)
      PROVE  TInv'
    <2>1. CASE LoadPosition(r)
        BY <2>1, LoadPositionFits
    <2>2. CASE LoadHeader(r)
        BY <2>2, LoadHeaderFits
    <2>3. CASE LoadLines(r)
        BY <2>3, LoadLinesFits
    <2>4. CASE CheckNumber(r)
        BY <2>4, CheckNumberFits
    <2>5. CASE WriteRow(r)
        BY <2>5, WriteRowFits
    <2>6. CASE WriteStale(r) \/ WriteDuplicate(r)
        BY <2>6, RollBackFits DEF WriteStale, WriteDuplicate, Refusals
    <2>7. CASE DeleteDraft(r)
        BY <2>7, DeleteDraftFits
    <2>8. CASE Commit(r)
        BY <2>8, CommitFits
    <2>9. CASE Publish(r) \/ LoseEvents(r)
        BY <2>9, PublishFits
    <2>10. CASE InputRefused(r) \/ Fail(r) \/ DeadlockVictim(r)
        BY <2>10, RollBackFits DEF InputRefused, Fail, DeadlockVictim, Refusals
    <2>11. QED
        BY <1>2, <2>1, <2>2, <2>3, <2>4, <2>5, <2>6, <2>7, <2>8, <2>9, <2>10 DEF Step
<1>3. QED
    BY <1>1, <1>2 DEF Next

LEMMA RowsAreRows == \A x : \A w \in RowOf(x) : IsRow(w, x)
BY DEF RowOf, IsRow

\* Every value stays what its type says: no posting takes a position past int64, no
\* booking an order past what it ordered, whatever the transactions read before.
THEOREM TypesHold == Spec => []TypeOK
<1>1. IInv /\ TInv => TypeOK
    <2> SUFFICES ASSUME IInv, TInv PROVE TypeOK
        OBVIOUS
    <2>1. ASSUME NEW x \in Items
          PROVE  row[x] \in RowOf(x) /\ opening[x] \in RowOf(x)
        BY DEF IInv, RowsFit, TInv, StockFits, Labels, Items
    <2>2. op \in [Requests -> Operations] /\ pc \in [Requests -> Running \cup Committed \cup Refusals]
        BY DEF IInv, Shape, TInv, Labels
    <2>3. ASSUME NEW r \in Requests
          PROVE  /\ \A i \in DOMAIN todo[r] : IsCall(todo[r][i])
                 /\ written[r] \subseteq Items /\ announced[r] \subseteq Items
        <3>1. PICK S : todo[r] \in Seq(S)
            BY DEF IInv, Shape
        <3>2. DOMAIN todo[r] = 1 .. Len(todo[r])
            BY <3>1
        <3>3. QED
            BY <3>2 DEF IInv, Shape, TInv, Labels, ReadsFit
    <2>4. ASSUME NEW r \in Requests, NEW x \in Items
          PROVE  loaded[r][x] \in RowOf(x) /\ mine[r][x] \in RowOf(x)
        <3>1. loaded[r][x] \in RowOf(x)
            BY DEF TInv, ReadsFit
        <3>2. CASE x \notin written[r]
            BY <3>2, NoDataFits DEF TInv, ReadsFit
        <3>3. CASE x \in written[r] \cap Positions
            BY <3>3 DEF TInv, ReadsFit
        <3>4. CASE x \in written[r] \cap Documents
            <4>1. DraftFits(r, x, mine[r][x])
                BY <3>4 DEF IInv, DraftOf
            <4>2. QED
                BY <3>1, <4>1 DEF DraftFits
        <3>5. QED
            BY <3>1, <3>2, <3>3, <3>4 DEF Items
    <2>5. QED
        BY <2>1, <2>2, <2>3, <2>4, RowsAreRows DEF TypeOK
<1>2. QED
    BY <1>1, InitIInv, InitTInv, StepKeeps, StepFits, PTL DEF Spec

-----------------------------------------------------------------------------
(* What a request has carried out so far *)

Now == [x \in Items |-> row[x].data]

CallsOf(r) == Calls(loaded[r][op[r].item].data)

Done(r) == Len(CallsOf(r)) - Len(todo[r])

InFlight(r) == op[r].kind = "Receive" /\ (todo[r] # <<>> \/ pc[r] \in {"write", "commit"})

Fresh(r) ==
    /\ todo[r] = <<>>
    /\ pc[r] \in {"load", "loadLines"} \/ (pc[r] = "write" /\ op[r].kind # "Receive")

\* An open Receive has written what the calls it made leave of the rows as they are
\* committed now, and each call was one those rows allow.
Carrying(r) ==
    LET calls == CallsOf(r)
        after == Replay(Now, calls)
    IN  /\ Done(r) \in 0 .. Len(calls)
        /\ \A i \in 1 .. Len(todo[r]) : todo[r][i] = calls[Done(r) + i]
        /\ \A i \in 1 .. Done(r) :
             calls[i].item \in written[r] /\ Accepts(calls[i], after[i - 1][calls[i].item])
        /\ \A x \in written[r] :
             \/ pc[r] = "commit" /\ x = op[r].item
             \/ /\ \E i \in 1 .. Done(r) : x = calls[i].item
                /\ mine[r][x].data = after[Done(r)][x]

\* A request about to commit has carried out its operation on its document as it is
\* committed now.
Concluded(r) ==
    LET x == op[r].item
        d == row[x].data
    IN  /\ x \in written[r] /\ mine[r][x].data = Result(op[r], d)
        /\ op[r].kind = "Create" => row[x].version = 0
        /\ op[r].kind = "Delete" => d.status = "DRAFT"
        /\ op[r].kind \notin {"Create", "Delete"} => Accepts(op[r], d)
        /\ op[r].kind = "Receive" => loaded[r][x].data = d
        /\ op[r].kind # "Receive" => written[r] \subseteq {x}

FlightOf(r) ==
    /\ Fresh(r) => written[r] = {}
    /\ InFlight(r) => Carrying(r)
    /\ pc[r] = "commit" => Concluded(r)

FInv == \A r \in Requests : FlightOf(r)

LEMMA InitFInv == Init => FInv
BY DEF Init, FInv, FlightOf, InFlight, Fresh

LEMMA NowIsFile == IsFile(Now) /\ \A x \in Items : Now[x] = row[x].data
BY DEF IsFile, Now

\* The calls of a receipt in flight.
LEMMA ItsCalls ==
    ASSUME IInv, TInv, NEW r \in Requests, op[r].kind = "Receive"
    PROVE  /\ op[r].item \in Receipts /\ op[r].item \in Items
           /\ Len(CallsOf(r)) \in Nat
           /\ \A i \in 1 .. Len(CallsOf(r)) :
                CallsOf(r)[i].item \in Items /\ CallsOf(r)[i].item # op[r].item
<1> DEFINE g == op[r].item
<1>1. g \in Receipts /\ g \in Documents /\ g \in Items
    BY Commands DEF IsOperation, Items
<1>2. loaded[r][g].data \in Data(g)
    BY <1>1 DEF TInv, ReadsFit, RowOf
<1>3. loaded[r][g].data.lines \in Seq(Arrivals) /\ loaded[r][g].data.order \in Orders \cup {NoOrder}
    BY <1>1, <1>2, DataShape DEF Lines
<1>4. CallsOf(r) \in Seq(CallSet)
    BY <1>3, CallsForm DEF CallsOf
<1>5. Len(CallsOf(r)) \in Nat /\ \A i \in 1 .. Len(CallsOf(r)) : CallsOf(r)[i] \in CallSet
    BY <1>4, ElementOfSeq, LenProperties
<1>6. \A c \in CallSet : c.item \in Items /\ c.item # g
    <2>1. SUFFICES ASSUME NEW c \in CallSet PROVE c.item \in Items /\ c.item # g
        OBVIOUS
    <2>2. c.item \in Items /\ IsCall(c)
        BY CallSetIsCalls
    <2>3. c.item \in Positions \/ c.item \in Orders
        BY <2>2 DEF IsCall
    <2>4. QED
        BY <1>1, <2>2, <2>3, DocumentsDiffer
<1>7. QED
    BY <1>1, <1>5, <1>6

\* Only what a transaction has written matters to it.
LEMMA FlightStays ==
    ASSUME IInv, TInv, NEW q \in Requests, FlightOf(q),
           op' = op, todo'[q] = todo[q], written'[q] = written[q], mine'[q] = mine[q],
           loaded'[q][op[q].item] = loaded[q][op[q].item],
           pc'[q] = "commit" <=> pc[q] = "commit", InFlight(q)' => InFlight(q), Fresh(q)' => Fresh(q),
           \A x \in written[q] : row'[x] = row[x]
    PROVE  FlightOf(q)'
<1>1. ASSUME InFlight(q)'
      PROVE  Carrying(q)'
    <2> DEFINE calls == CallsOf(q)
               after == Replay(Now, calls)
               later == Replay(Now', calls)
               n == Done(q)
    <2>1. InFlight(q) /\ op[q].kind = "Receive" /\ Carrying(q)
        BY <1>1 DEF InFlight, FlightOf
    <2>2. /\ Len(calls) \in Nat /\ \A i \in 1 .. Len(calls) : calls[i].item \in Items
        BY <2>1, ItsCalls
    <2>3. CallsOf(q)' = calls /\ Done(q)' = n
        BY DEF CallsOf, Done
    <2>4. IsFile(Now) /\ IsFile(Now') /\ \A x \in Items : Now[x] = row[x].data /\ Now'[x] = row'[x].data
        BY DEF IsFile, Now
    <2>5. /\ n \in 0 .. Len(calls)
          /\ \A i \in 1 .. Len(todo[q]) : todo[q][i] = calls[n + i]
          /\ \A i \in 1 .. n :
               calls[i].item \in written[q] /\ Accepts(calls[i], after[i - 1][calls[i].item])
          /\ \A x \in written[q] :
               \/ pc[q] = "commit" /\ x = op[q].item
               \/ /\ \E i \in 1 .. n : x = calls[i].item
                  /\ mine[q][x].data = after[n][x]
        BY <2>1 DEF Carrying
    <2> HIDE DEF calls, n
    <2>6. ASSUME NEW x \in written[q], x \in Items
          PROVE  \A k \in 0 .. Len(calls) : after[k][x] = later[k][x]
        <3>1. Now[x] = Now'[x]
            BY <2>4, <2>6
        <3>2. QED
            <4>1. ASSUME NEW b, IsFile(b), NEW c, IsFile(c), b[x] = c[x]
                  PROVE  \A k \in 0 .. Len(calls) : Replay(b, calls)[k][x] = Replay(c, calls)[k][x]
                BY ONLY <2>2, <2>6, <4>1, ReplayLocal
            <4>2. QED
                BY <2>4, <3>1, <4>1
    <2> HIDE DEF after, later
    <2>7. ASSUME NEW i \in 1 .. n
          PROVE  calls[i].item \in written[q] /\ Accepts(calls[i], later[i - 1][calls[i].item])
        <3>1. i \in 1 .. Len(calls) /\ i - 1 \in 0 .. Len(calls)
            BY <2>2, <2>5
        <3>2. calls[i].item \in written[q] /\ calls[i].item \in Items
            BY <2>2, <2>5, <3>1
        <3>3. after[i - 1][calls[i].item] = later[i - 1][calls[i].item]
            BY <2>6, <3>1, <3>2
        <3>4. QED
            BY <2>5, <3>2, <3>3
    <2>8. ASSUME NEW x \in written[q]
          PROVE  \/ pc[q] = "commit" /\ x = op[q].item
                 \/ /\ \E i \in 1 .. n : x = calls[i].item
                    /\ mine[q][x].data = later[n][x]
        <3>1. x \in Items
            BY DEF IInv, Shape
        <3>2. after[n][x] = later[n][x]
            BY <2>5, <2>6, <3>1
        <3>3. QED
            BY <2>5, <3>2
    <2>9. later = Replay(Now, CallsOf(q))'
        BY <2>3 DEF later
    <2>10. QED
        BY <2>3, <2>5, <2>7, <2>8, <2>9 DEF Carrying
<1>2. ASSUME pc'[q] = "commit"
      PROVE  Concluded(q)'
    <2>1. Concluded(q)
        BY <1>2 DEF FlightOf
    <2>2. row'[op[q].item] = row[op[q].item]
        BY <2>1 DEF Concluded
    <2>3. QED
        BY <2>1, <2>2 DEF Concluded
<1>3. QED
    BY <1>1, <1>2 DEF FlightOf

LEMMA OneFlies ==
    ASSUME IInv, TInv, FInv, NEW r \in Requests, op' = op,
           \A q \in Requests \ {r} : /\ pc'[q] = pc[q] /\ todo'[q] = todo[q] /\ loaded'[q] = loaded[q]
                                     /\ written'[q] = written[q] /\ mine'[q] = mine[q]
                                     /\ \A x \in written[q] : row'[x] = row[x],
           FlightOf(r)'
    PROVE  FInv'
<1>1. ASSUME NEW q \in Requests \ {r}
      PROVE  FlightOf(q)'
    <2>1. (InFlight(q)' => InFlight(q)) /\ (Fresh(q)' => Fresh(q)) /\ FlightOf(q)
        BY DEF InFlight, Fresh, FInv
    <2>2. QED
        BY <2>1, FlightStays
<1>2. QED
    BY <1>1 DEF FInv

LEMMA RollBackFlies ==
    ASSUME IInv, TInv, FInv, NEW r \in Requests, NEW outcome \in Refusals, RollBack(r, outcome)
    PROVE  FInv'
<1>1. /\ UNCHANGED <<row, op>>
      /\ pc'[r] = outcome /\ todo'[r] = <<>> /\ written'[r] = {}
      /\ \A q \in Requests \ {r} : /\ pc'[q] = pc[q] /\ todo'[q] = todo[q] /\ loaded'[q] = loaded[q]
                                   /\ written'[q] = written[q] /\ mine'[q] = mine[q]
    BY DEF RollBack, GoTo, db, IInv, Shape
<1>2. FlightOf(r)'
    BY <1>1 DEF FlightOf, InFlight, Fresh, Refusals
<1>3. QED
    BY <1>1, <1>2, OneFlies

\* A step that only reads, for a call of a receipt.
LEMMA ReadingFlies ==
    ASSUME IInv, TInv, FInv, NEW r \in Requests, todo[r] # <<>>, pc[r] # "commit",
           NEW label \in {"loadLines", "write"}, GoTo(r, label),
           loaded'[r][op[r].item] = loaded[r][op[r].item],
           \A q \in Requests \ {r} : loaded'[q] = loaded[q],
           UNCHANGED <<row, op, todo, written, mine>>
    PROVE  FInv'
<1>1. pc'[r] = label /\ \A q \in Requests \ {r} : pc'[q] = pc[q]
    BY DEF GoTo, IInv, Shape
<1>2. (InFlight(r)' => InFlight(r)) /\ ~Fresh(r)'
    BY DEF InFlight, Fresh
<1>3. FlightOf(r)'
    BY <1>1, <1>2, FlightStays DEF FInv
<1>4. QED
    BY <1>1, <1>3, OneFlies

LEMMA LoadPositionFlies ==
    ASSUME IInv, TInv, FInv, NEW r \in Requests, LoadPosition(r)
    PROVE  FInv'
<1> DEFINE x == Target(r)
<1>1. CASE ~Accepts(Current(r), Seen(r, x).data)
    BY <1>1, RollBackFlies DEF LoadPosition, Refusals
<1>2. CASE Accepts(Current(r), Seen(r, x).data)
    <2>1. /\ pc[r] = "load" /\ x \in Positions
          /\ loaded' = [loaded EXCEPT ![r][x] = Seen(r, x)] /\ GoTo(r, "write")
          /\ UNCHANGED <<row, op, todo, written, mine>>
        BY <1>2 DEF LoadPosition, Keep, db
    <2>2. todo[r] # <<>> /\ x # op[r].item
        BY <2>1, Commands, DocumentsDiffer DEF Target
    <2> HIDE DEF x
    <2>3. loaded'[r][op[r].item] = loaded[r][op[r].item] /\ \A q \in Requests \ {r} : loaded'[q] = loaded[q]
        BY <2>1, <2>2, Commands DEF IInv, Shape, Items
    <2>4. QED
        BY <2>1, <2>2, <2>3, ReadingFlies
<1>3. QED
    BY <1>1, <1>2

LEMMA LoadHeaderFlies ==
    ASSUME IInv, TInv, FInv, NEW r \in Requests, LoadHeader(r)
    PROVE  FInv'
<1> DEFINE x == Target(r)
           head == [Seen(r, x) EXCEPT !.data.lines = NoLines(x)]
<1>1. CASE ~Exists(x, Seen(r, x))
    BY <1>1, RollBackFlies DEF LoadHeader, Refusals
<1>2. CASE Exists(x, Seen(r, x))
    <2>1. /\ pc[r] = "load" /\ x \in Documents
          /\ loaded' = [loaded EXCEPT ![r][x] = head] /\ GoTo(r, "loadLines")
          /\ UNCHANGED <<row, op, todo, written, mine>>
        BY <1>2 DEF LoadHeader, Keep, db
    <2>2. todo[r] # <<>> => x # op[r].item
        BY <2>1, Commands, DocumentsDiffer DEF Target, IsNested
    <2> HIDE DEF x, head
    <2>3. /\ x # op[r].item => loaded'[r][op[r].item] = loaded[r][op[r].item]
          /\ \A q \in Requests \ {r} : loaded'[q] = loaded[q]
        BY <2>1, Commands DEF IInv, Shape, Items
    <2>4. pc'[r] = "loadLines" /\ \A q \in Requests \ {r} : pc'[q] = pc[q]
        BY <2>1 DEF GoTo, IInv, Shape
    <2>5. CASE todo[r] # <<>>
        BY <2>1, <2>2, <2>3, <2>5, ReadingFlies
    <2>6. CASE todo[r] = <<>>
        <3>1. Fresh(r) /\ written[r] = {}
            BY <2>1, <2>6 DEF FInv, FlightOf, Fresh
        <3>2. FlightOf(r)'
            BY <2>1, <2>4, <2>6, <3>1 DEF FlightOf, InFlight
        <3>3. QED
            BY <2>1, <2>3, <2>4, <3>2, OneFlies
    <2>7. QED
        BY <2>5, <2>6
<1>3. QED
    BY <1>1, <1>2

LEMMA LoadLinesFlies ==
    ASSUME IInv, TInv, FInv, NEW r \in Requests, LoadLines(r)
    PROVE  FInv'
<1> DEFINE x == Target(r)
           data == [loaded[r][x].data EXCEPT !.lines = Seen(r, x).data.lines]
<1>1. CASE ~Accepts(Current(r), data)
    BY <1>1, RollBackFlies DEF LoadLines, Accepted, Refusals
<1>2. CASE Accepts(Current(r), data)
    <2> DEFINE calls == Current(r).kind = "Receive" /\ Calls(data) # <<>>
    <2>1. /\ pc[r] = "loadLines" /\ loaded' = [loaded EXCEPT ![r][x].data = data]
          /\ IF calls THEN todo' = [todo EXCEPT ![r] = Calls(data)] /\ GoTo(r, "load")
             ELSE UNCHANGED todo /\ GoTo(r, "write")
          /\ UNCHANGED <<row, op, written, mine>>
        BY <1>2 DEF LoadLines, Accepted, Keep, db
    <2>2. /\ x \in Documents /\ x \in Items /\ loaded[r][x] \in RowOf(x)
        BY <2>1, DocumentsDiffer DEF IInv, ReadyOf, SnapshotOf, Items
    <2>3. loaded[r][x] = [version |-> loaded[r][x].version, data |-> loaded[r][x].data]
        BY <2>2 DEF RowOf
    <2>4. /\ todo[r] # <<>> => ~calls /\ x # op[r].item
          /\ todo[r] = <<>> => x = op[r].item /\ Current(r) = op[r]
        BY <2>2, Commands, DocumentsDiffer DEF Target, IsNested
    <2>5. calls <=> (Current(r).kind = "Receive" /\ Calls(data) # <<>>)
        OBVIOUS
    <2> HIDE DEF x, data, calls
    <2>6. /\ loaded'[r][x].data = data
          /\ x # op[r].item => loaded'[r][op[r].item] = loaded[r][op[r].item]
          /\ \A q \in Requests \ {r} : loaded'[q] = loaded[q]
        BY <2>1, <2>2, <2>3, Commands DEF IInv, Shape, Items
    <2>7. CASE todo[r] # <<>>
        BY <2>1, <2>4, <2>6, <2>7, ReadingFlies
    <2>8. CASE todo[r] = <<>>
        <3>1. Fresh(r) /\ written[r] = {}
            BY <2>1, <2>8 DEF FInv, FlightOf, Fresh
        <3>2. /\ pc'[r] = (IF calls THEN "load" ELSE "write")
              /\ todo'[r] = (IF calls THEN Calls(data) ELSE <<>>)
              /\ \A q \in Requests \ {r} : pc'[q] = pc[q] /\ todo'[q] = todo[q]
            BY <2>1, <2>8 DEF GoTo, IInv, Shape
        <3>3. ASSUME op[r].kind = "Receive"
              PROVE  Carrying(r)'
            <4>1. CallsOf(r)' = Calls(data) /\ todo'[r] = Calls(data)
                BY <2>1, <2>4, <2>5, <2>6, <2>8, <3>2, <3>3 DEF CallsOf
            <4>2. data \in Data(x)
                <5>1. IInv' /\ TInv'
                    BY LoadLinesKeeps, LoadLinesFits
                <5>2. loaded'[r][x] \in RowOf(x)
                    BY <2>2, <5>1 DEF TInv, ReadsFit
                <5>3. QED
                    BY <2>6, <5>2 DEF RowOf
            <4>3. Len(Calls(data)) \in Nat
                <5>1. x \in Receipts
                    BY <2>4, <2>8, <3>3, Commands DEF IsOperation
                <5>2. data.lines \in Seq(Arrivals) /\ data.order \in Orders \cup {NoOrder}
                    BY <2>2, <4>2, <5>1, DataShape DEF Lines
                <5>3. Calls(data) \in Seq(CallSet)
                    BY <5>2, CallsForm
                <5>4. QED
                    BY <5>3, LenProperties
            <4>4. Done(r)' = 0
                BY <4>1, <4>3 DEF Done
            <4>5. \A i \in 1 .. Len(todo'[r]) : 0 + i = i
                BY <4>1, <4>3
            <4>6. QED
                BY <2>1, <3>1, <4>1, <4>3, <4>4, <4>5 DEF Carrying
        <3>4. Fresh(r)' => written'[r] = {}
            BY <2>1, <3>1
        <3>5. FlightOf(r)'
            BY <2>1, <3>2, <3>3, <3>4 DEF FlightOf, InFlight
        <3>6. QED
            BY <2>1, <2>6, <3>2, <3>5, OneFlies
    <2>9. QED
        BY <2>7, <2>8
<1>3. QED
    BY <1>1, <1>2

LEMMA CheckNumberFlies ==
    ASSUME IInv, TInv, FInv, NEW r \in Requests, CheckNumber(r)
    PROVE  FInv'
<1>1. CASE \E y \in Documents : SameNumber(Target(r), y) /\ Exists(y, row[y])
    BY <1>1, RollBackFlies DEF CheckNumber, Refusals
<1>2. CASE ~\E y \in Documents : SameNumber(Target(r), y) /\ Exists(y, row[y])
    <2>1. /\ pc[r] = "load" /\ Current(r).kind = "Create" /\ GoTo(r, "write")
          /\ UNCHANGED <<row, op, todo, loaded, written, mine>>
        BY <1>2 DEF CheckNumber, Keep, db
    <2>2. pc'[r] = "write" /\ \A q \in Requests \ {r} : pc'[q] = pc[q]
        BY <2>1 DEF GoTo, IInv, Shape
    <2>3. todo[r] = <<>> /\ op[r].kind = "Create"
        BY <2>1, Commands DEF IsNested
    <2>4. Fresh(r) /\ written[r] = {}
        BY <2>1, <2>3 DEF FInv, FlightOf, Fresh
    <2>5. FlightOf(r)'
        BY <2>1, <2>2, <2>3, <2>4 DEF FlightOf, InFlight
    <2>6. QED
        BY <2>1, <2>2, <2>5, OneFlies
<1>3. QED
    BY <1>1, <1>2

LEMMA PublishFlies ==
    ASSUME IInv, TInv, FInv, NEW r \in Requests, Publish(r) \/ LoseEvents(r)
    PROVE  FInv'
<1>1. /\ pc[r] = "publish" /\ pc'[r] \in {"published", "lost"}
      /\ \A q \in Requests \ {r} : pc'[q] = pc[q]
      /\ UNCHANGED <<row, op, todo, loaded, written, mine>>
    BY DEF Publish, LoseEvents, GoTo, db, IInv, Shape
<1>2. (InFlight(r)' => InFlight(r)) /\ ~Fresh(r)'
    BY <1>1 DEF InFlight, Fresh
<1>3. FlightOf(r)'
    BY <1>1, <1>2, FlightStays DEF FInv
<1>4. QED
    BY <1>1, <1>3, OneFlies

LEMMA CommitFlies ==
    ASSUME IInv, TInv, FInv, NEW r \in Requests, Commit(r)
    PROVE  FInv'
<1>1. /\ pc'[r] = "publish" /\ todo'[r] = <<>> /\ op' = op /\ todo' = todo
      /\ \A q \in Requests \ {r} : /\ pc'[q] = pc[q] /\ loaded'[q] = loaded[q]
                                   /\ written'[q] = written[q] /\ mine'[q] = mine[q]
                                   /\ written[q] \cap written[r] = {}
      /\ \A x \in Items \ written[r] : row'[x] = row[x]
    BY CommitDoes
<1>2. \A q \in Requests \ {r} : \A x \in written[q] : row'[x] = row[x]
    BY <1>1 DEF IInv, Shape
<1>3. FlightOf(r)'
    BY <1>1 DEF FlightOf, InFlight, Fresh
<1>4. QED
    BY <1>1, <1>2, <1>3, OneFlies

\* What a write does.
LEMMA WriteDoes ==
    ASSUME IInv, NEW r \in Requests, NEW w, Write(r, w)
    PROVE  /\ Target(r) \in Items /\ UNCHANGED <<row, op, loaded>>
           /\ written'[r] = written[r] \cup {Target(r)} /\ mine'[r][Target(r)] = w
           /\ \A y \in Items \ {Target(r)} : mine'[r][y] = mine[r][y]
           /\ todo[r] = <<>> => pc'[r] = "commit" /\ todo'[r] = <<>>
           /\ todo[r] # <<>> =>
                todo'[r] = Tail(todo[r]) /\ pc'[r] = (IF Len(todo[r]) = 1 THEN "write" ELSE "load")
           /\ \A q \in Requests \ {r} : /\ pc'[q] = pc[q] /\ todo'[q] = todo[q] /\ loaded'[q] = loaded[q]
                                        /\ written'[q] = written[q] /\ mine'[q] = mine[q]
<1> DEFINE x == Target(r)
<1>1. /\ written' = [written EXCEPT ![r] = @ \cup {x}] /\ mine' = [mine EXCEPT ![r][x] = w]
      /\ todo[r] = <<>> => pc' = [pc EXCEPT ![r] = "commit"] /\ todo' = todo
      /\ todo[r] # <<>> =>
           /\ todo' = [todo EXCEPT ![r] = Tail(@)]
           /\ pc' = [pc EXCEPT ![r] = IF Len(todo[r]) = 1 THEN "write" ELSE "load"]
      /\ UNCHANGED <<row, op, loaded>>
    BY DEF Write, GoTo, Outermost, db
<1>2. x \in Items
    BY Commands
<1> HIDE DEF x
<1>3. /\ written'[r] = written[r] \cup {x} /\ mine'[r][x] = w
      /\ \A y \in Items \ {x} : mine'[r][y] = mine[r][y]
    BY <1>1, <1>2 DEF IInv, Shape
<1>4. /\ todo[r] = <<>> => pc'[r] = "commit" /\ todo'[r] = <<>>
      /\ todo[r] # <<>> =>
           todo'[r] = Tail(todo[r]) /\ pc'[r] = (IF Len(todo[r]) = 1 THEN "write" ELSE "load")
    BY <1>1 DEF IInv, Shape
<1>5. \A q \in Requests \ {r} : /\ pc'[q] = pc[q] /\ todo'[q] = todo[q] /\ loaded'[q] = loaded[q]
                                /\ written'[q] = written[q] /\ mine'[q] = mine[q]
    BY <1>1 DEF IInv, Shape
<1>6. QED
    BY <1>1, <1>2, <1>3, <1>4, <1>5 DEF x

\* What is about to be written builds on what the transaction sees.
LEMMA ReadIsSeen ==
    ASSUME IInv, TInv, NEW r \in Requests, pc[r] = "write", Current(r).kind \notin {"Create", "Delete"},
           IF Inserts(r) THEN ~Duplicate(r) ELSE ~Stale(r)
    PROVE  /\ loaded[r][Target(r)].data = Seen(r, Target(r)).data
           /\ Accepts(Current(r), loaded[r][Target(r)].data)
<1> DEFINE x == Target(r)
           was == loaded[r][x]
           now == Seen(r, x)
<1>1. CASE x \in Positions
    <2>1. /\ Accepts(Current(r), was.data)
          /\ was.version = now.version => was.data = now.data
          /\ x \in written[r] => was.version > 0
        BY <1>1 DEF TInv, PostingFits
    <2>2. was.version = now.version
        <3>1. CASE Inserts(r)
            <4>1. was.version = 0 /\ ~(row[x].version > 0)
                BY <1>1, <3>1 DEF Inserts, Duplicate
            <4>2. x \notin written[r]
                BY <2>1, <4>1
            <4>3. now = row[x] /\ row[x].version \in Nat
                BY <1>1, <4>2 DEF Seen, TInv, StockFits, RowOf
            <4> HIDE DEF was, now
            <4>4. QED
                BY <4>1, <4>3
        <3>2. CASE ~Inserts(r)
            BY <3>2 DEF Stale
        <3>3. QED
            BY <3>1, <3>2
    <2>3. QED
        BY <2>1, <2>2
<1>2. CASE x \in Documents
    <2>1. was.version > 0 /\ Accepts(Current(r), was.data)
        BY <1>2 DEF IInv, ReadyOf, Carried, Target
    <2>2. now.version = was.version /\ Exists(x, now)
        BY <2>1 DEF Inserts, Stale
    <2>3. was.data = now.data
        BY <1>2, <2>1, <2>2 DEF IInv, SnapshotOf
    <2>4. QED
        BY <2>1, <2>3
<1>3. QED
    BY <1>1, <1>2, Commands DEF Items

\* A call of a receipt is written.
LEMMA CallFlies ==
    ASSUME IInv, TInv, FInv, NEW r \in Requests, WriteRow(r), todo[r] # <<>>
    PROVE  FInv'
<1> DEFINE x == Target(r)
           c == Current(r)
           d == loaded[r][x].data
           w == [version |-> loaded[r][x].version + 1, data |-> Result(c, d)]
           calls == CallsOf(r)
           after == Replay(Now, calls)
           n == Done(r)
<1>1. /\ pc[r] = "write" /\ Write(r, w)
      /\ IF Inserts(r) THEN ~Duplicate(r) ELSE ~Stale(r)
    BY DEF WriteRow, Writing
<1>2. /\ x \in Items /\ UNCHANGED <<row, op, loaded>>
      /\ written'[r] = written[r] \cup {x} /\ mine'[r][x] = w
      /\ \A y \in Items \ {x} : mine'[r][y] = mine[r][y]
      /\ todo'[r] = Tail(todo[r]) /\ pc'[r] = (IF Len(todo[r]) = 1 THEN "write" ELSE "load")
      /\ \A q \in Requests \ {r} : /\ pc'[q] = pc[q] /\ todo'[q] = todo[q] /\ loaded'[q] = loaded[q]
                                   /\ written'[q] = written[q] /\ mine'[q] = mine[q]
    <2> HIDE DEF w
    <2>1. QED
        BY <1>1, WriteDoes
<1>3. /\ c = Head(todo[r]) /\ IsNested(c) /\ op[r].kind = "Receive" /\ c.item = x
      /\ Tail(todo[r]) = <<>> <=> Len(todo[r]) = 1
    BY Commands DEF Target
<1>4. d = Seen(r, x).data /\ Accepts(c, d) /\ w.data = Result(c, d)
    BY <1>1, <1>3, ReadIsSeen DEF IsNested
<1>5. InFlight(r) /\ Carrying(r)
    BY <1>3 DEF InFlight, FInv, FlightOf
<1>6. /\ Len(calls) \in Nat /\ \A i \in 1 .. Len(calls) : calls[i].item \in Items
    BY <1>3, ItsCalls
<1>7. /\ Len(todo[r]) \in Nat \ {0} /\ c = todo[r][1]
      /\ Len(Tail(todo[r])) = Len(todo[r]) - 1
      /\ \A i \in 1 .. Len(Tail(todo[r])) : Tail(todo[r])[i] = todo[r][i + 1]
    <2>1. PICK S : todo[r] \in Seq(S)
        BY DEF IInv, Shape
    <2>2. QED
        BY <1>3, <2>1, HeadTailProperties, LenProperties, EmptySeq
<1>8. /\ n \in 0 .. Len(calls) /\ n = Len(calls) - Len(todo[r])
      /\ \A i \in 1 .. Len(todo[r]) : todo[r][i] = calls[n + i]
      /\ \A i \in 1 .. n : calls[i].item \in written[r] /\ Accepts(calls[i], after[i - 1][calls[i].item])
      /\ \A y \in written[r] : (\E i \in 1 .. n : y = calls[i].item) /\ mine[r][y].data = after[n][y]
    BY <1>1, <1>5 DEF Carrying, Done
<1>9. /\ IsFile(Now) /\ \A y \in Items : Now[y] = row[y].data
    BY NowIsFile
<1>10. /\ \A y \in Items : (\A i \in 1 .. n : calls[i].item # y) => after[n][y] = Now[y]
       /\ \A k \in 1 .. Len(calls), y \in Items :
            after[k][y] = IF y = calls[k].item THEN Result(calls[k], after[k - 1][y]) ELSE after[k - 1][y]
    <2> HIDE DEF calls, n
    <2>1. ASSUME NEW b, IsFile(b)
          PROVE  /\ \A k \in 0 .. Len(calls) :
                      \A y \in Items : (\A i \in 1 .. k : calls[i].item # y) => Replay(b, calls)[k][y] = b[y]
                 /\ \A k \in 1 .. Len(calls), y \in Items :
                      Replay(b, calls)[k][y] = IF y = calls[k].item THEN Result(calls[k], Replay(b, calls)[k - 1][y])
                                               ELSE Replay(b, calls)[k - 1][y]
        BY <1>6, <2>1, ReplayItem
    <2>2. QED
        BY <1>8, <1>9, <2>1
<1>11. CallsOf(r)' = calls /\ Now' = Now /\ op'[r] = op[r]
    BY <1>2 DEF CallsOf, Now
<1>12. Done(r)' = n + 1
    <2>1. Done(r)' = Len(calls) - Len(Tail(todo[r]))
        BY <1>2, <1>11 DEF Done
    <2>2. Len(Tail(todo[r])) = Len(todo[r]) - 1
        BY <1>7
    <2>3. n = Len(calls) - Len(todo[r])
        BY <1>8
    <2>4. Len(calls) \in Nat /\ Len(todo[r]) \in Nat
        BY <1>6, <1>7
    <2>5. \A l, t \in Nat : l - (t - 1) = (l - t) + 1
        OBVIOUS
    <2>6. Len(calls) - (Len(todo[r]) - 1) = (Len(calls) - Len(todo[r])) + 1
        BY <2>4, <2>5
    <2> HIDE DEF calls, n
    <2>7. QED
        BY <2>1, <2>2, <2>3, <2>6, Zenon
<1>13. Replay(Now, CallsOf(r))' = after
    BY <1>11
<1>14. pc'[r] \in {"write", "load"}
    BY <1>2
<1>15. todo'[r] = <<>> => pc'[r] = "write"
    BY <1>2, <1>3
<1> HIDE DEF calls, after, n, x, c, d, w
<1>16. c = calls[n + 1] /\ n + 1 \in 1 .. Len(calls)
    <2>1. 1 \in 1 .. Len(todo[r]) /\ n + 1 \in 1 .. Len(calls)
        BY <1>6, <1>7, <1>8
    <2>2. QED
        BY <1>7, <1>8, <2>1
<1>17. d = after[n][x]
    <2>1. CASE x \in written[r]
        BY <1>4, <1>8, <2>1 DEF Seen
    <2>2. CASE x \notin written[r]
        <3>1. \A i \in 1 .. n : calls[i].item # x
            BY <1>8, <2>2
        <3>2. after[n][x] = row[x].data
            BY <1>2, <1>9, <1>10, <3>1
        <3>3. QED
            BY <1>4, <2>2, <3>2 DEF Seen
    <2>3. QED
        BY <2>1, <2>2
<1>18. (n + 1) - 1 = n
    BY <1>8
<1>19. \A i \in 1 .. Len(todo'[r]) : todo'[r][i] = calls[(n + 1) + i]
    <2>1. SUFFICES ASSUME NEW i \in 1 .. Len(todo'[r]) PROVE todo'[r][i] = calls[(n + 1) + i]
        OBVIOUS
    <2>2. i + 1 \in 1 .. Len(todo[r]) /\ todo'[r][i] = todo[r][i + 1] /\ n + (i + 1) = (n + 1) + i
        BY <1>2, <1>7, <1>8
    <2>3. todo[r][i + 1] = calls[n + (i + 1)]
        BY <1>8, <2>2
    <2>4. QED
        BY <2>2, <2>3
<1>20. ASSUME NEW i \in 1 .. n + 1
       PROVE  calls[i].item \in written'[r] /\ Accepts(calls[i], after[i - 1][calls[i].item])
    <2>1. CASE i \in 1 .. n
        BY <1>2, <1>8, <2>1
    <2>2. CASE i = n + 1
        BY <1>2, <1>3, <1>4, <1>16, <1>17, <1>18, <2>2
    <2>3. i \in 1 .. n \/ i = n + 1
        <3>1. n \in Nat
            BY <1>8
        <3>2. QED
            BY <3>1
    <2>4. QED
        BY <2>1, <2>2, <2>3
<1>21. ASSUME NEW y \in written'[r]
       PROVE  (\E i \in 1 .. n + 1 : y = calls[i].item) /\ mine'[r][y].data = after[n + 1][y]
    <2>1. CASE y = x
        <3>1. after[n + 1][x] = Result(c, after[n][x])
            BY <1>2, <1>3, <1>10, <1>16, <1>18
        <3>2. n + 1 \in 1 .. n + 1
            BY <1>8
        <3>3. QED
            BY <1>2, <1>3, <1>4, <1>16, <1>17, <2>1, <3>1, <3>2
    <2>2. CASE y # x
        <3>1. y \in written[r] /\ y \in Items
            BY <1>2, <2>2 DEF IInv, Shape
        <3>2. after[n + 1][y] = after[n][y]
            BY <1>3, <1>10, <1>16, <1>18, <2>2, <3>1
        <3>3. PICK i \in 1 .. n : y = calls[i].item
            BY <1>8, <3>1
        <3>4. i \in 1 .. n + 1
            BY <1>8
        <3>5. QED
            BY <1>2, <1>8, <2>2, <3>1, <3>2, <3>3, <3>4
    <2>3. QED
        BY <2>1, <2>2
<1>22. Carrying(r)'
    <2>1. n + 1 \in 0 .. Len(calls)
        BY <1>6, <1>16
    <2>2. QED
        BY <1>11, <1>12, <1>13, <1>19, <1>20, <1>21, <2>1 DEF Carrying
<1>23. ~Fresh(r)'
    BY <1>3, <1>11, <1>15 DEF Fresh
<1>24. FlightOf(r)'
    BY <1>14, <1>22, <1>23 DEF FlightOf
<1>25. QED
    BY <1>2, <1>24, OneFlies

\* A request writes its own document.
LEMMA OwnFlies ==
    ASSUME IInv, TInv, FInv, NEW r \in Requests, WriteRow(r), todo[r] = <<>>
    PROVE  FInv'
<1> DEFINE x == op[r].item
           d == loaded[r][x].data
           w == [version |-> loaded[r][x].version + 1, data |-> Result(op[r], d)]
<1>1. Current(r) = op[r] /\ Target(r) = x /\ x \in Documents /\ op[r] \in Operations
    BY Commands DEF Target
<1>2. /\ pc[r] = "write" /\ Write(r, w)
      /\ IF Inserts(r) THEN ~Duplicate(r) ELSE ~Stale(r)
    BY <1>1 DEF WriteRow, Writing
<1>3. /\ UNCHANGED <<row, op, loaded>>
      /\ written'[r] = written[r] \cup {x} /\ mine'[r][x] = w
      /\ \A y \in Items \ {x} : mine'[r][y] = mine[r][y]
      /\ pc'[r] = "commit" /\ todo'[r] = <<>>
      /\ \A q \in Requests \ {r} : /\ pc'[q] = pc[q] /\ todo'[q] = todo[q] /\ loaded'[q] = loaded[q]
                                   /\ written'[q] = written[q] /\ mine'[q] = mine[q]
    <2> HIDE DEF w, x
    <2>1. QED
        BY <1>1, <1>2, WriteDoes
<1>4. w.data = Result(op[r], d)
    OBVIOUS
<1>5. /\ op[r].kind # "Receive" => written[r] = {}
      /\ op[r].kind = "Receive" => Carrying(r) /\ Carried(r, op[r])
    BY <1>2 DEF FInv, FlightOf, Fresh, InFlight, IInv, ReadyOf
<1>6. x \notin written[r]
    <2>1. CASE op[r].kind # "Receive"
        BY <1>5, <2>1
    <2>2. CASE op[r].kind = "Receive"
        <3>1. /\ \A y \in written[r] : \E i \in 1 .. Done(r) : y = CallsOf(r)[i].item
              /\ Done(r) \in 0 .. Len(CallsOf(r))
            BY <1>2, <1>5, <2>2 DEF Carrying
        <3>2. /\ Len(CallsOf(r)) \in Nat
              /\ \A i \in 1 .. Len(CallsOf(r)) : CallsOf(r)[i].item # x
            BY <2>2, ItsCalls
        <3>3. \A i \in 1 .. Done(r) : i \in 1 .. Len(CallsOf(r))
            BY <3>1, <3>2
        <3>4. QED
            BY <3>1, <3>2, <3>3
    <2>3. QED
        BY <2>1, <2>2
<1>7. Seen(r, x) = row[x]
    BY <1>6 DEF Seen
<1>8. op[r].kind # "Delete"
    BY <1>1, <1>2 DEF IInv, ReadyOf
<1>9. Result(op[r], d) = Result(op[r], row[x].data)
      /\ (op[r].kind = "Create" => row[x].version = 0)
      /\ (op[r].kind # "Create" => Accepts(op[r], row[x].data) /\ d = row[x].data)
    <2>1. CASE op[r].kind = "Create"
        <3>1. row[x].version = 0
            BY <1>2, <2>1 DEF IInv, ReadyOf
        <3>2. QED
            BY <2>1, <3>1 DEF Result
    <2>2. CASE op[r].kind # "Create"
        <3>1. d = row[x].data /\ Accepts(op[r], d)
            BY <1>1, <1>2, <1>7, <1>8, <2>2, ReadIsSeen
        <3>2. QED
            BY <2>2, <3>1
    <2>3. QED
        BY <2>1, <2>2
<1> HIDE DEF w, d
<1>10. Concluded(r)'
    <2>1. op'[r].item = x /\ row'[x] = row[x] /\ mine'[r][x].data = Result(op[r], row[x].data) /\ x \in written'[r]
        BY <1>3, <1>4, <1>9
    <2>2. op[r].kind # "Receive" => written'[r] \subseteq {x}
        BY <1>3, <1>5
    <2>3. op[r].kind = "Receive" => loaded'[r][x].data = row[x].data
        BY <1>3, <1>9 DEF d
    <2> HIDE DEF x
    <2>4. QED
        BY <1>3, <1>8, <1>9, <2>1, <2>2, <2>3 DEF Concluded, x
<1>11. ASSUME op[r].kind = "Receive"
       PROVE  Carrying(r)'
    <2>1. CallsOf(r)' = CallsOf(r) /\ Now' = Now /\ todo'[r] = todo[r] /\ op' = op
        BY <1>3 DEF CallsOf, Now
    <2>2. Done(r)' = Done(r) /\ Replay(Now, CallsOf(r))' = Replay(Now, CallsOf(r))
        BY <2>1 DEF Done
    <2>3. \A y \in written'[r] : y = x \/ (y \in written[r] /\ mine'[r][y] = mine[r][y])
        BY <1>3 DEF IInv, Shape
    <2>4. /\ Done(r) \in 0 .. Len(CallsOf(r))
          /\ \A i \in 1 .. Len(todo[r]) : todo[r][i] = CallsOf(r)[Done(r) + i]
          /\ \A i \in 1 .. Done(r) :
               /\ CallsOf(r)[i].item \in written[r]
               /\ Accepts(CallsOf(r)[i], Replay(Now, CallsOf(r))[i - 1][CallsOf(r)[i].item])
          /\ \A y \in written[r] :
               /\ \E i \in 1 .. Done(r) : y = CallsOf(r)[i].item
               /\ mine[r][y].data = Replay(Now, CallsOf(r))[Done(r)][y]
        BY <1>2, <1>5, <1>11 DEF Carrying
    <2>5. \A y \in written'[r] :
            \/ y = x
            \/ /\ \E i \in 1 .. Done(r) : y = CallsOf(r)[i].item
               /\ mine'[r][y].data = Replay(Now, CallsOf(r))[Done(r)][y]
        BY <2>3, <2>4
    <2>6. x = op'[r].item /\ written[r] \subseteq written'[r] /\ pc'[r] = "commit"
        BY <1>3
    <2> HIDE DEF x
    <2>7. QED
        BY <2>1, <2>2, <2>4, <2>5, <2>6 DEF Carrying
<1>12. FlightOf(r)'
    BY <1>3, <1>10, <1>11 DEF FlightOf, InFlight, Fresh
<1>13. QED
    BY <1>3, <1>12, OneFlies

LEMMA DeleteDraftFlies ==
    ASSUME IInv, TInv, FInv, NEW r \in Requests, DeleteDraft(r)
    PROVE  FInv'
<1> DEFINE x == op[r].item
           w == [row[x] EXCEPT !.data = Result(op[r], @)]
<1>1. Current(r).kind = "Delete" /\ pc[r] \in {"write", "load"}
    BY DEF DeleteDraft, Writing
<1>2. Current(r) = op[r] /\ Target(r) = x /\ x \in Documents /\ todo[r] = <<>> /\ op[r].kind = "Delete"
    BY <1>1, Commands DEF Target, IsNested
<1>3. CASE ~Deletable(x, row[x])
    BY <1>2, <1>3, RollBackFlies DEF DeleteDraft, Refusals
<1>4. CASE Deletable(x, row[x])
    <2>1. Write(r, w)
        BY <1>2, <1>4 DEF DeleteDraft
    <2>2. w.data = Result(op[r], row[x].data)
        <3>1. row[x] \in RowOf(x)
            BY <1>2 DEF IInv, RowsFit
        <3>2. QED
            BY <3>1 DEF RowOf
    <2>3. written[r] = {} /\ row[x].data.status = "DRAFT"
        BY <1>1, <1>2, <1>4 DEF FInv, FlightOf, Fresh, Deletable
    <2> HIDE DEF w, x
    <2>4. /\ UNCHANGED <<row, op, loaded>>
          /\ written'[r] = written[r] \cup {x} /\ mine'[r][x] = w
          /\ pc'[r] = "commit" /\ todo'[r] = <<>>
          /\ \A q \in Requests \ {r} : /\ pc'[q] = pc[q] /\ todo'[q] = todo[q] /\ loaded'[q] = loaded[q]
                                       /\ written'[q] = written[q] /\ mine'[q] = mine[q]
        BY <1>2, <2>1, WriteDoes
    <2>5. Concluded(r)'
        BY <1>2, <2>2, <2>3, <2>4 DEF Concluded, x
    <2>6. FlightOf(r)'
        BY <1>2, <2>4, <2>5 DEF FlightOf, InFlight, Fresh
    <2>7. QED
        BY <2>4, <2>6, OneFlies
<1>5. QED
    BY <1>3, <1>4

LEMMA StepFlies == IInv /\ TInv /\ FInv /\ [Next]_vars => FInv'
<1> SUFFICES ASSUME IInv, TInv, FInv, [Next]_vars PROVE FInv'
    OBVIOUS
<1>1. CASE UNCHANGED vars
    <2>1. UNCHANGED <<row, op, pc, todo, loaded, written, mine>>
        BY <1>1 DEF vars
    <2>2. ASSUME NEW q \in Requests
          PROVE  FlightOf(q)'
        <3>1. (InFlight(q)' => InFlight(q)) /\ (Fresh(q)' => Fresh(q)) /\ FlightOf(q)
            BY <2>1 DEF InFlight, Fresh, FInv
        <3>2. QED
            BY <2>1, <3>1, FlightStays
    <2>3. QED
        BY <2>2 DEF FInv
<1>2. ASSUME NEW r \in Requests,
             Step(r) \/ InputRefused(r) \/ Fail(r) \/ LoseEvents(r) \/ DeadlockVictim(r)
      PROVE  FInv'
    <2>1. CASE LoadPosition(r)
        BY <2>1, LoadPositionFlies
    <2>2. CASE LoadHeader(r)
        BY <2>2, LoadHeaderFlies
    <2>3. CASE LoadLines(r)
        BY <2>3, LoadLinesFlies
    <2>4. CASE CheckNumber(r)
        BY <2>4, CheckNumberFlies
    <2>5. CASE WriteRow(r)
        BY <2>5, CallFlies, OwnFlies
    <2>6. CASE WriteStale(r) \/ WriteDuplicate(r)
        BY <2>6, RollBackFlies DEF WriteStale, WriteDuplicate, Refusals
    <2>7. CASE DeleteDraft(r)
        BY <2>7, DeleteDraftFlies
    <2>8. CASE Commit(r)
        BY <2>8, CommitFlies
    <2>9. CASE Publish(r) \/ LoseEvents(r)
        BY <2>9, PublishFlies
    <2>10. CASE InputRefused(r) \/ Fail(r) \/ DeadlockVictim(r)
        BY <2>10, RollBackFlies DEF InputRefused, Fail, DeadlockVictim, Refusals
    <2>11. QED
        BY <1>2, <2>1, <2>2, <2>3, <2>4, <2>5, <2>6, <2>7, <2>8, <2>9, <2>10 DEF Step
<1>3. QED
    BY <1>1, <1>2 DEF Next

\* An open Receive has always carried out its calls on the rows as they are committed
\* now, whatever else committed since it read them.
THEOREM FlightInvariant == Spec => [](IInv /\ TInv /\ FInv)
BY InitIInv, InitTInv, InitFInv, StepKeeps, StepFits, StepFlies, PTL DEF Spec

-----------------------------------------------------------------------------
(* Every commit is one entry in the book *)

\* The book's rules are the ones of this module.
LEMMA SameRules ==
    /\ \A c, d : (Book!Accepts(c, d) <=> Accepts(c, d)) /\ Book!Result(c, d) = Result(c, d)
    /\ \A b, c : Book!Apply(b, c) = Apply(b, c)
    /\ \A b, calls : Book!Replay(b, calls) = Replay(b, calls)
    /\ \A d : Book!Calls(d) = Calls(d)
<1>1. \A c, d : Book!Accepts(c, d) <=> Accepts(c, d)
    BY DEF Book!Accepts, Accepts, Book!Room, Room, Book!FromStatus, FromStatus, Book!HasLines, HasLines,
           Book!HasReceipts, HasReceipts, Book!LineAccepts, LineAccepts
<1>2. \A c, d : Book!Result(c, d) = Result(c, d)
    BY DEF Book!Result, Result, Book!Edited, Edited, Book!Booked, Booked, Book!DeriveStatus, DeriveStatus,
           Book!FullyReceived, FullyReceived, Book!HasReceipts, HasReceipts, Book!NoLines, NoLines
<1>3. \A b, c : Book!Apply(b, c) = Apply(b, c)
    BY <1>2 DEF Book!Apply, Apply
<1>4. \A b, calls : Book!Replay(b, calls) = Replay(b, calls)
    BY DEF Book!Replay, Replay, Book!Apply, Apply, Book!Result, Result, Book!Edited, Edited, Book!Booked, Booked,
           Book!DeriveStatus, DeriveStatus, Book!FullyReceived, FullyReceived, Book!HasReceipts, HasReceipts,
           Book!NoLines, NoLines
<1>5. \A d : Book!Calls(d) = Calls(d)
    <2>1. \A f, S : Book!SumFunctionOnSet(f, S) = SumFunctionOnSet(f, S)
        BY DEF Book!SumFunctionOnSet, SumFunctionOnSet, Book!FoldFunctionOnSet, FoldFunctionOnSet,
               Book!MapThenFoldSet, MapThenFoldSet
    <2>2. \A lines : Book!ProductsOf(lines) = ProductsOf(lines)
        BY DEF Book!ProductsOf, ProductsOf, Book!Cardinality, Cardinality
    <2>3. \A lines, p : Book!Units(lines, p) = Units(lines, p)
        BY <2>1 DEF Book!Units, Units
    <2>4. \A d : Book!Records(d) = Records(d)
        BY <2>2, <2>3 DEF Book!Records, Records, Book!Record, Record, Book!Wrap, Wrap
    <2>5. QED
        BY <2>4 DEF Book!Calls, Calls, Book!Post, Post
<1>6. QED
    BY <1>1, <1>2, <1>3, <1>4, <1>5

LEMMA FilesAgree ==
    ASSUME NEW a, IsFile(a), NEW b, IsFile(b), \A x \in Items : a[x] = b[x]
    PROVE  a = b
BY DEF IsFile

LEMMA ApplyDoes ==
    ASSUME NEW b, IsFile(b), NEW c, c.item \in Items
    PROVE  /\ IsFile(Apply(b, c))
           /\ \A x \in Items : Apply(b, c)[x] = IF x = c.item THEN Result(c, b[x]) ELSE b[x]
<1>1. Apply(b, c) = [b EXCEPT ![c.item] = Result(c, @)] /\ b = [x \in Items |-> b[x]]
    BY DEF Apply, IsFile
<1>2. Apply(b, c) = [x \in Items |-> Apply(b, c)[x]]
      /\ \A x \in Items : Apply(b, c)[x] = IF x = c.item THEN Result(c, b[x]) ELSE b[x]
    BY <1>1
<1>3. QED
    BY <1>2 DEF IsFile

\* A commit leaves what the operation makes of the rows before it.
LEMMA CommitApplies ==
    ASSUME IInv, TInv, FInv, NEW r \in Requests, Commit(r)
    PROVE  /\ Concluded(r)
           /\ op[r].kind # "Receive" => Now' = Apply(Now, op[r])
           /\ op[r].kind = "Receive" =>
                LET calls == Calls(Now[op[r].item])
                IN  AllAccepted(Now, calls) /\ Now' = Apply(Replay(Now, calls)[Len(calls)], op[r])
<1> DEFINE g == op[r].item
<1>1. /\ pc[r] = "commit" /\ todo[r] = <<>>
      /\ \A x \in Items \ written[r] : row'[x] = row[x]
      /\ \A x \in written[r] : x \in Items /\ row'[x] = mine[r][x]
    BY CommitDoes
<1>2. Concluded(r) /\ g \in Items
    BY <1>1, Commands DEF FInv, FlightOf, Items
<1>3. /\ g \in written[r] /\ mine[r][g].data = Result(op[r], row[g].data)
      /\ op[r].kind = "Receive" => loaded[r][g].data = row[g].data
      /\ op[r].kind # "Receive" => written[r] \subseteq {g}
    BY <1>2 DEF Concluded
<1>4. /\ IsFile(Now) /\ IsFile(Now')
      /\ \A x \in Items : Now[x] = row[x].data /\ Now'[x] = row'[x].data
    BY DEF IsFile, Now
<1> HIDE DEF g
<1>5. Now'[g] = Result(op[r], Now[g]) /\ \A x \in Items \ written[r] : Now'[x] = Now[x]
    BY <1>1, <1>2, <1>3, <1>4
<1>6. ASSUME op[r].kind # "Receive"
      PROVE  Now' = Apply(Now, op[r])
    <2>1. IsFile(Apply(Now, op[r]))
          /\ \A x \in Items : Apply(Now, op[r])[x] = IF x = g THEN Result(op[r], Now[x]) ELSE Now[x]
        <3>1. op[r].item \in Items /\ IsFile(Now)
            BY <1>2, <1>4 DEF g
        <3>2. ASSUME NEW b, IsFile(b)
              PROVE  IsFile(Apply(b, op[r]))
                     /\ \A x \in Items : Apply(b, op[r])[x] = IF x = g THEN Result(op[r], b[x]) ELSE b[x]
            BY <3>1, <3>2, ApplyDoes DEF g
        <3>3. QED
            BY <3>1, <3>2
    <2>2. \A x \in Items : Now'[x] = Apply(Now, op[r])[x]
        BY <1>3, <1>5, <1>6, <2>1
    <2>3. QED
        BY <1>4, <2>1, <2>2, FilesAgree
<1>7. ASSUME op[r].kind = "Receive"
      PROVE  LET calls == Calls(Now[g])
             IN  AllAccepted(Now, calls) /\ Now' = Apply(Replay(Now, calls)[Len(calls)], op[r])
    <2> DEFINE calls == CallsOf(r)
               after == Replay(Now, calls)
               n == Len(calls)
    <2>1. Calls(Now[g]) = calls
        BY <1>2, <1>3, <1>4, <1>7 DEF CallsOf, g
    <2>2. Carrying(r)
        BY <1>1, <1>7 DEF FInv, FlightOf, InFlight
    <2>3. n \in Nat /\ \A i \in 1 .. n : calls[i].item \in Items /\ calls[i].item # g
        BY <1>7, ItsCalls DEF g
    <2>4. Done(r) = n
        <3>1. Done(r) = n - 0
            BY <1>1, EmptySeq DEF Done
        <3> HIDE DEF n
        <3>2. QED
            BY <2>3, <3>1
    <2>5. /\ \A i \in 1 .. n : calls[i].item \in written[r] /\ Accepts(calls[i], after[i - 1][calls[i].item])
          /\ \A x \in written[r] : x = g \/ mine[r][x].data = after[n][x]
        BY <2>2, <2>4 DEF Carrying, g
    <2>6. /\ IsFile(after[n])
          /\ \A x \in Items : (\A i \in 1 .. n : calls[i].item # x) => after[n][x] = Now[x]
        <3>1. ASSUME NEW b, IsFile(b)
              PROVE  \A k \in 0 .. n :
                       /\ IsFile(Replay(b, calls)[k])
                       /\ \A x \in Items : (\A i \in 1 .. k : calls[i].item # x) => Replay(b, calls)[k][x] = b[x]
            <4> HIDE DEF calls
            <4>1. QED
                BY <2>3, <3>1, ReplayItem
        <3>2. n \in 0 .. n
            BY <2>3
        <3>3. QED
            BY <1>4, <3>1, <3>2
    <2>7. AllAccepted(Now, calls)
        BY <2>5 DEF AllAccepted
    <2> HIDE DEF calls, after, n
    <2>8. IsFile(Apply(after[n], op[r]))
          /\ \A x \in Items : Apply(after[n], op[r])[x] = IF x = g THEN Result(op[r], after[n][x]) ELSE after[n][x]
        <3>1. op[r].item \in Items
            BY <1>2 DEF g
        <3>2. ASSUME NEW b, IsFile(b)
              PROVE  IsFile(Apply(b, op[r]))
                     /\ \A x \in Items : Apply(b, op[r])[x] = IF x = g THEN Result(op[r], b[x]) ELSE b[x]
            BY <3>1, <3>2, ApplyDoes DEF g
        <3>3. QED
            BY <2>6, <3>2
    <2>9. ASSUME NEW x \in Items
          PROVE  Now'[x] = Apply(after[n], op[r])[x]
        <3>1. CASE x = g
            BY <1>2, <1>5, <2>3, <2>6, <2>8, <3>1
        <3>2. CASE x # g /\ x \in written[r]
            BY <1>1, <1>4, <2>5, <2>8, <3>2
        <3>3. CASE x # g /\ x \notin written[r]
            BY <1>5, <2>5, <2>6, <2>8, <3>3
        <3>4. QED
            BY <3>1, <3>2, <3>3
    <2>10. Now' = Apply(after[n], op[r])
        BY <1>4, <2>8, <2>9, FilesAgree
    <2>11. QED
        BY <2>1, <2>7, <2>10 DEF after, n
<1>8. QED
    BY <1>2, <1>6, <1>7 DEF g

LEMMA CommitIsEntered ==
    ASSUME IInv, TInv, FInv, NEW r \in Requests, Commit(r)
    PROVE  Book!BookNext
<1>0. PICK o \in Operations : o = op[r]
    BY Commands
<1> DEFINE x == o.item
<1>1. x \in Documents /\ x \in Items
    BY <1>0, Commands DEF Items
<1>2. /\ Concluded(r)
      /\ o.kind # "Receive" => Now' = Apply(Now, o)
      /\ o.kind = "Receive" =>
           LET calls == Calls(Now[x])
           IN  AllAccepted(Now, calls) /\ Now' = Apply(Replay(Now, calls)[Len(calls)], o)
    BY <1>0, CommitApplies
<1>3. \A y \in Items : Now[y] = row[y].data
    BY NowIsFile
<1>4. /\ o.kind = "Create" => row[x].version = 0
      /\ o.kind = "Delete" => Now[x].status = "DRAFT"
      /\ o.kind \notin {"Create", "Delete"} => Accepts(o, Now[x])
      /\ x \in written[r]
    BY <1>0, <1>1, <1>2, <1>3 DEF Concluded
<1>5. CASE o.kind = "Create"
    <2>1. Now[x].status = "NONE"
        BY <1>1, <1>3, <1>4, <1>5 DEF IInv, RowsFit
    <2>2. ASSUME NEW y \in Documents, SameNumber(x, y)
          PROVE  Now[y].status \in Absent
        <3>1. DraftFits(r, x, mine[r][x])
            BY <1>1, <1>4 DEF IInv, DraftOf
        <3>2. ~Exists(y, row[y])
            BY <1>4, <1>5, <2>2, <3>1 DEF DraftFits
        <3>3. row[y].version \in Nat /\ (row[y].version = 0 => row[y].data.status = "NONE")
            BY DEF IInv, RowsFit, RowOf
        <3>4. y \in Items
            BY DEF Items
        <3>5. QED
            BY <1>3, <3>2, <3>3, <3>4 DEF Exists, Absent
    <2>3. Book!NumberIsFree(Now, x)
        BY <2>2 DEF Book!NumberIsFree, Book!SameNumber, SameNumber, Book!Documents, Documents, Book!Absent, Absent
    <2>4. Book!Create(o)
        BY <1>2, <1>5, <2>1, <2>3, SameRules DEF Book!Create, Now
    <2>5. QED
        BY <1>1, <2>4 DEF Book!BookNext
<1>6. CASE o.kind = "Delete"
    <2>1. Book!Delete(o)
        BY <1>2, <1>4, <1>6, SameRules DEF Book!Delete, Now
    <2>2. QED
        BY <1>1, <2>1 DEF Book!BookNext
<1>7. CASE o.kind = "Receive"
    <2>1. AllAccepted(Now, Calls(Now[x])) <=> Book!AllAccepted(Now, Calls(Now[x]))
        BY SameRules DEF AllAccepted, Book!AllAccepted
    <2>2. Book!Receive(o)
        BY <1>2, <1>4, <1>7, <2>1, SameRules DEF Book!Receive, Now
    <2>3. QED
        BY <1>1, <2>2 DEF Book!BookNext
<1>8. CASE o.kind \notin {"Create", "Delete", "Receive"}
    <2>1. Book!Change(o)
        BY <1>2, <1>4, <1>8, SameRules DEF Book!Change, Now
    <2>2. QED
        BY <1>1, <2>1 DEF Book!BookNext
<1>9. QED
    BY <1>5, <1>6, <1>7, <1>8

\* Inbound is serializable: every request, with the calls of Receive, happens whole at
\* its commit, or not at all, however the statements of the transactions interleave.
THEOREM RequestsHappenWhole == Spec => ImplementsBook
<1>1. Init => Book!BookInit
    <2> SUFFICES ASSUME Init PROVE Book!BookInit
        OBVIOUS
    <2>1. PICK w \in Openings :
            row = [x \in Items |-> [version |-> IF w[x] = NoData(x) THEN 0 ELSE 1, data |-> w[x]]]
        BY DEF Init
    <2>2. w = [x \in Items |-> w[x]]
        BY OpeningsAssumption DEF WellFormed
    <2>3. [x \in Items |-> row[x].data] = w
        BY <2>1, <2>2
    <2>4. QED
        BY <2>3 DEF Book!BookInit, Items, Documents, Book!Items, Book!Documents
<1>2. IInv /\ TInv /\ FInv /\ [Next]_vars => [Book!BookNext]_([x \in Items |-> row[x].data])
    <2> SUFFICES ASSUME IInv, TInv, FInv, [Next]_vars
                 PROVE  Book!BookNext \/ UNCHANGED [x \in Items |-> row[x].data]
        OBVIOUS
    <2>1. CASE UNCHANGED vars
        BY <2>1 DEF vars
    <2>2. ASSUME NEW r \in Requests,
                 Step(r) \/ InputRefused(r) \/ Fail(r) \/ LoseEvents(r) \/ DeadlockVictim(r)
          PROVE  Book!BookNext \/ UNCHANGED [x \in Items |-> row[x].data]
        <3>1. CASE Commit(r)
            BY <3>1, CommitIsEntered
        <3>2. CASE ~Commit(r)
            <4>1. row' = row
                BY <2>2, <3>2, OnlyCommitsWrite
            <4>2. QED
                BY <4>1
        <3>3. QED
            BY <3>1, <3>2
    <2>3. QED
        BY <2>1, <2>2 DEF Next
<1>3. QED
    BY <1>1, <1>2, FlightInvariant, PTL DEF Spec, ImplementsBook, Book!BookSpec

-----------------------------------------------------------------------------
(* What receiving a receipt brings to its stock and to its order *)

ArrivingAt(lines, p, k) == {i \in DOMAIN lines : lines[i].position = p /\ i <= k}

LEMMA UnitsAtNat ==
    ASSUME NEW lines \in Seq(Arrivals), NEW p
    PROVE  UnitsAt(lines, p) \in Nat
<1> DEFINE f == [i \in DOMAIN lines |-> lines[i].units]
           S == {i \in DOMAIN lines : lines[i].position = p}
<1>1. Len(lines) \in Nat /\ DOMAIN lines = 1 .. Len(lines) /\ \A i \in DOMAIN lines : lines[i] \in Arrivals
    OBVIOUS
<1>2. S \in SUBSET (1 .. Len(lines)) /\ \A i \in S : f[i] \in Nat
    BY <1>1, RulesAssumption DEF Arrivals
<1>3. UnitsAt(lines, p) = SumFunctionOnSet(f, S)
    BY DEF UnitsAt
<1> HIDE DEF f, S
<1>4. IsFiniteSet(S)
    BY <1>1, <1>2, RankIn
<1>5. QED
    BY <1>2, <1>3, <1>4, SumNat

\* A position gets every line of the receipt, once.
LEMMA ReplayStock ==
    ASSUME NEW b, IsFile(b), NEW d, d.lines \in Seq(Arrivals), d.order \in Orders \cup {NoOrder},
           NEW p \in Positions, b[p] \in Int
    PROVE  Replay(b, Calls(d))[Len(Calls(d))][p] = b[p] + UnitsAt(d.lines, p)
<1> DEFINE lines == d.lines
           len == Len(lines)
           calls == Calls(d)
           n == Len(calls)
           R == Replay(b, calls)
           f == [i \in DOMAIN lines |-> lines[i].units]
           U(k) == ArrivingAt(lines, p, k)
           T == {k \in Nat : k <= n => R[k][p] = b[p] + SumFunctionOnSet(f, U(k))}
<1>1. /\ len \in Nat /\ n \in Nat /\ len <= n
      /\ \A i \in 1 .. n : calls[i] \in CallSet
      /\ \A i \in 1 .. len : lines[i] \in Arrivals /\ calls[i] = Post(lines[i])
      /\ \A i \in 1 .. n : i > len => calls[i].item \in Orders
    <2>1. /\ len \in Nat /\ RecordCount(d) \in Nat /\ calls \in Seq(CallSet) /\ n = len + RecordCount(d)
          /\ \A i \in 1 .. len : lines[i] \in Arrivals /\ calls[i] = Post(lines[i])
        BY CallsForm
    <2>2. ASSUME NEW i \in 1 .. n, i > len
          PROVE  calls[i].item \in Orders
        <3> DEFINE product == ProductsOf(d.lines)[i - Len(d.lines)]
        <3>1. /\ d.order \in Orders
              /\ Calls(d)[i] = Record(d.order, product, Wrap(Units(d.lines, product)))
            BY <2>2, CallsForm
        <3> HIDE DEF product
        <3>2. QED
            BY <3>1 DEF Record
    <2>3. \A i \in 1 .. n : calls[i] \in CallSet
        BY <2>1, ElementOfSeq
    <2> HIDE DEF calls, len, lines, n
    <2>4. n \in Nat /\ len <= n
        BY <2>1
    <2>5. QED
        BY <2>1, <2>2, <2>3, <2>4
<1>2. DOMAIN lines = 1 .. len /\ p \in Items /\ p \notin Orders
    BY DocumentsDiffer DEF Items, Documents
<1>3. \A i \in 1 .. n : calls[i].item \in Items
    BY <1>1, CallSetIsCalls
<1>4. \A k \in 1 .. n : R[k][p] = IF p = calls[k].item THEN Result(calls[k], R[k - 1][p]) ELSE R[k - 1][p]
    <2> HIDE DEF calls
    <2>1. QED
        BY <1>1, <1>2, <1>3, ReplayItem
<1>5. R[0] = b
    <2> HIDE DEF calls
    <2>1. QED
        BY <1>1, ReplaySteps
<1>6. \A k \in Nat : U(k) \in SUBSET (1 .. len) /\ IsFiniteSet(U(k)) /\ \A i \in U(k) : f[i] \in Int
    <2>1. \A k \in Nat : U(k) \in SUBSET (1 .. len)
        BY <1>2 DEF ArrivingAt
    <2>2. \A i \in 1 .. len : f[i] \in Int
        BY <1>1, <1>2, RulesAssumption DEF Arrivals
    <2> HIDE DEF U, f, len
    <2>3. \A k \in Nat : IsFiniteSet(U(k))
        BY <1>1, <2>1, RankIn
    <2>4. QED
        BY <2>1, <2>2, <2>3
<1>7. 0 \in T
    <2>1. U(0) = {}
        BY <1>1, <1>2 DEF ArrivingAt
    <2>2. SumFunctionOnSet(f, U(0)) = 0
        <3> HIDE DEF U, f
        <3>1. QED
            BY <1>6, <2>1, SumsUp
    <2> HIDE DEF f, U, R
    <2>3. QED
        BY <1>5, <2>2
<1>8. ASSUME NEW k \in Nat, k \in T
      PROVE  k + 1 \in T
    <2>1. SUFFICES ASSUME k + 1 <= n PROVE R[k + 1][p] = b[p] + SumFunctionOnSet(f, U(k + 1))
        OBVIOUS
    <2>2. k + 1 \in 1 .. n /\ (k + 1) - 1 = k /\ R[k][p] = b[p] + SumFunctionOnSet(f, U(k))
        BY <1>1, <1>8, <2>1
    <2>3. R[k + 1][p] = IF p = calls[k + 1].item THEN Result(calls[k + 1], R[k][p]) ELSE R[k][p]
        BY <1>4, <2>2
    <2>4. CASE k + 1 \in 1 .. len /\ lines[k + 1].position = p
        <3>1. k + 1 \in U(k + 1)
            BY <1>2, <2>4 DEF ArrivingAt
        <3>2. U(k + 1) \ {k + 1} = U(k)
            <4>1. \A i \in 1 .. len : (i <= k + 1 /\ i # k + 1) <=> i <= k
                OBVIOUS
            <4>2. U(k + 1) \ {k + 1} = {i \in 1 .. len : lines[i].position = p /\ i <= k + 1 /\ i # k + 1}
                BY <1>2, Zenon DEF ArrivingAt
            <4>3. U(k) = {i \in 1 .. len : lines[i].position = p /\ i <= k}
                BY <1>2 DEF ArrivingAt
            <4> HIDE DEF U, len, lines
            <4>4. QED
                BY <4>1, <4>2, <4>3, Zenon
        <3>3. f[k + 1] = lines[k + 1].units /\ lines[k + 1].units \in Int
            BY <1>1, <1>2, <2>4, RulesAssumption DEF Arrivals
        <3>4. calls[k + 1].item = p /\ Result(calls[k + 1], R[k][p]) = R[k][p] + lines[k + 1].units
            <4>1. calls[k + 1] = Post(lines[k + 1])
                BY <1>1, <2>4
            <4> HIDE DEF calls, lines, R
            <4>2. QED
                BY <2>4, <4>1 DEF Post, Result
        <3> HIDE DEF U, f, R, calls, lines
        <3>5. \A x \in U(k + 1) : SumFunctionOnSet(f, U(k + 1)) = SumFunctionOnSet(f, U(k + 1) \ {x}) + f[x]
            <4>1. IsFiniteSet(U(k + 1)) /\ \A i \in U(k + 1) : f[i] \in Int
                BY <1>6
            <4>2. QED
                BY <4>1, SumsUp
        <3>6. SumFunctionOnSet(f, U(k + 1)) = SumFunctionOnSet(f, U(k)) + f[k + 1]
            BY <3>1, <3>2, <3>5
        <3>7. SumFunctionOnSet(f, U(k)) \in Int
            BY <1>6, SumsUp
        <3>8. QED
            BY <2>2, <2>3, <3>3, <3>4, <3>6, <3>7
    <2>5. CASE ~(k + 1 \in 1 .. len /\ lines[k + 1].position = p)
        <3>1. U(k + 1) = U(k)
            <4>1. \A i \in 1 .. len : lines[i].position = p => (i <= k + 1 <=> i <= k)
                BY <2>5
            <4> HIDE DEF len
            <4>2. QED
                BY <1>2, <4>1, Zenon DEF ArrivingAt
        <3>2. calls[k + 1].item # p
            <4>1. CASE k + 1 \in 1 .. len
                <5>1. calls[k + 1] = Post(lines[k + 1]) /\ lines[k + 1].position # p
                    BY <1>1, <2>5, <4>1
                <5> HIDE DEF calls, lines
                <5>2. QED
                    BY <5>1 DEF Post
            <4>2. CASE k + 1 \notin 1 .. len
                <5>1. k + 1 > len
                    BY <1>1, <4>2
                <5>2. QED
                    BY <1>1, <1>2, <2>2, <5>1
            <4>3. QED
                BY <4>1, <4>2
        <3>3. QED
            BY <2>2, <2>3, <3>1, <3>2
    <2>6. QED
        BY <2>4, <2>5
<1>9. n \in T
    <2> HIDE DEF T
    <2>1. QED
        BY <1>1, <1>7, <1>8, Induction
<1>10. U(n) = {i \in DOMAIN lines : lines[i].position = p}
    <2>1. \A i \in 1 .. len : i <= n
        BY <1>1
    <2> HIDE DEF len, n
    <2>2. QED
        BY <1>2, <2>1, Zenon DEF ArrivingAt
<1>11. UnitsAt(lines, p) = SumFunctionOnSet(f, U(n))
    BY <1>10 DEF UnitsAt
<1> HIDE DEF U, f
<1>12. QED
    BY <1>9, <1>11

LEMMA RecordBooks ==
    ASSUME NEW x \in Orders, NEW d \in Data(x), NEW c, c.kind = "Record", c.item = x, Accepts(c, d)
    PROVE  /\ c.product \in Products /\ c.units \in 1 .. MaxInt
           /\ \A q \in Products :
                /\ d.lines[q].received \in Nat
                /\ Result(c, d).lines[q].received =
                     IF q = c.product THEN d.lines[q].received + c.units ELSE d.lines[q].received
<1>1. x \in Documents /\ x \notin Receipts
    BY RulesAssumption DEF Documents
<1>2. /\ d = [status |-> d.status, order |-> d.order, lines |-> d.lines]
      /\ d.lines \in OrderLines
    BY <1>1, DataShape DEF Lines
<1>3. LineAccepts(d.lines, c.product, c.units)
    BY DEF Accepts
<1> DEFINE p == c.product
           n == c.units
           lines == Booked(d.lines, p, n)
<1>4. p \in Products /\ n \in 1 .. MaxInt
    BY <1>2, <1>3 DEF LineAccepts, OrderLines
<1>5. /\ \A q \in Products : d.lines[q].received \in Nat
      /\ \A q \in Products \ {p} : lines[q].received = d.lines[q].received
      /\ lines[p].received = d.lines[p].received + n
    BY <1>2, <1>4, RulesAssumption DEF Booked, OrderLines
<1>6. Result(c, d).lines = lines
    BY <1>2 DEF Result
<1> HIDE DEF lines
<1>7. QED
    BY <1>4, <1>5, <1>6

Listed(lines, q, k) == \E j \in 1 .. k : ProductsOf(lines)[j] = q

\* The order a receipt names gets what each product's lines come to, in int64; the
\* other orders get nothing.
LEMMA ReplayOrder ==
    ASSUME NEW b, IsFile(b), NEW d, d.lines \in Seq(Arrivals), d.order \in Orders \cup {NoOrder},
           AllAccepted(b, Calls(d)),
           NEW o \in Orders, b[o] \in Data(o), StatusFits(o, b[o])
    PROVE  LET e == Replay(b, Calls(d))[Len(Calls(d))][o]
           IN  IF d.order # o THEN e = b[o]
               ELSE \A q \in Products :
                      LET n == Wrap(Units(d.lines, q))
                      IN  \/ /\ Listed(d.lines, q, Len(ProductsOf(d.lines))) /\ n \in 1 .. MaxInt
                             /\ e.lines[q].received = b[o].lines[q].received + n
                          \/ /\ ~Listed(d.lines, q, Len(ProductsOf(d.lines)))
                             /\ e.lines[q].received = b[o].lines[q].received
<1> DEFINE lines == d.lines
           len == Len(lines)
           calls == Calls(d)
           n == Len(calls)
           R == Replay(b, calls)
           P == ProductsOf(lines)
           m == Len(P)
           units(q) == Wrap(Units(lines, q))
<1>1. /\ len \in Nat /\ RecordCount(d) \in Nat /\ n \in Nat /\ n = len + RecordCount(d)
      /\ \A i \in 1 .. n : calls[i] \in CallSet
      /\ \A i \in 1 .. len : lines[i] \in Arrivals /\ calls[i] = Post(lines[i])
    <2>1. /\ len \in Nat /\ RecordCount(d) \in Nat /\ calls \in Seq(CallSet) /\ n = len + RecordCount(d)
          /\ \A i \in 1 .. len : lines[i] \in Arrivals /\ calls[i] = Post(lines[i])
        BY CallsForm
    <2>2. \A i \in 1 .. n : calls[i] \in CallSet
        BY <2>1, ElementOfSeq
    <2> HIDE DEF calls, len, lines, n
    <2>3. QED
        BY <2>1, <2>2
<1>2. ASSUME NEW i \in 1 .. n, i > len
      PROVE  /\ i - len \in 1 .. RecordCount(d)
             /\ calls[i] = Record(d.order, P[i - len], units(P[i - len]))
    BY <1>2, CallsForm
<1>3. \A i \in 1 .. n : calls[i].item \in Items
    BY <1>1, CallSetIsCalls
<1>4. o \in Items /\ o \notin Positions /\ o # NoOrder
    BY DocumentsDiffer, RulesAssumption DEF Items, Documents
<1>5. \A i \in 1 .. len : calls[i].item # o
    <2> HIDE DEF calls, lines, len
    <2>1. \A i \in 1 .. len : Post(lines[i]).item \in Positions
        BY <1>1 DEF Post, Arrivals
    <2>2. QED
        BY <1>1, <1>4, <2>1
<1>6. /\ \A k \in 0 .. n : (\A i \in 1 .. k : calls[i].item # o) => R[k][o] = b[o]
      /\ \A k \in 1 .. n : R[k][o] = IF o = calls[k].item THEN Result(calls[k], R[k - 1][o]) ELSE R[k - 1][o]
    <2> HIDE DEF calls
    <2>1. QED
        BY <1>1, <1>3, <1>4, ReplayItem
<1>7. \A k \in 1 .. n : Accepts(calls[k], R[k - 1][calls[k].item])
    BY DEF AllAccepted
<1>8. PICK l \in Nat :
        /\ P \in [1 .. l -> Products]
        /\ \A j, k \in 1 .. l : P[j] = P[k] => j = k
    BY ProductsListed
<1>9. m = l
    BY <1>8
<1>10. d.order = o => RecordCount(d) = m
    BY <1>4 DEF RecordCount
<1> HIDE DEF calls, lines, len, n, R, P, m, units
<1>11. CASE d.order # o
    <2>1. ASSUME NEW i \in 1 .. n
          PROVE  calls[i].item # o
        <3>1. CASE i > len
            <4>1. calls[i] = Record(d.order, P[i - len], units(P[i - len]))
                BY <1>2, <3>1
            <4>2. calls[i].item = d.order
                BY <4>1 DEF Record
            <4>3. QED
                BY <1>11, <4>2
        <3>2. CASE ~(i > len)
            <4>1. i \in 1 .. len
                BY <1>1, <3>2
            <4>2. QED
                BY <1>5, <4>1
        <3>3. QED
            BY <3>1, <3>2
    <2>2. n \in 0 .. n
        BY <1>1
    <2>3. R[n][o] = b[o]
        BY <1>6, <2>1, <2>2
    <2>4. QED
        BY <1>11, <2>3 DEF R, calls, n
<1>12. CASE d.order = o
    <2> DEFINE Holds(j) ==
                 LET e == R[len + j][o]
                 IN  /\ e \in Data(o) /\ StatusFits(o, e)
                     /\ \A q \in Products :
                          \/ /\ Listed(lines, q, j) /\ units(q) \in 1 .. MaxInt
                             /\ e.lines[q].received = b[o].lines[q].received + units(q)
                          \/ /\ ~Listed(lines, q, j)
                             /\ e.lines[q].received = b[o].lines[q].received
               T == {j \in Nat : j <= m => Holds(j)}
    <2>1. n = len + m /\ m \in Nat
        BY <1>1, <1>9, <1>10, <1>12
    <2>2. 0 \in T
        <3>1. len \in 0 .. n /\ len + 0 = len
            BY <1>1, <2>1
        <3>2. R[len + 0][o] = b[o]
            BY <1>5, <1>6, <3>1
        <3>3. \A q : ~Listed(lines, q, 0)
            BY DEF Listed
        <3>4. Holds(0)
            BY <3>2, <3>3
        <3> HIDE DEF Holds
        <3>5. QED
            BY <3>4
    <2>3. ASSUME NEW j \in Nat, j \in T
          PROVE  j + 1 \in T
        <3>1. SUFFICES ASSUME j + 1 <= m PROVE Holds(j + 1)
            OBVIOUS
        <3> DEFINE k == len + (j + 1)
                   e == R[len + j][o]
                   p == P[j + 1]
        <3>2. k \in 1 .. n /\ k > len /\ k - len = j + 1 /\ k - 1 = len + j /\ j + 1 \in 1 .. m
            BY <1>1, <2>1, <3>1
        <3>3. Holds(j)
            <4>1. j <= m
                BY <2>1, <3>1
            <4> HIDE DEF Holds
            <4>2. QED
                BY <2>3, <4>1
        <3>4. calls[k] = Record(o, p, units(p))
            BY <1>2, <1>12, <3>2
        <3>5. /\ calls[k].kind = "Record" /\ calls[k].item = o /\ calls[k].product = p /\ calls[k].units = units(p)
            <4> HIDE DEF k, p
            <4>1. QED
                BY <3>4 DEF Record
        <3>6. Accepts(calls[k], e)
            BY <1>7, <3>2, <3>5
        <3>7. R[k][o] = Result(calls[k], e)
            BY <1>6, <3>2, <3>5
        <3>8. p \in Products /\ \A i \in 1 .. j : P[i] # p
            BY <1>8, <1>9, <3>2
        <3>9. e \in Data(o) /\ StatusFits(o, e)
            BY <3>3
        <3> DEFINE c == calls[k]
        <3> HIDE DEF c, e, k, Holds, p
        <3>10. Result(c, e) \in Data(o) /\ StatusFits(o, Result(c, e))
            BY <3>5, <3>6, <3>9, RecordFits DEF c
        <3>11. /\ units(p) \in 1 .. MaxInt
               /\ \A q \in Products :
                    /\ e.lines[q].received \in Nat
                    /\ Result(c, e).lines[q].received =
                         IF q = p THEN e.lines[q].received + units(p) ELSE e.lines[q].received
            BY <3>5, <3>6, <3>9, RecordBooks DEF c
        <3>12. \A q : Listed(lines, q, j + 1) <=> Listed(lines, q, j) \/ q = p
            <4>1. \A i : i \in 1 .. (j + 1) <=> i \in 1 .. j \/ i = j + 1
                OBVIOUS
            <4>2. QED
                BY <4>1 DEF Listed, p, P
        <3>13. ~Listed(lines, p, j)
            BY <3>8 DEF Listed, P
        <3>14. ASSUME NEW q \in Products
               PROVE  \/ /\ Listed(lines, q, j + 1) /\ units(q) \in 1 .. MaxInt
                         /\ Result(c, e).lines[q].received = b[o].lines[q].received + units(q)
                      \/ /\ ~Listed(lines, q, j + 1)
                         /\ Result(c, e).lines[q].received = b[o].lines[q].received
            <4>1. \/ /\ Listed(lines, q, j) /\ units(q) \in 1 .. MaxInt
                     /\ e.lines[q].received = b[o].lines[q].received + units(q)
                  \/ /\ ~Listed(lines, q, j)
                     /\ e.lines[q].received = b[o].lines[q].received
                BY <3>3 DEF Holds, e
            <4>2. CASE q = p
                BY <3>11, <3>12, <3>13, <4>1, <4>2
            <4>3. CASE q # p
                BY <3>11, <3>12, <4>1, <4>3
            <4>4. QED
                BY <4>2, <4>3
        <3>15. R[len + (j + 1)][o] = Result(c, e)
            BY <3>7 DEF c, k
        <3>16. QED
            BY <3>10, <3>14, <3>15 DEF Holds
    <2>4. m \in T
        <3> HIDE DEF T
        <3>1. QED
            BY <2>1, <2>2, <2>3, Induction
    <2>5. Holds(m)
        <3> HIDE DEF Holds
        <3>1. QED
            BY <2>1, <2>4
    <2>6. R[n] = R[len + m]
        BY <2>1
    <2>7. QED
        BY <1>12, <2>5, <2>6 DEF R, n, calls, m, P, lines, units
<1>13. QED
    BY <1>11, <1>12

-----------------------------------------------------------------------------
(* Stock and documents agree *)

\* One element more: its value more.
LEMMA SumGrows ==
    ASSUME NEW f, NEW e, NEW S, IsFiniteSet(S), NEW x, x \notin S,
           \A y \in S : e[y] = f[y] /\ e[y] \in Int, e[x] \in Int
    PROVE  /\ IsFiniteSet(S \cup {x})
           /\ SumFunctionOnSet(f, S) \in Int
           /\ SumFunctionOnSet(e, S \cup {x}) = SumFunctionOnSet(f, S) + e[x]
<1> DEFINE T == S \cup {x}
<1>1. IsFiniteSet(T) /\ x \in T /\ T \ {x} = S
    BY FS_AddElement
<1>2. \A y \in T : e[y] \in Int
    OBVIOUS
<1>3. \A y \in S : f[y] \in Int
    OBVIOUS
<1>4. SumFunctionOnSet(f, S) \in Int
    BY <1>3, SumsUp
<1> HIDE DEF T
<1>5. SumFunctionOnSet(e, T) = SumFunctionOnSet(e, T \ {x}) + e[x]
    BY <1>1, <1>2, SumsUp
<1>6. SumFunctionOnSet(e, S) = SumFunctionOnSet(f, S)
    BY SumSame
<1>7. QED
    BY <1>1, <1>4, <1>5, <1>6 DEF T

\* Nothing but Receive posts a receipt, or books anything on an order.
LEMMA OthersPostNothing ==
    ASSUME NEW c \in Operations, NEW d \in Data(c.item), StatusFits(c.item, d), c.kind # "Receive",
           c.kind = "Create" => d.status = "NONE",
           c.kind = "Delete" => d.status = "DRAFT",
           c.kind \notin {"Create", "Delete"} => Accepts(c, d)
    PROVE  /\ d.status # "RECEIVED" /\ Result(c, d).status # "RECEIVED"
           /\ c.item \in Orders =>
                \A q \in Products : Result(c, d).lines[q].received = d.lines[q].received
           /\ c.item \in Receipts => Result(c, d).lines \in {d.lines, c.lines, <<>>}
<1> DEFINE x == c.item
<1>1. /\ IsOperation(c) /\ c.kind \in Kinds /\ x \in Documents
      /\ x \in Orders => x \notin Receipts
    BY OperationsAssumption, DocumentsDiffer DEF IsOperation
<1>2. /\ d = [status |-> d.status, order |-> d.order, lines |-> d.lines]
      /\ d.lines \in Lines(x)
    BY <1>1, DataShape
<1>3. c.kind \notin {"Create", "Delete"} => d.status \in FromStatus(x, c.kind)
    BY <1>1 DEF Accepts, Kinds
<1>4. d.status # "RECEIVED"
    BY <1>1, <1>3 DEF FromStatus, Kinds
<1>5. Result(c, d).status # "RECEIVED"
    BY <1>1, <1>2, <1>4 DEF Result, Kinds
<1>6. ASSUME x \in Orders, NEW q \in Products
      PROVE  Result(c, d).lines[q].received = d.lines[q].received
    <2>1. CASE c.kind \in {"Create", "Delete", "Update"}
        <3>1. d.status \in {"NONE", "DRAFT"}
            BY <1>3, <2>1 DEF FromStatus
        <3>2. ~HasReceipts(d.lines) /\ x \notin Receipts
            BY <1>1, <1>6, <3>1 DEF StatusFits
        <3>3. d.lines[q].received = 0
            BY <1>2, <3>2, RulesAssumption DEF HasReceipts, Lines, OrderLines
        <3>4. Result(c, d).lines = Edited(c) \/ Result(c, d).lines = NoLines(x)
            BY <1>2, <2>1 DEF Result
        <3>5. Edited(c)[q].received = 0 /\ NoLines(x)[q].received = 0
            BY <3>2 DEF Edited, NoLines
        <3>6. QED
            BY <3>3, <3>4, <3>5
    <2>2. CASE c.kind \in {"Confirm", "Approve", "Cancel"}
        BY <1>2, <2>2 DEF Result
    <2>3. QED
        BY <1>1, <2>1, <2>2 DEF Kinds
<1>7. x \in Receipts => Result(c, d).lines \in {d.lines, c.lines, <<>>}
    <2>1. x \in Receipts => Edited(c) = c.lines /\ NoLines(x) = <<>>
        BY DEF Edited, NoLines
    <2>2. Result(c, d).lines \in {d.lines, Edited(c), NoLines(x)}
        BY <1>1, <1>2 DEF Result, Kinds
    <2>3. QED
        BY <2>1, <2>2
<1>8. QED
    BY <1>4, <1>5, <1>6, <1>7

Opened == \A x \in Documents : Stands(x, opening[x].data, row[x].data)

LEMMA InitOpened == Init => Opened
<1> SUFFICES ASSUME Init, NEW x \in Documents
             PROVE  Stands(x, opening[x].data, row[x].data)
    BY DEF Opened
<1>1. row[x].data \in Data(x) /\ opening = row
    BY InitIInv DEF IInv, RowsFit, RowOf, Init
<1>2. QED
    BY <1>1, StandsStill

LEMMA OpeningStays == Next => opening' = opening
<1> SUFFICES ASSUME NEW r \in Requests,
                    Step(r) \/ InputRefused(r) \/ Fail(r) \/ LoseEvents(r) \/ DeadlockVictim(r)
             PROVE  opening' = opening
    BY DEF Next
<1>1. CASE LoadPosition(r) \/ LoadHeader(r) \/ LoadLines(r) \/ CheckNumber(r)
    BY <1>1 DEF LoadPosition, LoadHeader, LoadLines, CheckNumber, RollBack, Keep, db
<1>2. CASE WriteRow(r) \/ WriteStale(r) \/ WriteDuplicate(r) \/ DeleteDraft(r)
    BY <1>2 DEF WriteRow, WriteStale, WriteDuplicate, DeleteDraft, Write, RollBack, db
<1>3. CASE Commit(r) \/ Publish(r) \/ LoseEvents(r)
    BY <1>3 DEF Commit, Publish, LoseEvents, db
<1>4. CASE InputRefused(r) \/ Fail(r) \/ DeadlockVictim(r)
    BY <1>4 DEF InputRefused, Fail, DeadlockVictim, RollBack, db
<1>5. QED
    BY <1>1, <1>2, <1>3, <1>4 DEF Step

\* What was settled when the behaviour began still stands.
LEMMA StepOpened ==
    ASSUME IInv, TInv, Opened, Next
    PROVE  Opened'
<1> SUFFICES ASSUME NEW x \in Documents
             PROVE  Stands(x, opening'[x].data, row'[x].data)
    BY DEF Opened
<1>1. opening' = opening /\ IInv'
    BY OpeningStays, StepKeeps
<1>2. /\ row[x].data \in Data(x) /\ row'[x].data \in Data(x) /\ opening[x].data \in Data(x)
    BY <1>1 DEF IInv, RowsFit, TInv, Labels, RowOf, Items
<1>3. Stands(x, opening[x].data, row[x].data) /\ Stands(x, row[x].data, row'[x].data)
    BY RowsStand DEF Opened
<1>4. Stands(x, opening[x].data, row'[x].data)
    BY <1>2, <1>3, StandsOn
<1>5. QED
    BY <1>1, <1>4

\* A commit that is not a Receive posts nothing and books nothing.
LEMMA CommitPostsNothing ==
    ASSUME IInv, TInv, FInv, NEW r \in Requests, Commit(r), op[r].kind # "Receive"
    PROVE  /\ Posted' = Posted
           /\ \A h \in Posted : row'[h].data = row[h].data
           /\ \A p \in Positions : row'[p].data = row[p].data
           /\ \A o \in Orders, q \in Products :
                row'[o].data.lines[q].received = row[o].data.lines[q].received
           /\ \A h \in Receipts : \/ row'[h].data.lines \in {row[h].data.lines, <<>>}
                                  \/ \E c \in Operations : c.item = h /\ row'[h].data.lines = c.lines
<1>1. PICK c \in Operations : c = op[r]
    BY Commands
<1> DEFINE x == c.item
           d == row[x].data
<1>2. x \in Documents /\ x \in Items
    BY <1>1, Commands DEF Items
<1>3. /\ Concluded(r) /\ c.kind # "Receive"
      /\ x \in written[r] /\ written[r] \subseteq {x}
      /\ mine[r][x].data = Result(c, d)
      /\ c.kind = "Create" => row[x].version = 0
      /\ c.kind = "Delete" => d.status = "DRAFT"
      /\ c.kind \notin {"Create", "Delete"} => Accepts(c, d)
    BY <1>1, CommitApplies DEF Concluded
<1>4. /\ opening' = opening
      /\ \A y \in Items \ written[r] : row'[y] = row[y]
      /\ \A y \in written[r] : row'[y] = mine[r][y]
    BY CommitDoes
<1>5. row'[x].data = Result(c, d) /\ \A y \in Items \ {x} : row'[y] = row[y]
    BY <1>3, <1>4
<1>6. d \in Data(x) /\ StatusFits(x, d) /\ (c.kind = "Create" => d.status = "NONE")
    BY <1>2, <1>3 DEF IInv, RowsFit, RowOf
<1> HIDE DEF d
<1>7. PICK was : was = d
    OBVIOUS
<1>8. /\ was.status # "RECEIVED" /\ Result(c, was).status # "RECEIVED"
      /\ x \in Orders => \A q \in Products : Result(c, was).lines[q].received = was.lines[q].received
      /\ x \in Receipts => Result(c, was).lines \in {was.lines, c.lines, <<>>}
    BY <1>3, <1>6, <1>7, OthersPostNothing
<1>9. /\ row[x].data = was /\ row'[x].data = Result(c, was)
    BY <1>5, <1>7 DEF d
<1>9a. x \in Receipts => \/ row'[x].data.lines \in {row[x].data.lines, <<>>}
                          \/ \E e \in Operations : e.item = x /\ row'[x].data.lines = e.lines
    BY <1>8, <1>9
<1> HIDE DEF x
<1>10. Receipts \subseteq Items /\ Orders \subseteq Items /\ Positions \subseteq Items
    BY DEF Items, Documents
<1>11. \A h \in Receipts : row'[h].data.status = "RECEIVED" <=> row[h].data.status = "RECEIVED"
    BY <1>5, <1>8, <1>9, <1>10
<1>12. Posted' = Posted
    BY <1>4, <1>11 DEF Posted
<1>13. \A h \in Posted : h # x
    BY <1>8, <1>9 DEF Posted
<1>14. \A p \in Positions : p # x
    BY <1>2, DocumentsDiffer
<1>15. \A h \in Posted : h \in Items
    BY <1>10 DEF Posted
<1>16. \A o \in Orders, q \in Products :
         row'[o].data.lines[q].received = row[o].data.lines[q].received
    BY <1>5, <1>8, <1>9, <1>10
<1>17. \A h \in Receipts : \/ row'[h].data.lines \in {row[h].data.lines, <<>>}
                           \/ \E e \in Operations : e.item = h /\ row'[h].data.lines = e.lines
    BY <1>5, <1>10, <1>9a
<1>18. QED
    BY <1>5, <1>10, <1>12, <1>13, <1>14, <1>15, <1>16, <1>17

\* A commit of Receive posts its receipt and nothing else, and leaves the stock and
\* the orders as the calls made them.
LEMMA CommitPosts ==
    ASSUME IInv, TInv, FInv, Opened, NEW r \in Requests, Commit(r), op[r].kind = "Receive"
    PROVE  \E g \in Receipts \ Posted :
             /\ Posted' = Posted \cup {g}
             /\ row'[g].data.lines = row[g].data.lines /\ row'[g].data.order = row[g].data.order
             /\ \A h \in Receipts \ {g} : row'[h].data = row[h].data
             /\ AllAccepted(Now, Calls(row[g].data))
             /\ \A y \in Positions \cup Orders :
                  row'[y].data = Replay(Now, Calls(row[g].data))[Len(Calls(row[g].data))][y]
<1>1. PICK c \in Operations : c = op[r]
    BY Commands
<1> DEFINE g == c.item
           calls == Calls(row[g].data)
           n == Len(calls)
           after == Replay(Now, calls)[n]
<1>2. c.kind = "Receive" /\ g \in Receipts /\ g \in Documents /\ g \in Items
    BY <1>1, Commands DEF IsOperation, Items, Documents
<1>3. \A y \in Items : Now[y] = row[y].data /\ Now'[y] = row'[y].data
    BY DEF Now
<1>4. /\ Concluded(r) /\ Accepts(c, row[g].data)
      /\ AllAccepted(Now, calls)
      /\ Now' = Apply(after, c)
    BY <1>1, <1>2, <1>3, CommitApplies DEF Concluded
<1>5. /\ row[g].data \in Data(g) /\ row[g].data.lines \in Seq(Arrivals)
      /\ row[g].data.order \in Orders \cup {NoOrder}
      /\ row[g].data = [status |-> row[g].data.status, order |-> row[g].data.order, lines |-> row[g].data.lines]
    BY <1>2, DataShape DEF IInv, RowsFit, RowOf, Lines
<1>6. calls \in Seq(CallSet)
    <2>1. ASSUME NEW d, d.lines \in Seq(Arrivals), d.order \in Orders \cup {NoOrder}
          PROVE  Calls(d) \in Seq(CallSet)
        BY <2>1, CallsForm
    <2>2. QED
        BY <1>5, <2>1
<1>7. n \in Nat /\ \A i \in 1 .. n : calls[i] \in CallSet
    BY <1>6, ElementOfSeq, LenProperties
<1>8. \A i \in 1 .. n : calls[i].item \in Items /\ (calls[i].item \in Positions \/ calls[i].item \in Orders)
    <2>1. SUFFICES ASSUME NEW k \in CallSet PROVE k.item \in Items /\ (k.item \in Positions \/ k.item \in Orders)
        BY <1>7
    <2>2. QED
        BY CallSetIsCalls DEF IsCall
<1>9. /\ IsFile(after)
      /\ \A x \in Items : (\A i \in 1 .. n : calls[i].item # x) => after[x] = Now[x]
    <2>1. ASSUME NEW b, IsFile(b)
          PROVE  \A k \in 0 .. n :
                   /\ IsFile(Replay(b, calls)[k])
                   /\ \A x \in Items : (\A i \in 1 .. k : calls[i].item # x) => Replay(b, calls)[k][x] = b[x]
        <3> HIDE DEF calls
        <3>1. QED
            BY <1>7, <1>8, <2>1, ReplayItem
    <2>2. n \in 0 .. n
        BY <1>7
    <2>3. QED
        BY <2>1, <2>2, NowIsFile
<1> HIDE DEF calls, n, after
<1>10. \A x \in Items : Now'[x] = IF x = g THEN Result(c, after[x]) ELSE after[x]
    <2>1. ASSUME NEW b, IsFile(b)
          PROVE  \A x \in Items : Apply(b, c)[x] = IF x = g THEN Result(c, b[x]) ELSE b[x]
        BY <1>2, <2>1, ApplyDoes
    <2>2. QED
        BY <1>4, <1>9, <2>1
<1>11. \A h \in Receipts : h \in Items /\ after[h] = row[h].data
    <2>1. \A h \in Receipts : h \in Items /\ h \notin Positions /\ h \notin Orders
        BY DocumentsDiffer DEF Items, Documents
    <2>2. QED
        BY <1>3, <1>8, <1>9, <2>1
<1> HIDE DEF g
<1>12. row'[g].data = Result(c, row[g].data) /\ \A h \in Receipts \ {g} : row'[h].data = row[h].data
    BY <1>2, <1>3, <1>10, <1>11
<1>13. row[g].data.status = "CONFIRMED"
    BY <1>2, <1>4 DEF Accepts, FromStatus
<1>14. /\ row'[g].data.status = "RECEIVED" /\ row'[g].data.order = row[g].data.order
       /\ row'[g].data.lines = row[g].data.lines
    BY <1>2, <1>5, <1>12 DEF Result
<1>15. opening[g].data.status # "RECEIVED"
    BY <1>2, <1>13 DEF Opened, Stands, Frozen
<1>16. opening' = opening
    BY CommitDoes
<1>17. g \in Receipts \ Posted /\ Posted' = Posted \cup {g}
    BY <1>2, <1>12, <1>13, <1>14, <1>15, <1>16 DEF Posted
<1>18. \A y \in Positions \cup Orders : row'[y].data = after[y]
    <2>1. \A y \in Positions \cup Orders : y \in Items /\ y # g
        BY <1>2, DocumentsDiffer DEF Items, Documents
    <2>2. QED
        BY <1>3, <1>10, <2>1
<1>19. QED
    BY <1>4, <1>12, <1>14, <1>17, <1>18 DEF after, n, calls

Tally == IsFiniteSet(Posted) /\ StockMatchesReceipts

LEMMA InitTally == Init => Tally
<1> SUFFICES ASSUME Init PROVE Tally
    OBVIOUS
<1>1. opening = row /\ IInv /\ TInv
    BY InitIInv, InitTInv DEF Init
<1>2. Posted = {}
    BY <1>1 DEF Posted
<1>3. IsFiniteSet(Posted)
    BY <1>2, FS_EmptySet
<1>4. ASSUME NEW f
      PROVE  SumFunctionOnSet(f, Posted) = 0
    BY <1>2, FS_EmptySet, SumsUp
<1>5. \A p \in Positions : row[p].data \in Nat
    BY <1>1, RulesAssumption DEF TInv, StockFits, RowOf, Data
<1>6. QED
    BY <1>1, <1>3, <1>4, <1>5 DEF Tally, StockMatchesReceipts

LEMMA ReceiptLines ==
    ASSUME IInv, NEW g \in Receipts
    PROVE  row[g].data.lines \in Seq(Arrivals) /\ row[g].data.order \in Orders \cup {NoOrder}
<1>1. g \in Documents /\ row[g].data \in Data(g)
    BY DEF Documents, IInv, RowsFit, RowOf
<1>2. QED
    BY <1>1, DataShape DEF Lines

LEMMA StepTally ==
    ASSUME IInv, TInv, FInv, Opened, Tally, Next
    PROVE  Tally'
<1>1. PICK r \in Requests :
        Step(r) \/ InputRefused(r) \/ Fail(r) \/ LoseEvents(r) \/ DeadlockVictim(r)
    BY DEF Next
<1>2. opening' = opening
    BY OpeningStays
<1>3. CASE ~Commit(r)
    <2>1. row' = row
        BY <1>1, <1>3, OnlyCommitsWrite
    <2>2. QED
        BY <1>2, <2>1 DEF Tally, StockMatchesReceipts, Posted, LinesOf
<1>4. CASE Commit(r) /\ op[r].kind # "Receive"
    <2>1. /\ Posted' = Posted
          /\ \A h \in Posted : row'[h].data = row[h].data
          /\ \A p \in Positions : row'[p].data = row[p].data
        BY <1>4, CommitPostsNothing
    <2>2. ASSUME NEW p \in Positions
          PROVE  SumFunctionOnSet([h \in Receipts |-> UnitsAt(LinesOf(h), p)], Posted)
                   = SumFunctionOnSet([h \in Receipts |-> UnitsAt(LinesOf(h)', p)], Posted)
        <3> DEFINE f == [h \in Receipts |-> UnitsAt(LinesOf(h), p)]
                   e == [h \in Receipts |-> UnitsAt(LinesOf(h)', p)]
        <3>1. \A h \in Posted : f[h] = e[h]
            BY <2>1 DEF LinesOf, Posted
        <3> HIDE DEF f, e
        <3>2. SumFunctionOnSet(f, Posted) = SumFunctionOnSet(e, Posted)
            BY <3>1, SumSame
        <3>3. QED
            BY <3>2 DEF f, e
    <2>3. QED
        BY <1>2, <2>1, <2>2 DEF Tally, StockMatchesReceipts
<1>5. CASE Commit(r) /\ op[r].kind = "Receive"
    <2>1. PICK g \in Receipts \ Posted :
             /\ Posted' = Posted \cup {g}
             /\ row'[g].data.lines = row[g].data.lines
             /\ \A h \in Receipts \ {g} : row'[h].data = row[h].data
             /\ \A y \in Positions \cup Orders :
                  row'[y].data = Replay(Now, Calls(row[g].data))[Len(Calls(row[g].data))][y]
        BY <1>5, CommitPosts
    <2>2. IsFiniteSet(Posted) /\ StockMatchesReceipts
        BY DEF Tally
    <2>3. ASSUME NEW p \in Positions
          PROVE  /\ IsFiniteSet(Posted')
                 /\ row'[p].data = opening'[p].data +
                      SumFunctionOnSet([h \in Receipts |-> UnitsAt(LinesOf(h)', p)], Posted')
        <3> DEFINE f == [h \in Receipts |-> UnitsAt(LinesOf(h), p)]
                   e == [h \in Receipts |-> UnitsAt(LinesOf(h)', p)]
                   S == Posted
                   u == UnitsAt(row[g].data.lines, p)
        <3>1. /\ \A h \in S : e[h] = f[h] /\ e[h] = UnitsAt(LinesOf(h), p)
              /\ e[g] = u
            BY <2>1 DEF LinesOf, Posted
        <3>2. \A h \in Receipts : UnitsAt(LinesOf(h), p) \in Nat
            BY ReceiptLines, UnitsAtNat DEF LinesOf
        <3>3. u \in Nat /\ \A h \in S : e[h] \in Int
            BY <3>1, <3>2 DEF LinesOf, Posted
        <3>4. p \in Items /\ row[p].data \in Int /\ opening[p].data \in Int
            <4>1. p \in Items /\ Data(p) \subseteq Int
                BY RulesAssumption DEF Data, Items
            <4>2. QED
                BY <4>1 DEF TInv, StockFits, Labels, RowOf
        <3>5. row'[p].data = row[p].data + u
            <4>1. ASSUME NEW b, IsFile(b), NEW d, d.lines \in Seq(Arrivals), d.order \in Orders \cup {NoOrder},
                         b[p] \in Int
                  PROVE  Replay(b, Calls(d))[Len(Calls(d))][p] = b[p] + UnitsAt(d.lines, p)
                BY <4>1, ReplayStock
            <4>2. IsFile(Now) /\ Now[p] = row[p].data
                BY <3>4, NowIsFile
            <4>3. row[g].data.lines \in Seq(Arrivals) /\ row[g].data.order \in Orders \cup {NoOrder}
                BY ReceiptLines
            <4>4. Replay(Now, Calls(row[g].data))[Len(Calls(row[g].data))][p] = Now[p] + u
                BY <3>4, <4>1, <4>2, <4>3
            <4>5. QED
                BY <2>1, <4>2, <4>4
        <3>6. row[p].data = opening[p].data + SumFunctionOnSet(f, S)
            BY <2>2 DEF StockMatchesReceipts
        <3>7. Posted' = S \cup {g} /\ g \notin S /\ IsFiniteSet(S)
            BY <2>1, <2>2
        <3> HIDE DEF f, e, S, u
        <3>8. /\ IsFiniteSet(S \cup {g})
              /\ SumFunctionOnSet(f, S) \in Int
              /\ SumFunctionOnSet(e, S \cup {g}) = SumFunctionOnSet(f, S) + e[g]
            <4>1. /\ g \notin S /\ IsFiniteSet(S) /\ e[g] \in Int
                  /\ \A h \in S : e[h] = f[h] /\ e[h] \in Int
                BY <3>1, <3>3, <3>7
            <4>2. QED
                BY ONLY <4>1, SumGrows
        <3>9. row'[p].data = opening[p].data + SumFunctionOnSet(e, S \cup {g})
            BY <3>1, <3>3, <3>4, <3>5, <3>6, <3>8
        <3>10. QED
            BY <1>2, <3>7, <3>8, <3>9 DEF e
    <2>4. IsFiniteSet(Posted')
        BY <2>1, <2>2, FS_AddElement
    <2>5. QED
        BY <2>3, <2>4 DEF Tally, StockMatchesReceipts
<1>6. QED
    BY <1>3, <1>4, <1>5

\* Stock and documents agree: whatever transactions interleave, fail or deadlock, a
\* position holds what it held plus every line of every receipt posted, once.
THEOREM StockMatches == Spec => []StockMatchesReceipts
<1>1. IInv /\ TInv /\ FInv /\ Opened /\ Tally /\ [Next]_vars => Opened' /\ Tally'
    <2> SUFFICES ASSUME IInv, TInv, FInv, Opened, Tally, [Next]_vars
                 PROVE  Opened' /\ Tally'
        OBVIOUS
    <2>1. CASE Next
        BY <2>1, StepOpened, StepTally
    <2>2. CASE UNCHANGED vars
        BY <2>2 DEF vars, Opened, Tally, StockMatchesReceipts, Posted, LinesOf
    <2>3. QED
        BY <2>1, <2>2
<1>2. Tally => StockMatchesReceipts
    BY DEF Tally
<1>3. QED
    BY <1>1, <1>2, InitOpened, InitTally, FlightInvariant, PTL DEF Spec

-----------------------------------------------------------------------------
(* Orders and receipts agree *)

\* The sum of a product's lines does not go once round int64.
SumsFit(lines) == \A q \in Products : Units(lines, q) <= 2 * MaxInt + 2

QuantitiesFit ==
    /\ \A w \in Openings, g \in Receipts : SumsFit(w[g].lines)
    /\ \A c \in Operations : c.item \in Receipts => SumsFit(c.lines)

\* A wrapped sum that is a quantity is then the sum itself.
LEMMA WrapFits ==
    ASSUME NEW u \in Nat, u <= 2 * MaxInt + 2, Wrap(u) \in 1 .. MaxInt
    PROVE  Wrap(u) = u
<1> DEFINE m == 2 * MaxInt + 2
           n == u + MaxInt + 1
<1>1. MaxInt \in Nat /\ m \in Nat /\ m > 0 /\ n \in Nat /\ Wrap(u) = (n % m) - (MaxInt + 1)
    BY RulesAssumption DEF Wrap
<1>2. n < 2 * m
    BY <1>1
<1>3. \A a, k \in Nat : k > 0 /\ a < k => a % k = a
    OBVIOUS
<1>4. \A a, k \in Nat : k > 0 /\ k <= a /\ a < 2 * k => a % k = a - k
    OBVIOUS
<1>5. CASE n < m
    <2>1. n % m = n
        BY <1>1, <1>3, <1>5
    <2>2. QED
        BY <1>1, <2>1
<1>6. CASE n >= m
    <2>1. n % m = n - m
        BY <1>1, <1>2, <1>4, <1>6
    <2>2. QED
        BY <1>1, <2>1
<1>7. QED
    BY <1>1, <1>5, <1>6

\* Receiving a receipt books on its order what the lines of each product come to.
LEMMA OrderBooks ==
    ASSUME NEW b, IsFile(b), NEW d, d.lines \in Seq(Arrivals), d.order \in Orders \cup {NoOrder},
           AllAccepted(b, Calls(d)), SumsFit(d.lines),
           NEW o \in Orders, b[o] \in Data(o), StatusFits(o, b[o]), NEW q \in Products
    PROVE  Replay(b, Calls(d))[Len(Calls(d))][o].lines[q].received =
             b[o].lines[q].received + (IF d.order = o THEN Units(d.lines, q) ELSE 0)
<1> DEFINE e == Replay(b, Calls(d))[Len(Calls(d))][o]
           n == Wrap(Units(d.lines, q))
           P == ProductsOf(d.lines)
           L == Listed(d.lines, q, Len(P))
<1>1. b[o].lines[q].received \in Int
    <2>1. o \in Documents /\ o \notin Receipts
        BY RulesAssumption DEF Documents
    <2>2. b[o].lines \in OrderLines
        BY <2>1, DataShape DEF Lines
    <2>3. QED
        BY <2>2, RulesAssumption DEF OrderLines
<1>2. IF d.order # o THEN e = b[o]
      ELSE \/ L /\ n \in 1 .. MaxInt /\ e.lines[q].received = b[o].lines[q].received + n
           \/ ~L /\ e.lines[q].received = b[o].lines[q].received
    BY ReplayOrder
<1>3. /\ Units(d.lines, q) \in Nat
      /\ (\A i \in 1 .. Len(d.lines) : ProductAt(d.lines, i) # q) => Units(d.lines, q) = 0
    BY UnitsNat
<1>4. PICK l \in Nat :
        /\ P \in [1 .. l -> Products]
        /\ \A i \in 1 .. Len(d.lines) : \E k \in 1 .. l : P[k] = ProductAt(d.lines, i)
    BY ProductsListed
<1>5. Len(P) = l
    BY <1>4
<1>6. ~L => Units(d.lines, q) = 0
    <2>1. SUFFICES ASSUME ~L, NEW i \in 1 .. Len(d.lines)
                   PROVE  ProductAt(d.lines, i) # q
        BY <1>3
    <2>2. \A k \in 1 .. l : P[k] # q
        BY <1>5, <2>1 DEF Listed
    <2>3. QED
        BY <1>4, <2>2
<1>7. n \in 1 .. MaxInt => n = Units(d.lines, q)
    BY <1>3, WrapFits DEF SumsFit
<1> HIDE DEF e, n, L
<1>8. QED
    BY <1>1, <1>2, <1>3, <1>6, <1>7 DEF e

ReceiptsFit == \A g \in Receipts : SumsFit(row[g].data.lines)

LEMMA NothingFits == SumsFit(<<>>)
<1>1. ASSUME NEW q \in Products
      PROVE  Units(<<>>, q) = 0
    <2>1. <<>> \in Seq(Arrivals) /\ Len(<<>>) = 0
        BY EmptySeq
    <2>2. \A i \in 1 .. Len(<<>>) : ProductAt(<<>>, i) # q
        BY <2>1
    <2>3. QED
        BY <2>1, <2>2, UnitsNat
<1>2. QED
    BY <1>1, RulesAssumption DEF SumsFit

LEMMA InitReceiptsFit == QuantitiesFit /\ Init => ReceiptsFit
<1> SUFFICES ASSUME QuantitiesFit, Init, NEW g \in Receipts
             PROVE  SumsFit(row[g].data.lines)
    BY DEF ReceiptsFit
<1>1. PICK w \in Openings :
        row = [x \in Items |-> [version |-> IF w[x] = NoData(x) THEN 0 ELSE 1, data |-> w[x]]]
    BY DEF Init
<1>2. row[g].data = w[g]
    BY <1>1 DEF Items, Documents
<1>3. QED
    BY <1>2 DEF QuantitiesFit

LEMMA StepReceiptsFit ==
    ASSUME QuantitiesFit, IInv, TInv, FInv, Opened, ReceiptsFit, Next
    PROVE  ReceiptsFit'
<1>1. PICK r \in Requests :
        Step(r) \/ InputRefused(r) \/ Fail(r) \/ LoseEvents(r) \/ DeadlockVictim(r)
    BY DEF Next
<1>2. CASE ~Commit(r)
    <2>1. row' = row
        BY <1>1, <1>2, OnlyCommitsWrite
    <2>2. QED
        BY <2>1 DEF ReceiptsFit
<1>3. CASE Commit(r) /\ op[r].kind # "Receive"
    <2>1. \A h \in Receipts : \/ row'[h].data.lines \in {row[h].data.lines, <<>>}
                              \/ \E c \in Operations : c.item = h /\ row'[h].data.lines = c.lines
        BY <1>3, CommitPostsNothing
    <2>2. \A h \in Receipts : \A c \in Operations : c.item = h => SumsFit(c.lines)
        BY DEF QuantitiesFit
    <2>3. QED
        BY <2>1, <2>2, NothingFits DEF ReceiptsFit
<1>4. CASE Commit(r) /\ op[r].kind = "Receive"
    <2>1. PICK g \in Receipts \ Posted :
             /\ row'[g].data.lines = row[g].data.lines
             /\ \A h \in Receipts \ {g} : row'[h].data = row[h].data
        BY <1>4, CommitPosts
    <2>2. \A h \in Receipts : row'[h].data.lines = row[h].data.lines
        BY <2>1
    <2>3. QED
        BY <2>2 DEF ReceiptsFit
<1>5. QED
    BY <1>2, <1>3, <1>4

\* The receipts posted against an order.
Against(o) == {g \in Posted : row[g].data.order = o}

BookedOn(o, q) ==
    row[o].data.lines[q].received =
        opening[o].data.lines[q].received + SumFunctionOnSet([g \in Receipts |-> Units(LinesOf(g), q)], Against(o))

OrdersTally == \A o \in Orders, q \in Products : BookedOn(o, q)

LEMMA InitOrdersTally == Init => OrdersTally
<1> SUFFICES ASSUME Init, NEW o \in Orders, NEW q \in Products
             PROVE  BookedOn(o, q)
    BY DEF OrdersTally
<1>1. opening = row /\ IInv
    BY InitIInv DEF Init
<1>2. Against(o) = {}
    BY <1>1 DEF Against, Posted
<1>3. ASSUME NEW f
      PROVE  SumFunctionOnSet(f, Against(o)) = 0
    BY <1>2, FS_EmptySet, SumsUp
<1>4. row[o].data.lines[q].received \in Int
    <2>1. o \in Documents /\ o \notin Receipts
        BY RulesAssumption DEF Documents
    <2>2. row[o].data.lines \in OrderLines
        <3>1. row[o].data \in Data(o)
            BY <1>1, <2>1 DEF IInv, RowsFit, RowOf
        <3>2. QED
            BY <2>1, <3>1, DataShape DEF Lines
    <2>3. QED
        BY <2>2, RulesAssumption DEF OrderLines
<1>5. QED
    BY <1>1, <1>3, <1>4 DEF BookedOn

LEMMA StepOrdersTally ==
    ASSUME IInv, TInv, FInv, Opened, Tally, ReceiptsFit, OrdersTally, Next
    PROVE  OrdersTally'
<1>1. PICK r \in Requests :
        Step(r) \/ InputRefused(r) \/ Fail(r) \/ LoseEvents(r) \/ DeadlockVictim(r)
    BY DEF Next
<1>2. opening' = opening
    BY OpeningStays
<1>3. CASE ~Commit(r)
    <2>1. row' = row
        BY <1>1, <1>3, OnlyCommitsWrite
    <2>2. QED
        BY <1>2, <2>1 DEF OrdersTally, BookedOn, Against, Posted, LinesOf
<1>4. CASE Commit(r) /\ op[r].kind # "Receive"
    <2>1. /\ Posted' = Posted
          /\ \A h \in Posted : row'[h].data = row[h].data
          /\ \A o \in Orders, q \in Products :
               row'[o].data.lines[q].received = row[o].data.lines[q].received
        BY <1>4, CommitPostsNothing
    <2>2. ASSUME NEW o \in Orders, NEW q \in Products
          PROVE  BookedOn(o, q)'
        <3> DEFINE f == [h \in Receipts |-> Units(LinesOf(h), q)]
                   e == [h \in Receipts |-> Units(LinesOf(h)', q)]
                   S == Against(o)
        <3>1. S' = S
            BY <2>1 DEF Against
        <3>2. \A h \in S : f[h] = e[h]
            BY <2>1 DEF LinesOf, Posted, Against
        <3>3. BookedOn(o, q)
            BY DEF OrdersTally
        <3>4. row[o].data.lines[q].received = opening[o].data.lines[q].received + SumFunctionOnSet(f, S)
            BY <3>3 DEF BookedOn
        <3> HIDE DEF f, e, S
        <3>5. SumFunctionOnSet(f, S) = SumFunctionOnSet(e, S)
            BY <3>2, SumSame
        <3>6. row'[o].data.lines[q].received = opening'[o].data.lines[q].received + SumFunctionOnSet(e, S')
            BY <1>2, <2>1, <3>1, <3>4, <3>5
        <3>7. QED
            BY <3>6 DEF BookedOn, S, e
    <2>3. QED
        BY <2>2 DEF OrdersTally
<1>5. CASE Commit(r) /\ op[r].kind = "Receive"
    <2>1. PICK g \in Receipts \ Posted :
             /\ Posted' = Posted \cup {g}
             /\ row'[g].data.lines = row[g].data.lines /\ row'[g].data.order = row[g].data.order
             /\ \A h \in Receipts \ {g} : row'[h].data = row[h].data
             /\ AllAccepted(Now, Calls(row[g].data))
             /\ \A y \in Positions \cup Orders :
                  row'[y].data = Replay(Now, Calls(row[g].data))[Len(Calls(row[g].data))][y]
        BY <1>5, CommitPosts
    <2>2. \A h \in Posted : row'[h].data = row[h].data
        BY <2>1 DEF Posted
    <2>3. ASSUME NEW o \in Orders, NEW q \in Products
          PROVE  BookedOn(o, q)'
        <3> DEFINE f == [h \in Receipts |-> Units(LinesOf(h), q)]
                   e == [h \in Receipts |-> Units(LinesOf(h)', q)]
                   S == Against(o)
                   u == Units(row[g].data.lines, q)
                   was == row[o].data.lines[q].received
                   began == opening[o].data.lines[q].received
        <3>1. (\A h \in S : e[h] = f[h] /\ e[h] = Units(LinesOf(h), q)) /\ e[g] = u
            BY <2>1, <2>2 DEF LinesOf, Posted, Against
        <3>2. \A h \in Receipts : Units(LinesOf(h), q) \in Nat
            BY ReceiptLines, UnitsNat DEF LinesOf
        <3>3. u \in Nat /\ \A h \in S : e[h] \in Int
            BY <3>1, <3>2 DEF LinesOf, Posted, Against
        <3>4. /\ o \in Items /\ row[o].data \in Data(o) /\ StatusFits(o, row[o].data)
              /\ was \in Int /\ began \in Int
            <4>1. o \in Documents /\ o \in Items /\ o \notin Receipts
                BY RulesAssumption DEF Documents, Items
            <4>2. /\ row[o].data \in Data(o) /\ StatusFits(o, row[o].data) /\ opening[o].data \in Data(o)
                BY <4>1 DEF IInv, RowsFit, TInv, Labels, RowOf
            <4>3. row[o].data.lines \in OrderLines /\ opening[o].data.lines \in OrderLines
                BY <4>1, <4>2, DataShape DEF Lines
            <4>4. QED
                BY <4>1, <4>2, <4>3, RulesAssumption DEF OrderLines
        <3>5. row'[o].data.lines[q].received = was + (IF row[g].data.order = o THEN u ELSE 0)
            <4>1. ASSUME NEW b, IsFile(b), NEW d, d.lines \in Seq(Arrivals), d.order \in Orders \cup {NoOrder},
                         AllAccepted(b, Calls(d)), SumsFit(d.lines), b[o] \in Data(o), StatusFits(o, b[o])
                  PROVE  Replay(b, Calls(d))[Len(Calls(d))][o].lines[q].received =
                           b[o].lines[q].received + (IF d.order = o THEN Units(d.lines, q) ELSE 0)
                BY <4>1, OrderBooks
            <4>2. IsFile(Now) /\ Now[o] = row[o].data
                BY <3>4, NowIsFile
            <4>3. row[g].data.lines \in Seq(Arrivals) /\ row[g].data.order \in Orders \cup {NoOrder}
                  /\ SumsFit(row[g].data.lines)
                BY ReceiptLines DEF ReceiptsFit
            <4>4. Replay(Now, Calls(row[g].data))[Len(Calls(row[g].data))][o].lines[q].received =
                    Now[o].lines[q].received + (IF row[g].data.order = o THEN u ELSE 0)
                BY <2>1, <3>4, <4>1, <4>2, <4>3
            <4>5. QED
                BY <2>1, <4>2, <4>4
        <3>6. BookedOn(o, q)
            BY DEF OrdersTally
        <3>7. was = began + SumFunctionOnSet(f, S)
            BY <3>6 DEF BookedOn
        <3>8. IsFiniteSet(S)
            BY FS_Subset DEF Tally, Against
        <3>9. g \notin S /\ S' = IF row[g].data.order = o THEN S \cup {g} ELSE S
            BY <2>1, <2>2 DEF Against
        <3>10. e = [h \in Receipts |-> Units(LinesOf(h)', q)]
            OBVIOUS
        <3>11. opening'[o].data.lines[q].received = began
            BY <1>2
        <3> HIDE DEF f, e, S, u, was, began
        <3>12. row'[o].data.lines[q].received = began + SumFunctionOnSet(e, S')
            <4>1. /\ g \notin S /\ IsFiniteSet(S) /\ e[g] \in Int
                  /\ \A h \in S : e[h] = f[h] /\ e[h] \in Int
                BY <3>1, <3>3, <3>8, <3>9
            <4>2. /\ SumFunctionOnSet(f, S) \in Int
                  /\ SumFunctionOnSet(e, S \cup {g}) = SumFunctionOnSet(f, S) + e[g]
                BY ONLY <4>1, SumGrows
            <4>3. SumFunctionOnSet(e, S) = SumFunctionOnSet(f, S)
                BY <4>1, SumSame
            <4>4. CASE row[g].data.order = o
                BY <3>1, <3>3, <3>4, <3>5, <3>7, <3>9, <4>2, <4>4
            <4>5. CASE row[g].data.order # o
                BY <3>4, <3>5, <3>7, <3>9, <4>2, <4>3, <4>5
            <4>6. QED
                BY <4>4, <4>5
        <3>13. QED
            BY <3>10, <3>11, <3>12 DEF BookedOn, S
    <2>4. QED
        BY <2>3 DEF OrdersTally
<1>6. QED
    BY <1>3, <1>4, <1>5

\* Orders and receipts agree: an order has received, product by product, what the
\* receipts posted against it brought.  The services add up a receipt's lines in int64
\* and the order checks the sum, so this is of receipts on which no product comes to
\* more than twice what an int64 holds; past that the sum wraps to a quantity again.
THEOREM OrdersMatch == ASSUME QuantitiesFit PROVE Spec => []OrdersMatchReceipts
<1>1. /\ Init => ReceiptsFit
      /\ IInv /\ TInv /\ FInv /\ Opened /\ Tally /\ ReceiptsFit /\ OrdersTally /\ [Next]_vars
           => Opened' /\ Tally' /\ ReceiptsFit' /\ OrdersTally'
    <2> SUFFICES ASSUME IInv, TInv, FInv, Opened, Tally, ReceiptsFit, OrdersTally, [Next]_vars
                 PROVE  Opened' /\ Tally' /\ ReceiptsFit' /\ OrdersTally'
        BY InitReceiptsFit
    <2>1. CASE Next
        BY <2>1, StepOpened, StepTally, StepReceiptsFit, StepOrdersTally
    <2>2. CASE UNCHANGED vars
        BY <2>2 DEF vars, Opened, Tally, StockMatchesReceipts, Posted, LinesOf, ReceiptsFit,
                    OrdersTally, BookedOn, Against
    <2>3. QED
        BY <2>1, <2>2
<1>2. OrdersTally => OrdersMatchReceipts
    BY DEF OrdersTally, BookedOn, Against, OrdersMatchReceipts
<1>3. QED
    BY <1>1, <1>2, InitOpened, InitTally, InitOrdersTally, FlightInvariant, PTL DEF Spec
=============================================================================
