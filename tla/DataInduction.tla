--------------------------- MODULE DataInduction ---------------------------
(***************************************************************************)
(* Facts about the recursive functions the models add up sizes and join    *)
(* sequences with: SumFunctionOnSet and FlattenSeq of the community        *)
(* modules.  A recursive function is a CHOOSE of a function that satisfies *)
(* its equation; that there is one is proved by induction, as a set of     *)
(* numbers that holds 0 and n + 1 with each n.                             *)
(***************************************************************************)
EXTENDS Integers, FiniteSets, Sequences, SequencesExt,
        FiniteSetTheorems, SequenceTheorems, WellFoundedInduction, TLAPS

\* Induction over the numbers, for a set: the smallest number not in it.
LEMMA SetInduction ==
    ASSUME NEW T, 0 \in T, \A n \in Nat : n \in T => n + 1 \in T
    PROVE  \A n \in Nat : n \in T
  <1>. DEFINE Bad == Nat \ T
  <1>. SUFFICES ASSUME Bad # {} PROVE FALSE
    OBVIOUS
  <1>1. PICK x \in Bad : \A y \in Bad : ~(<<y, x>> \in OpToRel(<, Nat))
    <2>1. Bad \subseteq Nat
      OBVIOUS
    <2>. QED
      BY <2>1, WFMin, NatLessThanWellFounded
  <1>2. x # 0 /\ x - 1 \in Nat /\ x - 1 < x
    OBVIOUS
  <1>3. x - 1 \notin Bad
    BY <1>1, <1>2 DEF OpToRel
  <1>. QED
    BY <1>2, <1>3

-----------------------------------------------------------------------------
(* Sums. *)

Chosen(s) == CHOOSE x \in s : TRUE

\* The equation of the function SumFunctionOnSet chooses.
Adds(g, fun, s) == g[s] = IF s = {} THEN 0 ELSE fun[Chosen(s)] + g[s \ {Chosen(s)}]
IsSumming(g, fun, S) ==
    g = [s \in SUBSET S |-> IF s = {} THEN 0 ELSE fun[Chosen(s)] + g[s \ {Chosen(s)}]]

LEMMA SmallerSubset ==
    ASSUME NEW S, IsFiniteSet(S), NEW s \in SUBSET S, NEW x \in s
    PROVE  /\ s \ {x} \in SUBSET S /\ IsFiniteSet(s) /\ IsFiniteSet(s \ {x})
           /\ Cardinality(s) \in Nat /\ Cardinality(s \ {x}) = Cardinality(s) - 1
  BY FS_Subset, FS_RemoveElement, FS_CardinalityType

LEMMA ChosenIsIn == \A s : s # {} => Chosen(s) \in s
  BY DEF Chosen

LEMMA SumDefined ==
    ASSUME NEW fun, NEW S, IsFiniteSet(S)
    PROVE  \E g : IsSumming(g, fun, S)
  <1>. DEFINE Upto(g, n) == \A s \in SUBSET S : Cardinality(s) <= n => Adds(g, fun, s)
              T == {n \in Nat : \E g : Upto(g, n)}
  <1>0. \A s \in SUBSET S : Cardinality(s) \in Nat
    BY FS_Subset, FS_CardinalityType
  <1>1. 0 \in T
    <2>. DEFINE g == [s \in SUBSET S |-> 0]
    <2>1. \A s \in SUBSET S : Cardinality(s) <= 0 => s = {}
      BY <1>0, FS_Subset, FS_EmptySet
    <2>2. Upto(g, 0)
      BY <2>1 DEF Adds
    <2>. QED
      BY <2>2
  <1>2. ASSUME NEW n \in Nat, n \in T PROVE n + 1 \in T
    <2>1. PICK g : Upto(g, n)
      BY <1>2
    <2>. DEFINE h == [s \in SUBSET S |-> IF Cardinality(s) <= n THEN g[s]
                                         ELSE fun[Chosen(s)] + g[s \ {Chosen(s)}]]
    <2>2. ASSUME NEW s \in SUBSET S, Cardinality(s) <= n + 1
          PROVE  Adds(h, fun, s)
      <3>1. CASE s = {}
        <4>1. Cardinality(s) <= n
          BY <3>1, FS_EmptySet
        <4>2. h[s] = g[s] /\ g[s] = 0
          BY <2>1, <3>1, <4>1 DEF Adds
        <4>. QED
          BY <3>1, <4>2 DEF Adds
      <3>2. CASE s # {}
        <4>. DEFINE r == s \ {Chosen(s)}
        <4>1. r \in SUBSET S /\ Cardinality(r) <= n
          BY SMTT(30), <1>0, <2>2, <3>2, SmallerSubset, ChosenIsIn
        <4>2. h[r] = g[r]
          BY <4>1
        <4>3. h[s] = fun[Chosen(s)] + g[r]
          BY <2>1, <3>2 DEF Adds
        <4>. QED
          BY <3>2, <4>2, <4>3 DEF Adds
      <3>. QED
        BY <3>1, <3>2
    <2>. HIDE DEF h
    <2>. QED
      BY <2>2
  <1>3. \A n \in Nat : n \in T
    <2>. HIDE DEF T
    <2>. QED
      BY <1>1, <1>2, SetInduction
  <1>4. Cardinality(S) \in T
    BY <1>3, FS_CardinalityType
  <1>5. PICK g : Upto(g, Cardinality(S))
    BY <1>4
  <1>. DEFINE h == [s \in SUBSET S |-> g[s]]
  <1>6. \A s \in SUBSET S : Cardinality(s) <= Cardinality(S)
    BY FS_Subset
  <1>7. ASSUME NEW s \in SUBSET S
        PROVE  h[s] = IF s = {} THEN 0 ELSE fun[Chosen(s)] + h[s \ {Chosen(s)}]
    BY <1>5, <1>6 DEF Adds
  <1>8. h = [s \in SUBSET S |-> h[s]]
    OBVIOUS
  <1>. HIDE DEF h
  <1>9. IsSumming(h, fun, S)
    BY <1>7, <1>8, Zenon DEF IsSumming
  <1>. QED
    BY <1>9

LEMMA SumIsTheOne ==
    ASSUME NEW fun, NEW S, IsFiniteSet(S)
    PROVE  \E g : IsSumming(g, fun, S) /\ SumFunctionOnSet(fun, S) = g[S]
  <1>. DEFINE g == CHOOSE f : IsSumming(f, fun, S)
  <1>1. IsSumming(g, fun, S)
    BY SumDefined
  <1>2. SumFunctionOnSet(fun, S) = g[S]
    BY DEF SumFunctionOnSet, FoldFunctionOnSet, MapThenFoldSet, IsSumming, Chosen
  <1>. QED
    BY <1>1, <1>2

LEMMA SumUnfolds ==
    ASSUME NEW fun, NEW S, IsFiniteSet(S), NEW g, IsSumming(g, fun, S), NEW s \in SUBSET S
    PROVE  Adds(g, fun, s)
  BY Zenon DEF IsSumming, Adds

\* Two functions that sum the same values agree on the sets both know.
LEMMA SumsAgree ==
    ASSUME NEW fun, NEW S, IsFiniteSet(S), NEW g, IsSumming(g, fun, S),
           NEW fun2, NEW S2, IsFiniteSet(S2), NEW g2, IsSumming(g2, fun2, S2),
           NEW R, R \subseteq S, R \subseteq S2, \A x \in R : fun[x] = fun2[x]
    PROVE  g[R] = g2[R]
  <1>. DEFINE T == {n \in Nat : \A s \in SUBSET R : Cardinality(s) = n => g[s] = g2[s]}
  <1>0. IsFiniteSet(R)
    BY FS_Subset
  <1>1. 0 \in T
    <2>1. ASSUME NEW s \in SUBSET R, Cardinality(s) = 0
          PROVE  g[s] = g2[s]
      <3>1. s = {} /\ s \in SUBSET S /\ s \in SUBSET S2
        BY <1>0, <2>1, FS_Subset, FS_EmptySet
      <3>. QED
        BY ZenonT(30), <3>1, SumUnfolds DEF Adds
    <2>. QED
      BY <2>1
  <1>2. ASSUME NEW n \in Nat, n \in T PROVE n + 1 \in T
    <2>1. ASSUME NEW s \in SUBSET R, Cardinality(s) = n + 1
          PROVE  g[s] = g2[s]
      <3>. DEFINE c == Chosen(s)
      <3>1. s # {}
        BY <2>1, FS_EmptySet
      <3>2. c \in s /\ c \in R
        BY <3>1, ChosenIsIn
      <3>3. s \ {c} \in SUBSET R /\ Cardinality(s \ {c}) = n
        <4>1. /\ s \ {c} \in SUBSET R /\ Cardinality(s) \in Nat
              /\ Cardinality(s \ {c}) = Cardinality(s) - 1
          BY <1>0, <3>2, SmallerSubset
        <4>. QED
          BY <2>1, <4>1
      <3>4. g[s \ {c}] = g2[s \ {c}]
        BY <1>2, <3>3
      <3>5. g[s] = fun[c] + g[s \ {c}] /\ g2[s] = fun2[c] + g2[s \ {c}]
        <4>1. Adds(g, fun, s) /\ Adds(g2, fun2, s)
          BY SumUnfolds
        <4>. QED
          BY <3>1, <4>1 DEF Adds
      <3>. QED
        BY <3>2, <3>4, <3>5
    <2>. QED
      BY <2>1
  <1>3. \A n \in Nat : n \in T
    <2>. HIDE DEF T
    <2>. QED
      BY <1>1, <1>2, SetInduction
  <1>4. Cardinality(R) \in T
    BY <1>0, <1>3, FS_CardinalityType
  <1>. QED
    BY <1>4

\* Equal values have equal sums.
LEMMA SumCongruence ==
    ASSUME NEW S, IsFiniteSet(S), NEW fun, NEW fun2, \A x \in S : fun[x] = fun2[x]
    PROVE  SumFunctionOnSet(fun, S) = SumFunctionOnSet(fun2, S)
  <1>1. PICK g : IsSumming(g, fun, S) /\ SumFunctionOnSet(fun, S) = g[S]
    BY SumIsTheOne
  <1>2. PICK g2 : IsSumming(g2, fun2, S) /\ SumFunctionOnSet(fun2, S) = g2[S]
    BY SumIsTheOne
  <1>. QED
    BY <1>1, <1>2, SumsAgree

LEMMA SumOfNone == \A fun : SumFunctionOnSet(fun, {}) = 0
  <1>. TAKE fun
  <1>1. PICK g : IsSumming(g, fun, {}) /\ SumFunctionOnSet(fun, {}) = g[{}]
    BY SumIsTheOne, FS_EmptySet
  <1>2. Adds(g, fun, {})
    BY <1>1, SumUnfolds, FS_EmptySet
  <1>. QED
    BY <1>1, <1>2 DEF Adds

LEMMA SumOfChosen ==
    ASSUME NEW fun, NEW S, IsFiniteSet(S), S # {}
    PROVE  SumFunctionOnSet(fun, S) = fun[Chosen(S)] + SumFunctionOnSet(fun, S \ {Chosen(S)})
  <1>. DEFINE R == S \ {Chosen(S)}
  <1>0. R \in SUBSET S /\ IsFiniteSet(R)
    BY FS_Subset
  <1>1. PICK g : IsSumming(g, fun, S) /\ SumFunctionOnSet(fun, S) = g[S]
    BY SumIsTheOne
  <1>2. PICK g2 : IsSumming(g2, fun, R) /\ SumFunctionOnSet(fun, R) = g2[R]
    BY <1>0, SumIsTheOne
  <1>3. g[R] = g2[R]
    BY <1>0, <1>1, <1>2, SumsAgree
  <1>4. Adds(g, fun, S)
    BY <1>1, SumUnfolds
  <1>. QED
    BY <1>1, <1>2, <1>3, <1>4 DEF Adds

\* The type of a sum, and that any element may be taken first.
LEMMA SumType ==
    ASSUME NEW fun, NEW S, IsFiniteSet(S), \A x \in S : fun[x] \in Int
    PROVE  SumFunctionOnSet(fun, S) \in Int
  <1>. DEFINE T == {n \in Nat : \A s \in SUBSET S :
                       Cardinality(s) = n => SumFunctionOnSet(fun, s) \in Int}
  <1>1. 0 \in T
    <2>1. \A s \in SUBSET S : Cardinality(s) = 0 => s = {}
      BY FS_Subset, FS_EmptySet
    <2>. QED
      BY <2>1, SumOfNone
  <1>2. ASSUME NEW n \in Nat, n \in T PROVE n + 1 \in T
    <2>1. ASSUME NEW s \in SUBSET S, Cardinality(s) = n + 1
          PROVE  SumFunctionOnSet(fun, s) \in Int
      <3>1. s # {} /\ IsFiniteSet(s)
        BY <2>1, FS_EmptySet, FS_Subset
      <3>2. Chosen(s) \in s /\ Chosen(s) \in S
        BY <3>1, ChosenIsIn
      <3>3. s \ {Chosen(s)} \in SUBSET S /\ Cardinality(s \ {Chosen(s)}) = n
        <4>1. /\ s \ {Chosen(s)} \in SUBSET S /\ Cardinality(s) \in Nat
              /\ Cardinality(s \ {Chosen(s)}) = Cardinality(s) - 1
          BY <3>2, SmallerSubset
        <4>. QED
          BY <2>1, <4>1
      <3>4. SumFunctionOnSet(fun, s \ {Chosen(s)}) \in Int
        BY <1>2, <3>3
      <3>. QED
        BY <3>1, <3>2, <3>4, SumOfChosen
    <2>. QED
      BY <2>1
  <1>3. \A n \in Nat : n \in T
    <2>. HIDE DEF T
    <2>. QED
      BY <1>1, <1>2, SetInduction
  <1>4. Cardinality(S) \in T
    BY <1>3, FS_CardinalityType
  <1>. QED
    BY <1>4

LEMMA SumOfAny ==
    ASSUME NEW fun, NEW S, IsFiniteSet(S), \A x \in S : fun[x] \in Int, NEW a \in S
    PROVE  SumFunctionOnSet(fun, S) = fun[a] + SumFunctionOnSet(fun, S \ {a})
  <1>. DEFINE Sum(s) == SumFunctionOnSet(fun, s)
              T == {n \in Nat : \A s \in SUBSET S : Cardinality(s) = n =>
                       \A x \in s : Sum(s) = fun[x] + Sum(s \ {x})}
  <1>1. 0 \in T
    <2>1. \A s \in SUBSET S : Cardinality(s) = 0 => s = {}
      BY FS_Subset, FS_EmptySet
    <2>. QED
      BY <2>1
  <1>2. ASSUME NEW n \in Nat, n \in T PROVE n + 1 \in T
    <2>1. ASSUME NEW s \in SUBSET S, Cardinality(s) = n + 1, NEW x \in s
          PROVE  Sum(s) = fun[x] + Sum(s \ {x})
      <3>. DEFINE c == Chosen(s)
      <3>1. s # {} /\ IsFiniteSet(s) /\ c \in s
        BY <2>1, FS_Subset, ChosenIsIn
      <3>2. Sum(s) = fun[c] + Sum(s \ {c})
        BY <3>1, SumOfChosen
      <3>. HIDE DEF c
      <3>3. CASE x = c
        BY <3>2, <3>3
      <3>4. CASE x # c
        <4>. DEFINE r == s \ {x, c}
        <4>1. s \ {c} \in SUBSET S /\ Cardinality(s \ {c}) = n /\ x \in s \ {c}
          BY <2>1, <3>1, <3>4, SmallerSubset
        <4>2. s \ {x} \in SUBSET S /\ Cardinality(s \ {x}) = n /\ c \in s \ {x}
          BY <2>1, <3>1, <3>4, SmallerSubset
        <4>3. (s \ {c}) \ {x} = r /\ (s \ {x}) \ {c} = r
          OBVIOUS
        <4>4. Sum(s \ {c}) = fun[x] + Sum(r) /\ Sum(s \ {x}) = fun[c] + Sum(r)
          BY <1>2, <4>1, <4>2, <4>3
        <4>5. Sum(r) \in Int
          <5>1. IsFiniteSet(r) /\ r \subseteq S
            BY FS_Subset
          <5>. QED
            BY <5>1, SumType
        <4>. HIDE DEF Sum, r
        <4>6. fun[x] \in Int /\ fun[c] \in Int
          BY <3>1
        <4>. QED
          BY <3>2, <4>4, <4>5, <4>6
      <3>. QED
        BY <3>3, <3>4
    <2>. QED
      BY <2>1
  <1>3. \A n \in Nat : n \in T
    <2>. HIDE DEF T
    <2>. QED
      BY <1>1, <1>2, SetInduction
  <1>4. Cardinality(S) \in T
    BY <1>3, FS_CardinalityType
  <1>. QED
    BY <1>4

\* An element more, and the sums of a sequence's beginnings.
LEMMA SumWith ==
    ASSUME NEW fun, NEW S, IsFiniteSet(S), NEW a, a \notin S, \A x \in S \cup {a} : fun[x] \in Int
    PROVE  SumFunctionOnSet(fun, S \cup {a}) = fun[a] + SumFunctionOnSet(fun, S)
  <1>1. IsFiniteSet(S \cup {a}) /\ a \in S \cup {a} /\ (S \cup {a}) \ {a} = S
    BY FS_AddElement
  <1>. QED
    BY <1>1, SumOfAny

LEMMA SumOfFirst ==
    ASSUME NEW fun, NEW n \in Nat, \A i \in 1 .. n + 1 : fun[i] \in Int
    PROVE  SumFunctionOnSet(fun, 1 .. n + 1) = SumFunctionOnSet(fun, 1 .. n) + fun[n + 1]
  <1>1. /\ 1 .. n + 1 = (1 .. n) \cup {n + 1} /\ n + 1 \notin 1 .. n
        /\ \A i \in 1 .. n : fun[i] \in Int
    OBVIOUS
  <1>2. IsFiniteSet(1 .. n)
    BY FS_Interval
  <1>3. SumFunctionOnSet(fun, 1 .. n + 1) = fun[n + 1] + SumFunctionOnSet(fun, 1 .. n)
    BY <1>1, <1>2, SumWith
  <1>4. SumFunctionOnSet(fun, 1 .. n) \in Int
    BY <1>1, <1>2, SumType
  <1>. QED
    BY <1>3, <1>4

-----------------------------------------------------------------------------
(* Joined sequences. *)

IsFlat(f, seqs, n) == f = [i \in 1 .. n |-> IF i = 1 THEN seqs[i] ELSE f[i - 1] \o seqs[i]]

LEMMA FlatExists ==
    ASSUME NEW seqs
    PROVE  \A n \in Nat : \E f : IsFlat(f, seqs, n)
  <1>. DEFINE T == {n \in Nat : \E f : IsFlat(f, seqs, n)}
  <1>1. 0 \in T
    <2>1. IsFlat([i \in 1 .. 0 |-> 0], seqs, 0)
      BY DEF IsFlat
    <2>. QED
      BY <2>1
  <1>2. ASSUME NEW n \in Nat, n \in T PROVE n + 1 \in T
    <2>1. PICK f : IsFlat(f, seqs, n)
      BY <1>2
    <2>. DEFINE g == [i \in 1 .. n + 1 |-> IF i <= n THEN f[i]
                                           ELSE IF i = 1 THEN seqs[i] ELSE f[i - 1] \o seqs[i]]
    <2>2. \A i \in 1 .. n : f[i] = IF i = 1 THEN seqs[i] ELSE f[i - 1] \o seqs[i]
      BY <2>1 DEF IsFlat
    <2>3. ASSUME NEW i \in 1 .. n + 1
          PROVE  g[i] = IF i = 1 THEN seqs[i] ELSE g[i - 1] \o seqs[i]
      <3>1. CASE i \in 1 .. n
        <4>1. g[i] = f[i] /\ (i # 1 => g[i - 1] = f[i - 1])
          BY <3>1
        <4>. QED
          BY <2>2, <3>1, <4>1
      <3>2. CASE i = n + 1
        <4>1. i # 1 => g[i - 1] = f[i - 1]
          BY <3>2
        <4>2. g[i] = IF i = 1 THEN seqs[i] ELSE f[i - 1] \o seqs[i]
          BY <3>2
        <4>. QED
          BY <4>1, <4>2
      <3>. QED
        BY <3>1, <3>2
    <2>4. g = [i \in 1 .. n + 1 |-> g[i]]
      OBVIOUS
    <2>. HIDE DEF g
    <2>5. IsFlat(g, seqs, n + 1)
      BY <2>3, <2>4, Zenon DEF IsFlat
    <2>. QED
      BY <2>5
  <1>3. \A n \in Nat : n \in T
    BY <1>1, <1>2, SetInduction
  <1>. QED
    BY <1>3

LEMMA FlatUnfolds ==
    ASSUME NEW seqs, NEW n, NEW f, IsFlat(f, seqs, n)
    PROVE  \A i \in 1 .. n : f[i] = IF i = 1 THEN seqs[i] ELSE f[i - 1] \o seqs[i]
  BY DEF IsFlat

\* The beginnings of two functions that join the same sequences agree.
LEMMA FlatsAgree ==
    ASSUME NEW seqs, NEW m \in Nat, NEW f, IsFlat(f, seqs, m),
           NEW seqs2, NEW m2 \in Nat, NEW f2, IsFlat(f2, seqs2, m2),
           m <= m2, \A i \in 1 .. m : seqs[i] = seqs2[i]
    PROVE  \A i \in 1 .. m : f[i] = f2[i]
  <1>. DEFINE T == {n \in Nat : n \in 1 .. m => f[n] = f2[n]}
  <1>1. 0 \in T
    OBVIOUS
  <1>2. ASSUME NEW n \in Nat, n \in T PROVE n + 1 \in T
    <2>. SUFFICES ASSUME n + 1 \in 1 .. m PROVE f[n + 1] = f2[n + 1]
      OBVIOUS
    <2>1. /\ f[n + 1] = IF n + 1 = 1 THEN seqs[n + 1] ELSE f[n + 1 - 1] \o seqs[n + 1]
          /\ f2[n + 1] = IF n + 1 = 1 THEN seqs2[n + 1] ELSE f2[n + 1 - 1] \o seqs2[n + 1]
      <3>1. n + 1 \in 1 .. m /\ n + 1 \in 1 .. m2
        OBVIOUS
      <3>. QED
        BY <3>1, FlatUnfolds
    <2>2. n + 1 - 1 = n /\ (n + 1 # 1 => n \in 1 .. m)
      OBVIOUS
    <2>. QED
      BY <1>2, <2>1, <2>2
  <1>3. \A n \in Nat : n \in T
    <2>. HIDE DEF T
    <2>. QED
      BY <1>1, <1>2, SetInduction
  <1>. QED
    BY <1>3

LEMMA FlattenIsTheOne ==
    ASSUME NEW S, NEW seqs \in Seq(S), Len(seqs) # 0
    PROVE  \E f : IsFlat(f, seqs, Len(seqs)) /\ FlattenSeq(seqs) = f[Len(seqs)]
  <1>. DEFINE f == CHOOSE g : IsFlat(g, seqs, Len(seqs))
  <1>1. IsFlat(f, seqs, Len(seqs))
    BY FlatExists
  <1>2. FlattenSeq(seqs) = f[Len(seqs)]
    BY DEF FlattenSeq, IsFlat
  <1>. QED
    BY <1>1, <1>2

LEMMA FlattenNone == FlattenSeq(<<>>) = <<>>
  BY DEF FlattenSeq

\* One sequence more, and the type of what is joined.
LEMMA FlattenAppend ==
    ASSUME NEW S, NEW n \in Nat, NEW p \in [1 .. n + 1 -> Seq(S)]
    PROVE  FlattenSeq(p) = FlattenSeq([i \in 1 .. n |-> p[i]]) \o p[n + 1]
  <1>. DEFINE q == [i \in 1 .. n |-> p[i]]
  <1>1. /\ p \in Seq(Seq(S)) /\ Len(p) = n + 1 /\ Len(p) # 0
        /\ q \in Seq(Seq(S)) /\ Len(q) = n
    OBVIOUS
  <1>2. PICK f : IsFlat(f, p, n + 1) /\ FlattenSeq(p) = f[n + 1]
    BY <1>1, FlattenIsTheOne
  <1>3. f[n + 1] = IF n + 1 = 1 THEN p[n + 1] ELSE f[n + 1 - 1] \o p[n + 1]
    <2>1. n + 1 \in 1 .. n + 1
      OBVIOUS
    <2>. QED
      BY <1>2, <2>1, FlatUnfolds
  <1>4. CASE n = 0
    <2>1. q = <<>> /\ p[n + 1] \in Seq(S)
      BY <1>4
    <2>2. FlattenSeq(q) = <<>>
      BY <2>1, FlattenNone
    <2>3. FlattenSeq(p) = p[n + 1]
      BY <1>2, <1>3, <1>4
    <2>. QED
      BY <2>1, <2>2, <2>3, ConcatEmptySeq
  <1>5. CASE n # 0
    <2>1. PICK g : IsFlat(g, q, n) /\ FlattenSeq(q) = g[n]
      BY <1>1, <1>5, FlattenIsTheOne
    <2>2. \A i \in 1 .. n : q[i] = p[i]
      OBVIOUS
    <2>. HIDE DEF q
    <2>3. g[n] = f[n]
      <3>1. n + 1 \in Nat /\ n <= n + 1 /\ n <= n /\ n \in 1 .. n
        BY <1>5
      <3>2. \A i \in 1 .. n : g[i] = f[i]
        BY <1>2, <2>1, <2>2, <3>1, FlatsAgree
      <3>. QED
        BY <3>1, <3>2
    <2>4. FlattenSeq(p) = f[n] \o p[n + 1]
      <3>1. n + 1 # 1 /\ n + 1 - 1 = n
        BY <1>5
      <3>. QED
        BY <1>2, <1>3, <3>1, Zenon
    <2>. QED
      BY <2>1, <2>3, <2>4 DEF q
  <1>. QED
    BY <1>4, <1>5

LEMMA FlattenType ==
    ASSUME NEW S, NEW n \in Nat, NEW p \in [1 .. n -> Seq(S)]
    PROVE  FlattenSeq(p) \in Seq(S)
  <1>. DEFINE q(k) == [i \in 1 .. k |-> p[i]]
              T == {k \in Nat : k <= n => FlattenSeq(q(k)) \in Seq(S)}
  <1>1. 0 \in T
    <2>1. q(0) = <<>>
      OBVIOUS
    <2>2. FlattenSeq(q(0)) = <<>>
      BY <2>1, FlattenNone, Zenon
    <2>3. FlattenSeq(q(0)) \in Seq(S)
      BY <2>2, EmptySeq
    <2>. HIDE DEF q
    <2>. QED
      BY <2>3
  <1>2. ASSUME NEW k \in Nat, k \in T PROVE k + 1 \in T
    <2>. SUFFICES ASSUME k + 1 <= n PROVE FlattenSeq(q(k + 1)) \in Seq(S)
      OBVIOUS
    <2>1. q(k + 1) \in [1 .. k + 1 -> Seq(S)]
      OBVIOUS
    <2>2. q(k) = [i \in 1 .. k |-> q(k + 1)[i]] /\ q(k + 1)[k + 1] \in Seq(S)
      OBVIOUS
    <2>3. FlattenSeq(q(k)) \in Seq(S)
      BY <1>2
    <2>. HIDE DEF q
    <2>4. FlattenSeq(q(k + 1)) = FlattenSeq(q(k)) \o q(k + 1)[k + 1]
      BY <2>1, <2>2, FlattenAppend
    <2>5. FlattenSeq(q(k)) \o q(k + 1)[k + 1] \in Seq(S)
      BY <2>2, <2>3, ConcatProperties
    <2>. QED
      BY <2>4, <2>5
  <1>3. \A k \in Nat : k \in T
    <2>. HIDE DEF T
    <2>. QED
      BY <1>1, <1>2, SetInduction
  <1>4. q(n) = p
    OBVIOUS
  <1>. QED
    BY <1>3, <1>4
============================================================================
