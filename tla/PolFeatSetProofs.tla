-------------------------- MODULE PolFeatSetProofs --------------------------
(***************************************************************************)
(* What the operations of IMPoly compute, for all polynomials: the         *)
(* invariants of PolFeatSet, max, and that PolFeatSet implements CostSpec. *)
(*                                                                         *)
(* The cost of a polynomial is a sum over its terms, and a term's a        *)
(* product over the invariants.  Both are folds of a finite set, which     *)
(* take its elements in an order nobody knows: the first part shows that   *)
(* the order does not matter (FoldStep), and with it that sums are linear, *)
(* monotone and multiply out (SumLinear, SumAtMost, SumPairs, SumFibers).  *)
(***************************************************************************)
EXTENDS PolFeatSet, FiniteSetTheorems, WellFoundedInduction, TLAPS

LEMMA LeastNatural ==
  ASSUME NEW S \in SUBSET Nat, S # {}
  PROVE  \E n \in S : \A m \in S : n <= m
<1> DEFINE Below == {p \in Nat \X Nat : p[1] < p[2]}
<1>1. IsWellFoundedOn(Below, Nat) BY NatLessThanWellFounded DEF OpToRel
<1>2. PICK n \in S : \A m \in S : <<m, n>> \notin Below
  <2> HIDE DEF Below
  <2> QED BY <1>1, WFMin
<1>3. ASSUME NEW m \in S PROVE n <= m
  <2>1. m \in Nat /\ n \in Nat /\ ~(m < n) BY <1>2
  <2> QED BY <2>1
<1> QED BY <1>3

(* A nonempty set of finite sets has a smallest one.                         *)
LEMMA SmallestSet ==
  ASSUME NEW S, IsFiniteSet(S), NEW B \in SUBSET (SUBSET S), B # {}
  PROVE  \E T \in B : \A x \in T : T \ {x} \notin B
<1> DEFINE Sizes == {Cardinality(T) : T \in B}
<1>1. \A T \in SUBSET S : IsFiniteSet(T) /\ Cardinality(T) \in Nat
  BY FS_Subset, FS_CardinalityType
<1>2. Sizes \in SUBSET Nat /\ Sizes # {} BY <1>1
<1>3. PICK n \in Sizes : \A m \in Sizes : n <= m
  <2> HIDE DEF Sizes
  <2> QED BY <1>2, LeastNatural
<1>4. PICK T \in B : n = Cardinality(T) BY <1>3
<1>5. ASSUME NEW x \in T, T \ {x} \in B PROVE FALSE
  <2>1. Cardinality(T \ {x}) = Cardinality(T) - 1 BY <1>1, FS_RemoveElement
  <2>2. n <= Cardinality(T \ {x}) BY <1>3, <1>5
  <2>3. n \in Nat BY <1>2
  <2> QED BY <1>4, <2>1, <2>2, <2>3
<1> QED BY <1>5

(* Induction over a finite set: G holds the subsets a claim is true of.      *)
LEMMA SetInduction ==
  ASSUME NEW S, IsFiniteSet(S), NEW G, {} \in G,
         \A T \in SUBSET S : \A x \in S \ T : T \in G => T \cup {x} \in G
  PROVE  S \in G
<1> DEFINE Fails == {T \in SUBSET S : T \notin G}
<1>1. SUFFICES ASSUME Fails # {} PROVE FALSE OBVIOUS
<1>2. PICK T \in Fails : \A x \in T : T \ {x} \notin Fails
  <2> HIDE DEF Fails
  <2>1. Fails \in SUBSET (SUBSET S) BY DEF Fails
  <2> QED BY <1>1, <2>1, SmallestSet
<1>3. PICK x \in T : TRUE OBVIOUS
<1>4. T \ {x} \in SUBSET S /\ x \in S \ (T \ {x}) /\ (T \ {x}) \cup {x} = T OBVIOUS
<1>5. T \ {x} \in G BY <1>2, <1>4
<1> QED BY <1>4, <1>5

-----------------------------------------------------------------------------
(* The function by which a fold over S goes, for an operation on integers    *)
(* that is given as a function.                                              *)
Chosen(s) == CHOOSE t \in s : TRUE
IsFold(it, op, base, f, S) ==
  /\ it \in [SUBSET S -> Int]
  /\ it[{}] = base
  /\ \A s \in SUBSET S : s # {} => it[s] = op[<<f[Chosen(s)], it[s \ {Chosen(s)}]>>]

(* A function that goes the same way as long as its values are integers.     *)
Follows(j, op, base, f, S) ==
  /\ j[{}] = base
  /\ \A s \in SUBSET S :
       s # {} /\ j[s \ {Chosen(s)}] \in Int
         => j[s] = op[<<f[Chosen(s)], j[s \ {Chosen(s)}]>>]

(* The order in which two integers are folded in does not matter.            *)
Commutes(op) == \A a, b, c \in Int : op[<<a, op[<<b, c>>]>>] = op[<<b, op[<<a, c>>]>>]

LEMMA ChosenIn ==
  ASSUME NEW S, NEW s \in SUBSET S, s # {}
  PROVE  Chosen(s) \in s /\ Chosen(s) \in S /\ s \ {Chosen(s)} \in SUBSET S
BY DEF Chosen

LEMMA FoldExists ==
  ASSUME NEW S, IsFiniteSet(S), NEW op \in [Int \X Int -> Int], NEW base \in Int,
         NEW f, \A x \in S : f[x] \in Int
  PROVE  \E it : IsFold(it, op, base, f, S)
<1> DEFINE Upto(it, n) ==
             /\ it[{}] = base
             /\ \A s \in SUBSET S : s # {} /\ Cardinality(s) <= n =>
                  it[s] = op[<<f[Chosen(s)], it[s \ {Chosen(s)}]>>]
           N == Cardinality(S)
           Bad == {n \in 0..N : ~\E it \in [SUBSET S -> Int] : Upto(it, n)}
<1>1. /\ N \in Nat
      /\ \A s \in SUBSET S : IsFiniteSet(s) /\ Cardinality(s) \in 0..N
      /\ \A s \in SUBSET S : s # {} => Cardinality(s) # 0
  BY FS_Subset, FS_CardinalityType, FS_EmptySet
<1>2. SUFFICES ASSUME Bad # {} PROVE FALSE
  <2>1. N \in 0..N BY <1>1
  <2>2. PICK it \in [SUBSET S -> Int] : Upto(it, N) BY <1>2, <2>1
  <2>3. ASSUME NEW s \in SUBSET S, s # {}
        PROVE  it[s] = op[<<f[Chosen(s)], it[s \ {Chosen(s)}]>>]
    <3>1. Cardinality(s) <= N BY <1>1
    <3> QED BY <2>2, <2>3, <3>1
  <2> QED BY <2>2, <2>3 DEF IsFold
<1>3. PICK n \in Bad : \A m \in Bad : n <= m
  <2> HIDE DEF Bad
  <2>1. Bad \in SUBSET Nat BY DEF Bad
  <2> QED BY <1>2, <2>1, LeastNatural
<1>4. n # 0
  <2> DEFINE z == [s \in SUBSET S |-> base]
  <2>1. z \in [SUBSET S -> Int] OBVIOUS
  <2>2. z[{}] = base OBVIOUS
  <2>3. \A s \in SUBSET S : s # {} => ~(Cardinality(s) <= 0) BY <1>1
  <2>4. Upto(z, 0) BY <2>2, <2>3
  <2> HIDE DEF z, Upto
  <2> QED BY <2>1, <2>4
<1>5. n \in 0..N /\ n - 1 \in 0..N /\ n - 1 \notin Bad
  <2>1. n \in 0..N OBVIOUS
  <2>2. n - 1 \in 0..N BY <1>1, <1>4, <2>1
  <2>3. ~(n <= n - 1) BY <2>1
  <2> HIDE DEF Bad
  <2> QED BY <1>3, <2>1, <2>2, <2>3
<1>6. PICK i \in [SUBSET S -> Int] : Upto(i, n - 1) BY <1>5
<1> DEFINE next(s) == op[<<f[Chosen(s)], i[s \ {Chosen(s)}]>>]
           j == [s \in SUBSET S |-> IF Cardinality(s) = n THEN next(s) ELSE i[s]]
<1>7. \A s \in SUBSET S : s # {} => next(s) \in Int
  BY ChosenIn
<1>8. Cardinality({}) = 0 BY FS_EmptySet
<1>9. j \in [SUBSET S -> Int]
  <2>1. \A s \in SUBSET S : Cardinality(s) = n => s # {} BY <1>4, <1>8
  <2> HIDE DEF next
  <2> QED BY <1>7, <2>1
<1>10. Upto(j, n)
  <2>1. j[{}] = base BY <1>4, <1>6, <1>8
  <2>2. ASSUME NEW s \in SUBSET S, s # {}, Cardinality(s) <= n
        PROVE  j[s] = op[<<f[Chosen(s)], j[s \ {Chosen(s)}]>>]
    <3>1. Chosen(s) \in s /\ s \ {Chosen(s)} \in SUBSET S BY <2>2, ChosenIn
    <3>2. Cardinality(s \ {Chosen(s)}) = Cardinality(s) - 1 BY <1>1, <3>1, FS_RemoveElement
    <3>3. Cardinality(s \ {Chosen(s)}) # n BY <1>1, <1>5, <2>2, <3>2
    <3>4. j[s \ {Chosen(s)}] = i[s \ {Chosen(s)}] BY <3>1, <3>3
    <3>5. CASE Cardinality(s) = n BY <3>4, <3>5
    <3>6. CASE Cardinality(s) # n
      <4>1. Cardinality(s) <= n - 1 BY <1>1, <1>5, <2>2, <3>6
      <4>2. j[s] = i[s] BY <3>6
      <4>3. i[s] = next(s) BY <1>6, <2>2, <4>1
      <4> QED BY <3>4, <4>2, <4>3
    <3> QED BY <3>5, <3>6
  <2> HIDE DEF j
  <2> QED BY <2>1, <2>2
<1> HIDE DEF j, Upto
<1> QED BY <1>3, <1>9, <1>10

LEMMA FoldUnique ==
  ASSUME NEW S, IsFiniteSet(S), NEW op, NEW base, NEW f,
         NEW i, IsFold(i, op, base, f, S),
         NEW j, Follows(j, op, base, f, S)
  PROVE  \A s \in SUBSET S : j[s] = i[s]
<1> DEFINE Fails == {s \in SUBSET S : j[s] # i[s]}
<1>1. SUFFICES ASSUME Fails # {} PROVE FALSE OBVIOUS
<1>2. PICK s \in Fails : \A x \in s : s \ {x} \notin Fails
  <2>1. Fails \in SUBSET (SUBSET S) OBVIOUS
  <2> HIDE DEF Fails
  <2> QED BY <1>1, <2>1, SmallestSet
<1>3. s \in SUBSET S /\ s # {} /\ j[s] # i[s] BY DEF IsFold, Follows
<1>4. Chosen(s) \in s /\ s \ {Chosen(s)} \in SUBSET S BY <1>3, ChosenIn
<1>5. j[s \ {Chosen(s)}] = i[s \ {Chosen(s)}] BY <1>2, <1>4
<1>6. i[s \ {Chosen(s)}] \in Int BY <1>4 DEF IsFold
<1>7. i[s] = op[<<f[Chosen(s)], i[s \ {Chosen(s)}]>>] BY <1>3 DEF IsFold
<1> QED BY <1>3, <1>5, <1>6, <1>7 DEF Follows

LEMMA FoldStep ==
  ASSUME NEW S, IsFiniteSet(S), NEW op, NEW base, NEW f,
         \A x \in S : f[x] \in Int,
         Commutes(op),
         NEW i, IsFold(i, op, base, f, S)
  PROVE  \A s \in SUBSET S : \A x \in s : i[s] = op[<<f[x], i[s \ {x}]>>]
<1> DEFINE Good(s) == \A x \in s : i[s] = op[<<f[x], i[s \ {x}]>>]
           Fails == {s \in SUBSET S : ~Good(s)}
<1>1. SUFFICES ASSUME Fails # {} PROVE FALSE OBVIOUS
<1>2. PICK s \in Fails : \A x \in s : s \ {x} \notin Fails
  <2>1. Fails \in SUBSET (SUBSET S) OBVIOUS
  <2> HIDE DEF Fails
  <2> QED BY <1>1, <2>1, SmallestSet
<1>3. PICK x \in s : i[s] # op[<<f[x], i[s \ {x}]>>] OBVIOUS
<1> DEFINE c == Chosen(s)
           r == (s \ {x}) \ {c}
<1>4. s \in SUBSET S /\ c \in s /\ i[s] = op[<<f[c], i[s \ {c}]>>]
  BY <1>3, ChosenIn DEF IsFold
<1>5. x # c BY <1>3, <1>4
<1> HIDE DEF c
<1>6. Good(s \ {x}) /\ Good(s \ {c}) BY <1>2, <1>4
<1>7. r = (s \ {c}) \ {x} /\ c \in s \ {x} /\ x \in s \ {c} BY <1>4, <1>5
<1>8. i[s \ {x}] = op[<<f[c], i[r]>>] BY <1>6, <1>7
<1>9. i[s \ {c}] = op[<<f[x], i[r]>>] BY <1>6, <1>7
<1>10. f[x] \in Int /\ f[c] \in Int /\ i[r] \in Int BY <1>4 DEF IsFold
<1>11. op[<<f[c], op[<<f[x], i[r]>>]>>] = op[<<f[x], op[<<f[c], i[r]>>]>>]
  BY <1>10 DEF Commutes
<1> QED BY <1>3, <1>4, <1>8, <1>9, <1>11

-----------------------------------------------------------------------------
Sum(f, S) == SumFunctionOnSet(f, S)
Prod(f, S) == FoldFunctionOnSet(LAMBDA a, b : a * b, 1, f, S)
Plus == [t \in Int \X Int |-> t[1] + t[2]]
Mult == [t \in Int \X Int |-> t[1] * t[2]]

LEMMA SumFold ==
  ASSUME NEW S, IsFiniteSet(S), NEW f, \A x \in S : f[x] \in Int
  PROVE  \E i : IsFold(i, Plus, 0, f, S) /\ Sum(f, S) = i[S]
<1> DEFINE Step(i) ==
      i = [s \in SUBSET S |-> IF s = {} THEN 0 ELSE f[Chosen(s)] + i[s \ {Chosen(s)}]]
<1>1. PICK i : IsFold(i, Plus, 0, f, S)
  <2>1. Plus \in [Int \X Int -> Int] BY DEF Plus
  <2> QED BY <2>1, FoldExists
<1>2. Step(i)
  <2>1. ASSUME NEW s \in SUBSET S, s # {}
        PROVE  i[s] = f[Chosen(s)] + i[s \ {Chosen(s)}]
    <3>1. i[s] = Plus[<<f[Chosen(s)], i[s \ {Chosen(s)}]>>] BY <1>1, <2>1 DEF IsFold
    <3>2. f[Chosen(s)] \in Int /\ i[s \ {Chosen(s)}] \in Int
      BY <1>1, <2>1, ChosenIn DEF IsFold
    <3> QED BY <3>1, <3>2 DEF Plus
  <2>2. i \in [SUBSET S -> Int] /\ i[{}] = 0 BY <1>1 DEF IsFold
  <2> QED BY <2>1, <2>2
<1> DEFINE j == CHOOSE k : Step(k)
<1>3. Sum(f, S) = j[S]
  BY DEF Sum, SumFunctionOnSet, FoldFunctionOnSet, MapThenFoldSet, Chosen
<1>4. Step(j) BY <1>2
<1> HIDE DEF j
<1>5. \A s \in SUBSET S : j[s] = i[s]
  <2>1. j[{}] = 0 BY <1>4
  <2>2. ASSUME NEW s \in SUBSET S, s # {}, j[s \ {Chosen(s)}] \in Int
        PROVE  j[s] = Plus[<<f[Chosen(s)], j[s \ {Chosen(s)}]>>]
    <3>1. j[s] = f[Chosen(s)] + j[s \ {Chosen(s)}] BY <1>4, <2>2
    <3>2. f[Chosen(s)] \in Int BY <2>2, ChosenIn
    <3> QED BY <2>2, <3>1, <3>2 DEF Plus
  <2>3. Follows(j, Plus, 0, f, S) BY <2>1, <2>2 DEF Follows
  <2> HIDE DEF Step
  <2> QED BY <1>1, <2>3, FoldUnique
<1>6. j[S] = i[S] BY <1>5
<1> QED BY <1>1, <1>3, <1>6

LEMMA ProdFold ==
  ASSUME NEW S, IsFiniteSet(S), NEW f, \A x \in S : f[x] \in Int
  PROVE  \E i : IsFold(i, Mult, 1, f, S) /\ Prod(f, S) = i[S]
<1> DEFINE Step(i) ==
      i = [s \in SUBSET S |-> IF s = {} THEN 1 ELSE f[Chosen(s)] * i[s \ {Chosen(s)}]]
<1>1. PICK i : IsFold(i, Mult, 1, f, S)
  <2>1. Mult \in [Int \X Int -> Int] BY DEF Mult
  <2> QED BY <2>1, FoldExists
<1>2. Step(i)
  <2>1. ASSUME NEW s \in SUBSET S, s # {}
        PROVE  i[s] = f[Chosen(s)] * i[s \ {Chosen(s)}]
    <3>1. i[s] = Mult[<<f[Chosen(s)], i[s \ {Chosen(s)}]>>] BY <1>1, <2>1 DEF IsFold
    <3>2. f[Chosen(s)] \in Int /\ i[s \ {Chosen(s)}] \in Int
      BY <1>1, <2>1, ChosenIn DEF IsFold
    <3> QED BY <3>1, <3>2 DEF Mult
  <2>2. i \in [SUBSET S -> Int] /\ i[{}] = 1 BY <1>1 DEF IsFold
  <2> QED BY <2>1, <2>2
<1> DEFINE j == CHOOSE k : Step(k)
<1>3. Prod(f, S) = j[S]
  BY DEF Prod, FoldFunctionOnSet, MapThenFoldSet, Chosen
<1>4. Step(j) BY <1>2
<1> HIDE DEF j
<1>5. \A s \in SUBSET S : j[s] = i[s]
  <2>1. j[{}] = 1 BY <1>4
  <2>2. ASSUME NEW s \in SUBSET S, s # {}, j[s \ {Chosen(s)}] \in Int
        PROVE  j[s] = Mult[<<f[Chosen(s)], j[s \ {Chosen(s)}]>>]
    <3>1. j[s] = f[Chosen(s)] * j[s \ {Chosen(s)}] BY <1>4, <2>2
    <3>2. f[Chosen(s)] \in Int BY <2>2, ChosenIn
    <3> QED BY <2>2, <3>1, <3>2 DEF Mult
  <2>3. Follows(j, Mult, 1, f, S) BY <2>1, <2>2 DEF Follows
  <2> HIDE DEF Step
  <2> QED BY <1>1, <2>3, FoldUnique
<1>6. j[S] = i[S] BY <1>5
<1> QED BY <1>1, <1>3, <1>6

(* The fold of a subset is the value of the fold's function at it.           *)
LEMMA FoldOfSubset ==
  ASSUME NEW S, IsFiniteSet(S), NEW T \in SUBSET S, NEW op, NEW base, NEW f,
         NEW i, IsFold(i, op, base, f, S), NEW j, IsFold(j, op, base, f, T)
  PROVE  j[T] = i[T]
<1>1. IsFiniteSet(T) BY FS_Subset
<1>2. \A s \in SUBSET T : i[s] = j[s]
  <2>1. i[{}] = base BY DEF IsFold
  <2>2. Follows(i, op, base, f, T) BY <2>1 DEF IsFold, Follows
  <2> QED BY <1>1, <2>2, FoldUnique
<1> QED BY <1>2

(* A sum is an integer, and grows by the value of an added element.          *)
LEMMA SumIs ==
  ASSUME NEW S, IsFiniteSet(S), NEW f, \A x \in S : f[x] \in Int
  PROVE  /\ Sum(f, S) \in Int
         /\ Sum(f, {}) = 0
         /\ \A T \in SUBSET S : \A x \in S \ T : Sum(f, T \cup {x}) = f[x] + Sum(f, T)
         /\ \A T \in SUBSET S : Sum(f, T) \in Int
<1>1. PICK i : IsFold(i, Plus, 0, f, S) BY SumFold
<1>2. \A T \in SUBSET S : Sum(f, T) = i[T]
  <2> TAKE T \in SUBSET S
  <2>1. IsFiniteSet(T) BY FS_Subset
  <2>2. PICK j : IsFold(j, Plus, 0, f, T) /\ Sum(f, T) = j[T] BY <2>1, SumFold
  <2>3. j[T] = i[T] BY <1>1, <2>2, FoldOfSubset
  <2> QED BY <2>2, <2>3
<1>3. Commutes(Plus) BY DEF Plus, Commutes
<1>4. \A s \in SUBSET S : \A x \in s : i[s] = Plus[<<f[x], i[s \ {x}]>>]
  BY <1>1, <1>3, FoldStep
<1>5. \A T \in SUBSET S : i[T] \in Int BY <1>1 DEF IsFold
<1>6. ASSUME NEW T \in SUBSET S, NEW x \in S \ T
      PROVE  Sum(f, T \cup {x}) = f[x] + Sum(f, T)
  <2>1. T \cup {x} \in SUBSET S /\ (T \cup {x}) \ {x} = T /\ x \in T \cup {x} OBVIOUS
  <2>2. i[T \cup {x}] = Plus[<<f[x], i[T]>>] BY <1>4, <2>1
  <2>3. f[x] \in Int /\ i[T] \in Int BY <1>5
  <2>4. i[T \cup {x}] = f[x] + i[T] BY <2>2, <2>3 DEF Plus
  <2> QED BY <1>2, <2>1, <2>4
<1>7. Sum(f, {}) = 0 BY <1>1, <1>2 DEF IsFold
<1> QED BY <1>2, <1>5, <1>6, <1>7

LEMMA ProdIs ==
  ASSUME NEW S, IsFiniteSet(S), NEW f, \A x \in S : f[x] \in Int
  PROVE  /\ Prod(f, S) \in Int
         /\ Prod(f, {}) = 1
         /\ \A T \in SUBSET S : \A x \in S \ T : Prod(f, T \cup {x}) = f[x] * Prod(f, T)
         /\ \A T \in SUBSET S : Prod(f, T) \in Int
<1>1. PICK i : IsFold(i, Mult, 1, f, S) BY ProdFold
<1>2. \A T \in SUBSET S : Prod(f, T) = i[T]
  <2> TAKE T \in SUBSET S
  <2>1. IsFiniteSet(T) BY FS_Subset
  <2>2. PICK j : IsFold(j, Mult, 1, f, T) /\ Prod(f, T) = j[T] BY <2>1, ProdFold
  <2>3. j[T] = i[T] BY <1>1, <2>2, FoldOfSubset
  <2> QED BY <2>2, <2>3
<1>3. Commutes(Mult)
  <2>1. \A a, b, c \in Int : a * (b * c) = b * (a * c) OBVIOUS
  <2>2. \A a, b \in Int : Mult[<<a, b>>] = a * b /\ a * b \in Int BY DEF Mult
  <2> QED BY <2>1, <2>2 DEF Commutes
<1>4. \A s \in SUBSET S : \A x \in s : i[s] = Mult[<<f[x], i[s \ {x}]>>]
  BY <1>1, <1>3, FoldStep
<1>5. \A T \in SUBSET S : i[T] \in Int BY <1>1 DEF IsFold
<1>6. ASSUME NEW T \in SUBSET S, NEW x \in S \ T
      PROVE  Prod(f, T \cup {x}) = f[x] * Prod(f, T)
  <2>1. T \cup {x} \in SUBSET S /\ (T \cup {x}) \ {x} = T /\ x \in T \cup {x} OBVIOUS
  <2>2. i[T \cup {x}] = Mult[<<f[x], i[T]>>] BY <1>4, <2>1
  <2>3. f[x] \in Int /\ i[T] \in Int BY <1>5
  <2>4. i[T \cup {x}] = f[x] * i[T] BY <2>2, <2>3 DEF Mult
  <2> QED BY <1>2, <2>1, <2>4
<1>7. Prod(f, {}) = 1 BY <1>1, <1>2 DEF IsFold
<1> QED BY <1>2, <1>5, <1>6, <1>7

-----------------------------------------------------------------------------
(* Sums are linear, monotone, and add up over disjoint sets.                 *)
LEMMA SumLinear ==
  ASSUME NEW S, IsFiniteSet(S), NEW f, NEW g, NEW h, NEW k \in Int,
         \A x \in S : f[x] \in Int /\ g[x] \in Int /\ h[x] = f[x] + k * g[x]
  PROVE  Sum(h, S) = Sum(f, S) + k * Sum(g, S)
<1> DEFINE G == {T \in SUBSET S : Sum(h, T) = Sum(f, T) + k * Sum(g, T)}
<1>1. /\ \A x \in S : f[x] \in Int
      /\ \A x \in S : g[x] \in Int
      /\ \A x \in S : h[x] \in Int
  OBVIOUS
<1>2. {} \in G
  <2>1. Sum(h, {}) = 0 /\ Sum(f, {}) = 0 /\ Sum(g, {}) = 0 BY <1>1, SumIs
  <2> QED BY <2>1
<1>3. ASSUME NEW T \in SUBSET S, NEW x \in S \ T, T \in G PROVE T \cup {x} \in G
  <2>1. Sum(h, T) = Sum(f, T) + k * Sum(g, T) BY <1>3
  <2>2. Sum(h, T \cup {x}) = h[x] + Sum(h, T) BY <1>1, SumIs
  <2>3. Sum(f, T \cup {x}) = f[x] + Sum(f, T) /\ Sum(f, T) \in Int BY <1>1, SumIs
  <2>4. Sum(g, T \cup {x}) = g[x] + Sum(g, T) /\ Sum(g, T) \in Int BY <1>1, SumIs
  <2>5. f[x] \in Int /\ g[x] \in Int /\ h[x] = f[x] + k * g[x] OBVIOUS
  <2>6. \A a, b \in Int : k * (a + b) = k * a + k * b OBVIOUS
  <2>7. k * (g[x] + Sum(g, T)) = k * g[x] + k * Sum(g, T) BY <2>4, <2>5, <2>6
  <2>8. k * g[x] \in Int /\ k * Sum(g, T) \in Int BY <2>4, <2>5
  <2>9. Sum(h, T \cup {x}) = Sum(f, T \cup {x}) + k * Sum(g, T \cup {x})
    BY <2>1, <2>2, <2>3, <2>4, <2>5, <2>7, <2>8
  <2> QED BY <2>9
<1>4. S \in G
  <2> HIDE DEF G
  <2> QED BY <1>2, <1>3, SetInduction
<1> QED BY <1>4

LEMMA SumAtMost ==
  ASSUME NEW S, IsFiniteSet(S), NEW f, NEW g,
         \A x \in S : f[x] \in Int /\ g[x] \in Int /\ f[x] <= g[x]
  PROVE  Sum(f, S) <= Sum(g, S)
<1> DEFINE G == {T \in SUBSET S : Sum(f, T) <= Sum(g, T)}
<1>1. /\ \A x \in S : f[x] \in Int
      /\ \A x \in S : g[x] \in Int
  OBVIOUS
<1>2. {} \in G
  <2>1. Sum(f, {}) = 0 /\ Sum(g, {}) = 0 BY <1>1, SumIs
  <2> QED BY <2>1
<1>3. ASSUME NEW T \in SUBSET S, NEW x \in S \ T, T \in G PROVE T \cup {x} \in G
  <2>1. Sum(f, T \cup {x}) = f[x] + Sum(f, T) /\ Sum(f, T) \in Int BY <1>1, SumIs
  <2>2. Sum(g, T \cup {x}) = g[x] + Sum(g, T) /\ Sum(g, T) \in Int BY <1>1, SumIs
  <2>3. f[x] \in Int /\ g[x] \in Int /\ f[x] <= g[x] OBVIOUS
  <2>4. Sum(f, T \cup {x}) <= Sum(g, T \cup {x}) BY <1>3, <2>1, <2>2, <2>3
  <2> QED BY <2>4
<1>4. S \in G
  <2> HIDE DEF G
  <2> QED BY <1>2, <1>3, SetInduction
<1> QED BY <1>4

LEMMA SumSame ==
  ASSUME NEW S, IsFiniteSet(S), NEW f, NEW g, \A x \in S : f[x] \in Int /\ g[x] = f[x]
  PROVE  Sum(f, S) = Sum(g, S)
<1>1. Sum(f, S) <= Sum(g, S) BY SumAtMost
<1>2. Sum(g, S) <= Sum(f, S) BY SumAtMost
<1>3. Sum(f, S) \in Int /\ Sum(g, S) \in Int BY SumIs
<1> QED BY <1>1, <1>2, <1>3

LEMMA SumUnion ==
  ASSUME NEW S, NEW R, IsFiniteSet(S), IsFiniteSet(R), S \cap R = {},
         NEW f, \A x \in S \cup R : f[x] \in Int
  PROVE  Sum(f, S \cup R) = Sum(f, S) + Sum(f, R)
<1> DEFINE G == {T \in SUBSET R : Sum(f, S \cup T) = Sum(f, S) + Sum(f, T)}
           U == S \cup R
<1>1. IsFiniteSet(U) BY FS_Union
<1>2. /\ \A x \in U : f[x] \in Int
      /\ S \in SUBSET U
  OBVIOUS
<1>3. {} \in G
  <2>1. Sum(f, {}) = 0 /\ Sum(f, S) \in Int BY SumIs
  <2>2. S \cup {} = S OBVIOUS
  <2> QED BY <2>1, <2>2
<1>4. ASSUME NEW T \in SUBSET R, NEW x \in R \ T, T \in G PROVE T \cup {x} \in G
  <2> HIDE DEF U
  <2>1. S \cup T \in SUBSET U /\ T \in SUBSET U /\ x \in U \ T /\ x \in U \ (S \cup T) BY DEF U
  <2>2. Sum(f, (S \cup T) \cup {x}) = f[x] + Sum(f, S \cup T)
    <3>1. PICK V : V = S \cup T OBVIOUS
    <3>2. V \in SUBSET U /\ x \in U \ V BY <2>1, <3>1
    <3>3. Sum(f, V \cup {x}) = f[x] + Sum(f, V) BY <1>1, <1>2, <3>2, SumIs
    <3> QED BY <3>1, <3>3, Zenon
  <2>3. Sum(f, T \cup {x}) = f[x] + Sum(f, T) BY <1>1, <1>2, <2>1, SumIs
  <2>4. Sum(f, S) \in Int /\ Sum(f, T) \in Int /\ f[x] \in Int BY <1>1, <1>2, <2>1, SumIs
  <2>5. Sum(f, (S \cup T) \cup {x}) = Sum(f, S \cup (T \cup {x}))
    <3>1. (S \cup T) \cup {x} = S \cup (T \cup {x}) OBVIOUS
    <3> QED BY <3>1, Zenon
  <2>6. Sum(f, S \cup (T \cup {x})) = Sum(f, S) + Sum(f, T \cup {x})
    BY <1>4, <2>2, <2>3, <2>4, <2>5
  <2> QED BY <2>6
<1>5. R \in G
  <2> HIDE DEF G
  <2> QED BY <1>3, <1>4, SetInduction
<1> QED BY <1>5

LEMMA SumOne ==
  ASSUME NEW x, NEW f, f[x] \in Int
  PROVE  Sum(f, {x}) = f[x]
<1>1. IsFiniteSet({x}) /\ \A y \in {x} : f[y] \in Int BY FS_Singleton
<1>2. PICK S : S = {x} OBVIOUS
<1>3. IsFiniteSet(S) /\ \A y \in S : f[y] \in Int BY <1>1, <1>2
<1>4. {} \in SUBSET S /\ x \in S \ {} BY <1>2
<1>5. Sum(f, {} \cup {x}) = f[x] + Sum(f, {}) /\ Sum(f, {}) = 0
  BY <1>3, <1>4, SumIs
<1>6. Sum(f, {} \cup {x}) = Sum(f, {x})
  <2>1. {} \cup {x} = {x} OBVIOUS
  <2> QED BY <2>1, Zenon
<1> QED BY <1>5, <1>6

LEMMA SumOfZeros ==
  ASSUME NEW S, IsFiniteSet(S), NEW f, \A x \in S : f[x] = 0
  PROVE  Sum(f, S) = 0
<1> DEFINE G == {T \in SUBSET S : Sum(f, T) = 0}
<1>1. \A x \in S : f[x] \in Int OBVIOUS
<1>2. {} \in G BY <1>1, SumIs
<1>3. ASSUME NEW T \in SUBSET S, NEW x \in S \ T, T \in G PROVE T \cup {x} \in G
  <2>1. Sum(f, T \cup {x}) = f[x] + Sum(f, T) BY <1>1, SumIs
  <2> QED BY <1>3, <2>1
<1>4. S \in G
  <2> HIDE DEF G
  <2> QED BY <1>2, <1>3, SetInduction
<1> QED BY <1>4

LEMMA SumExtend ==
  ASSUME NEW S, IsFiniteSet(S), NEW T \in SUBSET S, NEW f,
         \A x \in S : f[x] \in Int, \A x \in S \ T : f[x] = 0
  PROVE  Sum(f, S) = Sum(f, T)
<1> DEFINE R == S \ T
<1>1. IsFiniteSet(T) /\ IsFiniteSet(R) BY FS_Subset
<1>2. S = T \cup R /\ T \cap R = {} /\ \A x \in R : f[x] = 0 OBVIOUS
<1>3. Sum(f, R) = 0
  <2> HIDE DEF R
  <2> QED BY <1>1, <1>2, SumOfZeros
<1>4. Sum(f, T \cup R) = Sum(f, T) + Sum(f, R)
  <2>1. \A x \in T \cup R : f[x] \in Int OBVIOUS
  <2> HIDE DEF R
  <2> QED BY <1>1, <1>2, <2>1, SumUnion
<1>5. Sum(f, T) \in Int BY <1>1, SumIs
<1>6. Sum(f, S) = Sum(f, T \cup R) BY <1>2, Zenon
<1> QED BY <1>3, <1>4, <1>5, <1>6

(* A sum taken key by key.                                                   *)
Fiber(key, T, m) == {t \in T : key[t] = m}

LEMMA SumFibers ==
  ASSUME NEW T, IsFiniteSet(T), NEW M, IsFiniteSet(M), NEW key, \A t \in T : key[t] \in M,
         NEW f, \A t \in T : f[t] \in Int,
         NEW g, \A m \in M : g[m] = Sum(f, Fiber(key, T, m))
  PROVE  Sum(g, M) = Sum(f, T)
<1> USE DEF Fiber
<1> DEFINE With(m) == Fiber(key, T, m)
           Within(N) == {t \in T : key[t] \in N}
           G == {N \in SUBSET M : Sum(g, N) = Sum(f, Within(N))}
<1>1. \A R \in SUBSET T : IsFiniteSet(R) /\ Sum(f, R) \in Int BY FS_Subset, SumIs
<1>2. \A m \in M : g[m] \in Int BY <1>1
<1>3. {} \in G
  <2>1. Within({}) = {} OBVIOUS
  <2>2. Sum(g, {}) = 0 /\ Sum(f, {}) = 0 BY <1>2, SumIs
  <2> QED BY <2>1, <2>2
<1>4. ASSUME NEW N \in SUBSET M, NEW m \in M \ N, N \in G PROVE N \cup {m} \in G
  <2>1. Within(N \cup {m}) = Within(N) \cup With(m) /\ Within(N) \cap With(m) = {} OBVIOUS
  <2>2. /\ IsFiniteSet(Within(N)) /\ IsFiniteSet(With(m))
        /\ \A t \in Within(N) \cup With(m) : f[t] \in Int
    BY <1>1
  <2>3. Sum(g, N \cup {m}) = g[m] + Sum(g, N) BY <1>2, SumIs
  <2>4. Sum(g, N) = Sum(f, Within(N)) /\ g[m] = Sum(f, With(m)) BY <1>4
  <2>5. Sum(f, Within(N)) \in Int /\ Sum(f, With(m)) \in Int BY <1>1
  <2> HIDE DEF With, Within
  <2>6. Sum(f, Within(N) \cup With(m)) = Sum(f, Within(N)) + Sum(f, With(m))
    BY <2>1, <2>2, SumUnion
  <2>7. Sum(f, Within(N \cup {m})) = Sum(f, Within(N) \cup With(m)) BY <2>1, Zenon
  <2>8. Sum(g, N \cup {m}) = Sum(f, Within(N \cup {m})) BY <2>3, <2>4, <2>5, <2>6, <2>7
  <2> QED BY <2>8
<1>5. M \in G
  <2> HIDE DEF G
  <2> QED BY <1>3, <1>4, SetInduction
<1>6. Within(M) = T OBVIOUS
<1> QED BY <1>5, <1>6

LEMMA SumScaled ==
  ASSUME NEW S, IsFiniteSet(S), NEW f, NEW h, NEW k \in Int,
         \A x \in S : f[x] \in Int /\ h[x] = k * f[x]
  PROVE  Sum(h, S) = k * Sum(f, S)
<1> DEFINE z == [x \in S |-> 0]
<1>1. \A x \in S : z[x] \in Int /\ f[x] \in Int /\ h[x] = z[x] + k * f[x] OBVIOUS
<1>2. Sum(z, S) = 0
  <2>1. \A x \in S : z[x] = 0 OBVIOUS
  <2> HIDE DEF z
  <2> QED BY <2>1, SumOfZeros
<1> HIDE DEF z
<1>3. Sum(h, S) = Sum(z, S) + k * Sum(f, S) BY <1>1, SumLinear
<1>4. k * Sum(f, S) \in Int BY SumIs
<1> QED BY <1>2, <1>3, <1>4

(* The product of two sums is the sum over the pairs.                        *)
LEMMA SumPairs ==
  ASSUME NEW A, IsFiniteSet(A), NEW B, IsFiniteSet(B),
         NEW u, \A a \in A : u[a] \in Int, NEW v, \A b \in B : v[b] \in Int,
         NEW w, \A a \in A, b \in B : w[<<a, b>>] = u[a] * v[b]
  PROVE  Sum(w, A \X B) = Sum(u, A) * Sum(v, B)
<1> DEFINE key == [t \in A \X B |-> t[1]]
           g == [a \in A |-> Sum(w, Fiber(key, A \X B, a))]
<1>1. IsFiniteSet(A \X B) BY FS_Product
<1>2. \A t \in A \X B : key[t] \in A /\ w[t] \in Int
  <2> TAKE t \in A \X B
  <2>1. t[1] \in A /\ t[2] \in B /\ t = <<t[1], t[2]>> OBVIOUS
  <2>2. w[t] = u[t[1]] * v[t[2]] BY <2>1
  <2>3. u[t[1]] \in Int /\ v[t[2]] \in Int BY <2>1
  <2> QED BY <2>1, <2>2, <2>3
<1>3. Sum(g, A) = Sum(w, A \X B)
  <2>1. PICK T : T = A \X B OBVIOUS
  <2>2. \A a \in A : g[a] = Sum(w, Fiber(key, T, a)) BY <2>1
  <2>3. IsFiniteSet(T) /\ \A t \in T : key[t] \in A /\ w[t] \in Int BY <1>1, <1>2, <2>1
  <2> HIDE DEF key, g
  <2>4. Sum(g, A) = Sum(w, T) BY <2>2, <2>3, SumFibers
  <2> QED BY <2>1, <2>4
<1>4. ASSUME NEW a \in A PROVE g[a] = Sum(v, B) * u[a]
  <2> DEFINE Row(C) == {a} \X C
             G == {C \in SUBSET B : Sum(w, Row(C)) = u[a] * Sum(v, C)}
  <2>1. \A C \in SUBSET B : /\ IsFiniteSet(Row(C)) /\ Row(C) \in SUBSET (A \X B)
                            /\ Sum(v, C) \in Int /\ Sum(w, Row(C)) \in Int
    <3> TAKE C \in SUBSET B
    <3>1. Row(C) \in SUBSET (A \X B) OBVIOUS
    <3> HIDE DEF Row
    <3>2. Sum(v, C) \in Int BY SumIs
    <3>3. Sum(w, Row(C)) \in Int BY <1>1, <1>2, <3>1, SumIs
    <3> QED BY <1>1, <3>1, <3>2, <3>3, FS_Subset
  <2>2. {} \in G
    <3>1. Row({}) = {} OBVIOUS
    <3>2. Sum(w, {}) = 0 BY <1>1, <1>2, SumIs
    <3>3. Sum(v, {}) = 0 /\ u[a] \in Int BY SumIs
    <3>4. Sum(w, Row({})) = u[a] * Sum(v, {}) BY <3>1, <3>2, <3>3
    <3> QED BY <3>4
  <2>3. ASSUME NEW C \in SUBSET B, NEW b \in B \ C, C \in G PROVE C \cup {b} \in G
    <3>1. Row(C \cup {b}) = Row(C) \cup {<<a, b>>} /\ <<a, b>> \in (A \X B) \ Row(C)
      OBVIOUS
    <3>2. Row(C) \in SUBSET (A \X B) OBVIOUS
    <3>3. Sum(w, Row(C)) = u[a] * Sum(v, C) BY <2>3
    <3> HIDE DEF Row
    <3>4. Sum(w, Row(C) \cup {<<a, b>>}) = w[<<a, b>>] + Sum(w, Row(C))
      BY <1>1, <1>2, <3>1, <3>2, SumIs
    <3>5. Sum(v, C \cup {b}) = v[b] + Sum(v, C) /\ Sum(v, C) \in Int BY SumIs
    <3>6. w[<<a, b>>] = u[a] * v[b] /\ u[a] \in Int /\ v[b] \in Int OBVIOUS
    <3>7. \A p, q, r \in Int : p * (q + r) = p * q + p * r OBVIOUS
    <3>8. Sum(w, Row(C \cup {b})) = Sum(w, Row(C) \cup {<<a, b>>}) BY <3>1, Zenon
    <3>9. u[a] * (v[b] + Sum(v, C)) = u[a] * v[b] + u[a] * Sum(v, C) BY <3>5, <3>6, <3>7
    <3>10. Sum(w, Row(C \cup {b})) = u[a] * Sum(v, C \cup {b})
      BY <3>3, <3>4, <3>5, <3>6, <3>8, <3>9
    <3> QED BY <3>10
  <2>4. B \in G
    <3> HIDE DEF G
    <3> QED BY <2>2, <2>3, SetInduction
  <2>5. Fiber(key, A \X B, a) = Row(B) BY DEF Fiber
  <2>6. g[a] = Sum(w, Row(B)) BY <2>5, Zenon
  <2>7. u[a] \in Int /\ Sum(v, B) \in Int BY SumIs
  <2>8. \A p, q \in Int : p * q = q * p OBVIOUS
  <2>9. Sum(w, Row(B)) = u[a] * Sum(v, B) BY <2>4
  <2> HIDE DEF Row, G, g
  <2> QED BY <2>6, <2>7, <2>8, <2>9
<1>5. Sum(v, B) \in Int /\ Sum(u, A) \in Int BY SumIs
<1>6. Sum(g, A) = Sum(v, B) * Sum(u, A)
  <2> HIDE DEF g
  <2> QED BY <1>4, <1>5, SumScaled
<1>7. \A p, q \in Int : p * q = q * p OBVIOUS
<1> QED BY <1>3, <1>5, <1>6, <1>7

-----------------------------------------------------------------------------
(* Products.                                                                 *)
LEMMA ProdTimes ==
  ASSUME NEW S, IsFiniteSet(S), NEW f, NEW g, NEW h,
         \A x \in S : f[x] \in Int /\ g[x] \in Int /\ h[x] = f[x] * g[x]
  PROVE  Prod(h, S) = Prod(f, S) * Prod(g, S)
<1> DEFINE G == {T \in SUBSET S : Prod(h, T) = Prod(f, T) * Prod(g, T)}
<1>1. /\ \A x \in S : f[x] \in Int
      /\ \A x \in S : g[x] \in Int
      /\ \A x \in S : h[x] \in Int
  OBVIOUS
<1>2. {} \in G
  <2>1. Prod(h, {}) = 1 /\ Prod(f, {}) = 1 /\ Prod(g, {}) = 1 BY <1>1, ProdIs
  <2> QED BY <2>1
<1>3. ASSUME NEW T \in SUBSET S, NEW x \in S \ T, T \in G PROVE T \cup {x} \in G
  <2>1. Prod(h, T) = Prod(f, T) * Prod(g, T) BY <1>3
  <2>2. Prod(h, T \cup {x}) = h[x] * Prod(h, T) BY <1>1, ProdIs
  <2>3. Prod(f, T \cup {x}) = f[x] * Prod(f, T) /\ Prod(f, T) \in Int BY <1>1, ProdIs
  <2>4. Prod(g, T \cup {x}) = g[x] * Prod(g, T) /\ Prod(g, T) \in Int BY <1>1, ProdIs
  <2>5. f[x] \in Int /\ g[x] \in Int /\ h[x] = f[x] * g[x] OBVIOUS
  <2>6. \A a, b, c, d \in Int : (a * b) * (c * d) = (a * c) * (b * d) OBVIOUS
  <2>7. (f[x] * g[x]) * (Prod(f, T) * Prod(g, T)) = (f[x] * Prod(f, T)) * (g[x] * Prod(g, T))
    BY <2>3, <2>4, <2>5, <2>6
  <2>8. Prod(h, T \cup {x}) = Prod(f, T \cup {x}) * Prod(g, T \cup {x})
    BY <2>1, <2>2, <2>3, <2>4, <2>5, <2>7
  <2> QED BY <2>8
<1>4. S \in G
  <2> HIDE DEF G
  <2> QED BY <1>2, <1>3, SetInduction
<1> QED BY <1>4

LEMMA ProdNatural ==
  ASSUME NEW S, IsFiniteSet(S), NEW f, \A x \in S : f[x] \in Nat
  PROVE  Prod(f, S) \in Nat
<1> DEFINE G == {T \in SUBSET S : Prod(f, T) \in Nat}
<1>1. \A x \in S : f[x] \in Int OBVIOUS
<1>2. {} \in G
  <2>1. Prod(f, {}) = 1 BY <1>1, ProdIs
  <2> QED BY <2>1
<1>3. ASSUME NEW T \in SUBSET S, NEW x \in S \ T, T \in G PROVE T \cup {x} \in G
  <2>1. Prod(f, T \cup {x}) = f[x] * Prod(f, T) BY <1>1, ProdIs
  <2>2. f[x] \in Nat /\ Prod(f, T) \in Nat BY <1>3
  <2>3. \A a, b \in Nat : a * b \in Nat OBVIOUS
  <2> QED BY <2>1, <2>2, <2>3
<1>4. S \in G
  <2> HIDE DEF G
  <2> QED BY <1>2, <1>3, SetInduction
<1> QED BY <1>4

(* A product with one factor that counts.                                    *)
LEMMA ProdSingle ==
  ASSUME NEW S, IsFiniteSet(S), NEW y \in S, NEW f, f[y] \in Int,
         \A x \in S : x # y => f[x] = 1
  PROVE  Prod(f, S) = f[y]
<1> DEFINE R == S \ {y}
           G == {T \in SUBSET R : Prod(f, T) = 1}
<1>1. \A x \in S : f[x] \in Int OBVIOUS
<1>2. {} \in G BY <1>1, ProdIs
<1>3. ASSUME NEW T \in SUBSET R, NEW x \in R \ T, T \in G PROVE T \cup {x} \in G
  <2>1. T \in SUBSET S /\ x \in S \ T /\ f[x] = 1 OBVIOUS
  <2>2. Prod(f, T \cup {x}) = f[x] * Prod(f, T) BY <1>1, <2>1, ProdIs
  <2> QED BY <1>3, <2>1, <2>2
<1>4. R \in G
  <2>1. IsFiniteSet(R) BY FS_Subset
  <2> HIDE DEF G, R
  <2> QED BY <1>2, <1>3, <2>1, SetInduction
<1>5. R \in SUBSET S /\ y \in S \ R /\ R \cup {y} = S OBVIOUS
<1> HIDE DEF R
<1>6. Prod(f, R \cup {y}) = f[y] * Prod(f, R) BY <1>1, <1>5, ProdIs
<1>7. Prod(f, R \cup {y}) = Prod(f, S) BY <1>5, Zenon
<1> QED BY <1>4, <1>6, <1>7

-----------------------------------------------------------------------------
(* Powers.                                                                   *)
Raises(f, b, e) == f[0] = 1 /\ \A i \in 1..e : f[i] = b * f[i - 1]

LEMMA RaisesExists ==
  ASSUME NEW b \in Int, NEW e \in Nat
  PROVE  \E f \in [0..e -> Int] : Raises(f, b, e)
<1> DEFINE Bad == {n \in Nat : ~\E f \in [0..n -> Int] : Raises(f, b, n)}
<1>1. SUFFICES ASSUME Bad # {} PROVE FALSE OBVIOUS
<1>2. PICK n \in Bad : \A m \in Bad : n <= m
  <2>1. Bad \in SUBSET Nat OBVIOUS
  <2> HIDE DEF Bad
  <2> QED BY <1>1, <2>1, LeastNatural
<1>3. n \in Nat OBVIOUS
<1>4. n # 0
  <2> DEFINE one == [i \in 0..0 |-> 1]
  <2>1. one \in [0..0 -> Int] /\ Raises(one, b, 0) BY DEF Raises
  <2> HIDE DEF one
  <2> QED BY <2>1
<1>5. n - 1 \in Nat /\ n - 1 \notin Bad BY <1>2, <1>3, <1>4
<1>6. PICK f \in [0..(n - 1) -> Int] : Raises(f, b, n - 1) BY <1>5
<1> DEFINE g == [i \in 0..n |-> IF i = n THEN b * f[n - 1] ELSE f[i]]
<1>7. f[n - 1] \in Int BY <1>3, <1>5
<1>8. b * f[n - 1] \in Int BY <1>7
<1>9. g \in [0..n -> Int] BY <1>3, <1>8
<1>10. Raises(g, b, n)
  <2>1. g[0] = 1 BY <1>3, <1>4, <1>6 DEF Raises
  <2>2. ASSUME NEW i \in 1..n PROVE g[i] = b * g[i - 1]
    <3>1. i - 1 \in 0..n /\ i \in 0..n /\ i - 1 # n BY <1>3
    <3>2. g[i - 1] = f[i - 1] BY <3>1
    <3>3. CASE i = n BY <3>1, <3>2, <3>3
    <3>4. CASE i # n
      <4>1. i \in 1..(n - 1) BY <1>3, <3>4
      <4>2. f[i] = b * f[i - 1] BY <1>6, <4>1 DEF Raises
      <4>3. g[i] = f[i] BY <3>1, <3>4
      <4> QED BY <3>2, <4>2, <4>3
    <3> QED BY <3>3, <3>4
  <2> HIDE DEF g
  <2> QED BY <2>1, <2>2 DEF Raises
<1> QED BY <1>9, <1>10

LEMMA PowerFrom ==
  ASSUME NEW b \in Int, NEW e \in Nat
  PROVE  \E f \in [0..e -> Int] : Raises(f, b, e) /\ Power(b, e) = f[e]
<1> DEFINE Eq(f) == f = [n \in 0..e |-> IF n = 0 THEN 1 ELSE b * f[n - 1]]
           p == CHOOSE f : Eq(f)
<1>1. PICK f \in [0..e -> Int] : Raises(f, b, e) BY RaisesExists
<1>2. Eq(f)
  <2>1. \A n \in 0..e : f[n] = IF n = 0 THEN 1 ELSE b * f[n - 1]
    <3> TAKE n \in 0..e
    <3>1. CASE n = 0 BY <1>1, <3>1 DEF Raises
    <3>2. CASE n # 0
      <4>1. n \in 1..e BY <3>2
      <4> QED BY <1>1, <3>2, <4>1 DEF Raises
    <3> QED BY <3>1, <3>2
  <2> QED BY <2>1
<1>3. Power(b, e) = p[e] BY DEF Power
<1>4. Eq(p) BY <1>2
<1> HIDE DEF p
<1>5. p[0] = 1 /\ \A n \in 1..e : p[n] = b * p[n - 1]
  <2>1. \A n \in 0..e : p[n] = IF n = 0 THEN 1 ELSE b * p[n - 1] BY <1>4
  <2> QED BY <2>1
<1>6. p \in [0..e -> Int]
  <2> DEFINE Bad == {n \in 0..e : p[n] \notin Int}
  <2>1. SUFFICES ASSUME Bad # {} PROVE FALSE
    <3>1. p = [n \in 0..e |-> p[n]] BY <1>4
    <3> QED BY <2>1, <3>1
  <2>2. PICK n \in Bad : \A m \in Bad : n <= m
    <3>1. Bad \in SUBSET Nat OBVIOUS
    <3> HIDE DEF Bad
    <3> QED BY <2>1, <3>1, LeastNatural
  <2>3. n \in 0..e /\ p[n] \notin Int OBVIOUS
  <2>4. n # 0 BY <1>5, <2>3
  <2>5. n - 1 \in 0..e /\ n \in 1..e BY <2>3, <2>4
  <2>6. ~(n <= n - 1) BY <2>3
  <2>7. p[n - 1] \in Int
    <3>1. n - 1 \notin Bad
      <4> HIDE DEF Bad
      <4> QED BY <2>2, <2>6
    <3> QED BY <2>5, <3>1
  <2>8. p[n] = b * p[n - 1] BY <1>5, <2>5
  <2>9. b * p[n - 1] \in Int BY <2>7
  <2> QED BY <2>3, <2>8, <2>9
<1> HIDE DEF Eq
<1> QED BY <1>3, <1>5, <1>6 DEF Raises

LEMMA RaisesAgree ==
  ASSUME NEW b \in Int, NEW d \in Nat, NEW e \in Nat, d <= e,
         NEW f, NEW g, Raises(f, b, d), Raises(g, b, e)
  PROVE  f[d] = g[d]
<1> DEFINE Bad == {n \in 0..d : f[n] # g[n]}
<1>1. SUFFICES ASSUME Bad # {} PROVE FALSE OBVIOUS
<1>2. PICK n \in Bad : \A m \in Bad : n <= m
  <2>1. Bad \in SUBSET Nat OBVIOUS
  <2> HIDE DEF Bad
  <2> QED BY <1>1, <2>1, LeastNatural
<1>3. n \in 0..d /\ f[n] # g[n] OBVIOUS
<1>4. n # 0 BY <1>3 DEF Raises
<1>5. n - 1 \in 0..d /\ n \in 1..d /\ n \in 1..e /\ ~(n <= n - 1) BY <1>3, <1>4
<1>6. f[n - 1] = g[n - 1]
  <2>1. n - 1 \notin Bad
    <3> HIDE DEF Bad
    <3> QED BY <1>2, <1>5
  <2> QED BY <1>5, <2>1
<1> QED BY <1>3, <1>5, <1>6 DEF Raises

LEMMA PowerIs ==
  ASSUME NEW b \in Int
  PROVE  /\ Power(b, 0) = 1
         /\ \A e \in Nat : Power(b, e) \in Int /\ Power(b, e + 1) = b * Power(b, e)
<1>1. Power(b, 0) = 1
  <2>1. PICK f \in [0..0 -> Int] : Raises(f, b, 0) /\ Power(b, 0) = f[0] BY PowerFrom
  <2> QED BY <2>1 DEF Raises
<1>2. ASSUME NEW e \in Nat PROVE Power(b, e) \in Int /\ Power(b, e + 1) = b * Power(b, e)
  <2>1. PICK f \in [0..e -> Int] : Raises(f, b, e) /\ Power(b, e) = f[e] BY PowerFrom
  <2>2. PICK d : d = e + 1 OBVIOUS
  <2>3. d \in Nat /\ e <= d /\ d \in 1..d /\ d - 1 = e BY <2>2
  <2>4. PICK g \in [0..d -> Int] : Raises(g, b, d) /\ Power(b, d) = g[d] BY <2>3, PowerFrom
  <2>5. f[e] = g[e] BY <2>1, <2>3, <2>4, RaisesAgree
  <2>6. g[d] = b * g[e] BY <2>3, <2>4 DEF Raises
  <2>7. f[e] \in Int BY <2>1
  <2> QED BY <2>1, <2>2, <2>4, <2>5, <2>6, <2>7
<1> QED BY <1>1, <1>2

LEMMA PowerNatural ==
  ASSUME NEW b \in Nat, NEW e \in Nat
  PROVE  Power(b, e) \in Nat
<1> DEFINE Bad == {n \in Nat : Power(b, n) \notin Nat}
<1>1. SUFFICES ASSUME Bad # {} PROVE FALSE OBVIOUS
<1>2. PICK n \in Bad : \A m \in Bad : n <= m
  <2>1. Bad \in SUBSET Nat OBVIOUS
  <2> HIDE DEF Bad
  <2> QED BY <1>1, <2>1, LeastNatural
<1>3. n \in Nat /\ Power(b, n) \notin Nat OBVIOUS
<1>4. n # 0 BY <1>3, PowerIs
<1>5. PICK m : m = n - 1 OBVIOUS
<1>6. m \in Nat /\ n = m + 1 /\ ~(n <= m) BY <1>3, <1>4, <1>5
<1>7. Power(b, m) \in Nat
  <2>1. m \notin Bad
    <3> HIDE DEF Bad
    <3> QED BY <1>2, <1>6
  <2> QED BY <1>6, <2>1
<1>8. Power(b, m + 1) = b * Power(b, m) BY <1>6, PowerIs
<1>9. b * Power(b, m) \in Nat BY <1>7
<1> QED BY <1>3, <1>6, <1>8, <1>9

LEMMA PowerSum ==
  ASSUME NEW b \in Int, NEW d \in Nat, NEW e \in Nat
  PROVE  Power(b, d + e) = Power(b, d) * Power(b, e)
<1> DEFINE Bad == {n \in Nat : Power(b, d + n) # Power(b, d) * Power(b, n)}
<1>1. SUFFICES ASSUME Bad # {} PROVE FALSE OBVIOUS
<1>2. PICK n \in Bad : \A m \in Bad : n <= m
  <2>1. Bad \in SUBSET Nat OBVIOUS
  <2> HIDE DEF Bad
  <2> QED BY <1>1, <2>1, LeastNatural
<1>3. n \in Nat /\ Power(b, d + n) # Power(b, d) * Power(b, n) OBVIOUS
<1>4. n # 0
  <2>1. d + 0 = d /\ Power(b, 0) = 1 /\ Power(b, d) \in Int BY PowerIs
  <2>2. Power(b, d + 0) = Power(b, d) * Power(b, 0) BY <2>1
  <2> QED BY <1>3, <2>2
<1>5. PICK m : m = n - 1 OBVIOUS
<1>6. m \in Nat /\ n = m + 1 /\ ~(n <= m) BY <1>3, <1>4, <1>5
<1>7. Power(b, d + m) = Power(b, d) * Power(b, m)
  <2>1. m \notin Bad
    <3> HIDE DEF Bad
    <3> QED BY <1>2, <1>6
  <2> QED BY <1>6, <2>1
<1>8. PICK k : k = d + m OBVIOUS
<1>9. k \in Nat /\ d + n = k + 1 BY <1>6, <1>8
<1>10. Power(b, k + 1) = b * Power(b, k) BY <1>9, PowerIs
<1>11. Power(b, m + 1) = b * Power(b, m) /\ Power(b, m) \in Int /\ Power(b, d) \in Int
  BY <1>6, PowerIs
<1>12. \A p, q, r \in Int : p * (q * r) = q * (p * r) OBVIOUS
<1>13. b * (Power(b, d) * Power(b, m)) = Power(b, d) * (b * Power(b, m)) BY <1>11, <1>12
<1> QED BY <1>3, <1>6, <1>7, <1>8, <1>9, <1>10, <1>11, <1>13

-----------------------------------------------------------------------------
(* What a monomial is worth at a point.                                      *)
Factors(m, x) == [it \in Invariant |-> Power(x[it], m[it])]

LEMMA FiniteInvariant == IsFiniteSet(Invariant)
<1>1. InvariantTypeNum - 1 \in Int BY DEF InvariantTypeNum
<1>2. IsFiniteSet(0..InvariantTypeNum - 1) BY <1>1, FS_Interval
<1> QED BY <1>2, IMPolyAssumption, FS_Subset

LEMMA ValueIs ==
  ASSUME NEW m \in Monomial, NEW x \in Point
  PROVE  /\ \A it \in Invariant : Factors(m, x)[it] \in Nat
         /\ Value(m, x) = Prod(Factors(m, x), Invariant)
         /\ Value(m, x) \in Nat
<1>1. x \in [Invariant -> Nat] /\ m \in [Invariant -> Nat] BY PolFeatAssumption DEF Monomial
<1>2. \A it \in Invariant : Factors(m, x)[it] \in Nat BY <1>1, PowerNatural DEF Factors
<1>3. Value(m, x) = Prod(Factors(m, x), Invariant)
  <2>1. DOMAIN Factors(m, x) = Invariant BY DEF Factors
  <2>2. Value(m, x) = FoldFunctionOnSet(LAMBDA a, b : a * b, 1, Factors(m, x), DOMAIN Factors(m, x))
    BY DEF Value, FoldFunction, Factors
  <2> QED BY <2>1, <2>2 DEF Prod
<1> QED BY <1>2, <1>3, FiniteInvariant, ProdNatural

LEMMA ValueTimes ==
  ASSUME NEW m \in Monomial, NEW n \in Monomial, NEW x \in Point
  PROVE  Times(m, n) \in Monomial /\ Value(Times(m, n), x) = Value(m, x) * Value(n, x)
<1>1. x \in [Invariant -> Nat] /\ m \in [Invariant -> Nat] /\ n \in [Invariant -> Nat]
  BY PolFeatAssumption DEF Monomial
<1>2. Times(m, n) \in Monomial BY <1>1 DEF Monomial, Times
<1>3. \A it \in Invariant : /\ Factors(m, x)[it] \in Int /\ Factors(n, x)[it] \in Int
                            /\ Factors(Times(m, n), x)[it] = Factors(m, x)[it] * Factors(n, x)[it]
  <2> TAKE it \in Invariant
  <2>1. x[it] \in Int /\ m[it] \in Nat /\ n[it] \in Nat BY <1>1
  <2>2. Times(m, n)[it] = m[it] + n[it] BY DEF Times
  <2>3. Power(x[it], m[it] + n[it]) = Power(x[it], m[it]) * Power(x[it], n[it])
    BY <2>1, PowerSum
  <2>4. Power(x[it], m[it]) \in Int /\ Power(x[it], n[it]) \in Int BY <2>1, PowerIs
  <2> QED BY <2>2, <2>3, <2>4 DEF Factors
<1>4. Prod(Factors(Times(m, n), x), Invariant)
        = Prod(Factors(m, x), Invariant) * Prod(Factors(n, x), Invariant)
  BY <1>3, FiniteInvariant, ProdTimes
<1> QED BY <1>2, <1>4, ValueIs

LEMMA ValueSingle ==
  ASSUME NEW gen \in Invariant, NEW e \in Nat, NEW x \in Point, NEW m \in Monomial,
         m[gen] = e, \A it \in Invariant : it # gen => m[it] = 0
  PROVE  Value(m, x) = Power(x[gen], e)
<1>1. x \in [Invariant -> Nat] BY PolFeatAssumption
<1>2. ASSUME NEW it \in Invariant, it # gen PROVE Factors(m, x)[it] = 1
  <2>1. x[it] \in Int /\ m[it] = 0 BY <1>1, <1>2
  <2>2. Power(x[it], 0) = 1 BY <2>1, PowerIs
  <2> QED BY <2>1, <2>2 DEF Factors
<1>3. Factors(m, x)[gen] = Power(x[gen], e) BY DEF Factors
<1>4. Power(x[gen], e) \in Int BY <1>1, PowerIs
<1>5. Prod(Factors(m, x), Invariant) = Factors(m, x)[gen]
  BY <1>2, <1>3, <1>4, FiniteInvariant, ProdSingle
<1> QED BY <1>3, <1>5, ValueIs

-----------------------------------------------------------------------------
(* The cost a polynomial stands for is the sum of its terms' worth, taken    *)
(* over any monomials that include its own.                                  *)
Worth(p, x, D) == [m \in D |-> Coef(p, m) * Value(m, x)]

LEMMA CoefInt ==
  ASSUME NEW p, IsPoly(p)
  PROVE  /\ \A m : Coef(p, m) \in Int
         /\ \A m : m \notin DOMAIN p => Coef(p, m) = 0
BY DEF Coef, IsPoly

LEMMA WorthInt ==
  ASSUME NEW p, IsPoly(p), NEW x \in Point, NEW D \in SUBSET Monomial
  PROVE  \A m \in D : Worth(p, x, D)[m] \in Int
<1> TAKE m \in D
<1>1. Coef(p, m) \in Int /\ Value(m, x) \in Nat BY CoefInt, ValueIs
<1>2. \A a \in Int, b \in Nat : a * b \in Int OBVIOUS
<1> QED BY <1>1, <1>2 DEF Worth

LEMMA EvalOver ==
  ASSUME NEW p, IsPoly(p), NEW x \in Point,
         NEW D \in SUBSET Monomial, IsFiniteSet(D), DOMAIN p \subseteq D
  PROVE  Eval(p)[x] = Sum(Worth(p, x, D), D) /\ Eval(p)[x] \in Int
<1> DEFINE P == DOMAIN p
           own == [m \in P |-> p[m] * Value(m, x)]
<1>1. Eval(p)[x] = Sum(own, P) BY DEF Eval, SumFunction, SumFunctionOnSet, Sum
<1>2. IsFiniteSet(P) /\ P \in SUBSET D BY DEF IsPoly
<1>3. \A m \in D : Worth(p, x, D)[m] \in Int BY WorthInt
<1>4. \A m \in P : own[m] = Worth(p, x, D)[m] BY DEF Worth, Coef
<1>5. \A m \in D \ P : Worth(p, x, D)[m] = 0
  <2> TAKE m \in D \ P
  <2>1. Coef(p, m) = 0 BY CoefInt
  <2>2. Value(m, x) \in Nat BY ValueIs
  <2> QED BY <2>1, <2>2 DEF Worth
<1> HIDE DEF own, P
<1>6. Sum(own, P) = Sum(Worth(p, x, D), P)
  <2>1. \A m \in P : Worth(p, x, D)[m] \in Int /\ own[m] = Worth(p, x, D)[m]
    BY <1>2, <1>3, <1>4
  <2>2. Sum(Worth(p, x, D), P) = Sum(own, P) BY <1>2, <2>1, SumSame
  <2> QED BY <2>2
<1>7. Sum(Worth(p, x, D), D) = Sum(Worth(p, x, D), P) BY <1>2, <1>3, <1>5, SumExtend
<1>8. Sum(Worth(p, x, D), D) \in Int BY <1>3, SumIs
<1> QED BY <1>1, <1>6, <1>7, <1>8

(* Costs of polynomials are related as their coefficients are.               *)
LEMMA EvalLinear ==
  ASSUME NEW p, IsPoly(p), NEW q, IsPoly(q), NEW r, IsPoly(r), NEW k \in Int,
         \A m : Coef(r, m) = Coef(p, m) + k * Coef(q, m), NEW x \in Point
  PROVE  Eval(r)[x] = Eval(p)[x] + k * Eval(q)[x]
<1> DEFINE D == DOMAIN p \cup DOMAIN q \cup DOMAIN r
<1>1. /\ D \in SUBSET Monomial
      /\ DOMAIN p \subseteq D /\ DOMAIN q \subseteq D /\ DOMAIN r \subseteq D
  BY DEF IsPoly
<1>2. IsFiniteSet(D) BY FS_Union DEF IsPoly
<1> HIDE DEF D
<1>3. /\ Eval(p)[x] = Sum(Worth(p, x, D), D)
      /\ Eval(q)[x] = Sum(Worth(q, x, D), D)
      /\ Eval(r)[x] = Sum(Worth(r, x, D), D)
  BY <1>1, <1>2, EvalOver
<1>4. \A m \in D : /\ Worth(p, x, D)[m] \in Int /\ Worth(q, x, D)[m] \in Int
                   /\ Worth(r, x, D)[m] = Worth(p, x, D)[m] + k * Worth(q, x, D)[m]
  <2> TAKE m \in D
  <2>1. Coef(p, m) \in Int /\ Coef(q, m) \in Int /\ Value(m, x) \in Int BY <1>1, CoefInt, ValueIs
  <2>2. \A a, b, v \in Int : (a + k * b) * v = a * v + k * (b * v) OBVIOUS
  <2>3. Coef(r, m) * Value(m, x) = Coef(p, m) * Value(m, x) + k * (Coef(q, m) * Value(m, x))
    BY <2>1, <2>2
  <2> QED BY <1>1, <2>3, WorthInt DEF Worth
<1> QED BY <1>2, <1>3, <1>4, SumLinear

LEMMA EvalAtMost ==
  ASSUME NEW p, IsPoly(p), NEW q, IsPoly(q), NEW k \in Int,
         \A m : k * Coef(p, m) <= Coef(q, m), NEW x \in Point
  PROVE  k * Eval(p)[x] <= Eval(q)[x]
<1> DEFINE D == DOMAIN p \cup DOMAIN q
           scaled == [m \in D |-> k * Worth(p, x, D)[m]]
<1>1. D \in SUBSET Monomial /\ DOMAIN p \subseteq D /\ DOMAIN q \subseteq D
  BY DEF IsPoly
<1>2. IsFiniteSet(D) BY FS_Union DEF IsPoly
<1>3. \A m \in D : scaled[m] = k * Worth(p, x, D)[m] OBVIOUS
<1> HIDE DEF D, scaled
<1>4. /\ Eval(p)[x] = Sum(Worth(p, x, D), D)
      /\ Eval(q)[x] = Sum(Worth(q, x, D), D)
  BY <1>1, <1>2, EvalOver
<1>5. \A m \in D : Worth(p, x, D)[m] \in Int /\ Worth(q, x, D)[m] \in Int
  BY <1>1, WorthInt
<1>6. Sum(scaled, D) = k * Sum(Worth(p, x, D), D) BY <1>2, <1>3, <1>5, SumScaled
<1>7. \A m \in D : scaled[m] \in Int /\ scaled[m] <= Worth(q, x, D)[m]
  <2> TAKE m \in D
  <2>1. Coef(p, m) \in Int /\ Coef(q, m) \in Int /\ Value(m, x) \in Nat BY <1>1, CoefInt, ValueIs
  <2>2. k * Coef(p, m) <= Coef(q, m) OBVIOUS
  <2>3. \A a, b \in Int, v \in Nat : k * a <= b => k * (a * v) <= b * v
    <3> TAKE a \in Int, b \in Int, v \in Nat
    <3>1. k * (a * v) = (k * a) * v /\ k * a \in Int OBVIOUS
    <3>2. \A c \in Int : c <= b => c * v <= b * v OBVIOUS
    <3> QED BY <3>1, <3>2
  <2>4. k * (Coef(p, m) * Value(m, x)) <= Coef(q, m) * Value(m, x) BY <2>1, <2>2, <2>3
  <2>5. scaled[m] = k * (Coef(p, m) * Value(m, x)) BY <1>3 DEF Worth
  <2>6. k * Worth(p, x, D)[m] \in Int BY <1>5
  <2> QED BY <1>3, <2>4, <2>5, <2>6 DEF Worth
<1>8. Sum(scaled, D) <= Sum(Worth(q, x, D), D) BY <1>2, <1>5, <1>7, SumAtMost
<1> QED BY <1>4, <1>6, <1>8

(* A product of polynomials is one, and costs the product of their costs.    *)
LEMMA ProductIs ==
  ASSUME NEW p, IsPoly(p), NEW q, IsPoly(q)
  PROVE  /\ IsPoly(Product(p, q))
         /\ Natural(p) /\ Natural(q) => Natural(Product(p, q))
         /\ \A x \in Point : Eval(Product(p, q))[x] = Eval(p)[x] * Eval(q)[x]
<1> DEFINE P == DOMAIN p
           Q == DOMAIN q
           both == [t \in P \X Q |-> p[t[1]] * q[t[2]]]
           key == [t \in P \X Q |-> Times(t[1], t[2])]
           c(m) == Sum(both, Fiber(key, P \X Q, m))
           All == {key[t] : t \in P \X Q}
           kept == {m \in All : c(m) # 0}
<1>1. Product(p, q) = [m \in kept |-> c(m)]
  <2>1. \A m : {t \in DOMAIN both : Times(t[1], t[2]) = m} = Fiber(key, P \X Q, m) BY DEF Fiber
  <2>2. {Times(t[1], t[2]) : t \in DOMAIN both} = All OBVIOUS
  <2>3. \A m : SumFunctionOnSet(both, {t \in DOMAIN both : Times(t[1], t[2]) = m}) = c(m)
    BY <2>1, Zenon DEF Sum
  <2> QED BY <2>2, <2>3, Zenon DEF Product
<1>2. IsFiniteSet(P) /\ IsFiniteSet(Q) /\ P \subseteq Monomial /\ Q \subseteq Monomial
  BY DEF IsPoly
<1>3. IsFiniteSet(P \X Q) BY <1>2, FS_Product
<1>4. \A t \in P \X Q : /\ both[t] \in Int /\ key[t] \in Monomial
                        /\ t[1] \in P /\ t[2] \in Q /\ t = <<t[1], t[2]>>
  <2> TAKE t \in P \X Q
  <2>1. t[1] \in P /\ t[2] \in Q /\ t = <<t[1], t[2]>> OBVIOUS
  <2>2. p[t[1]] \in Int /\ q[t[2]] \in Int BY <2>1 DEF IsPoly
  <2>3. \A a, b \in Int : a * b \in Int OBVIOUS
  <2>4. both[t] \in Int BY <2>2, <2>3
  <2>5. Times(t[1], t[2]) \in Monomial BY <1>2, <2>1 DEF Times, Monomial
  <2> QED BY <2>1, <2>4, <2>5
<1>5. \A m : /\ Fiber(key, P \X Q, m) \in SUBSET (P \X Q)
             /\ IsFiniteSet(Fiber(key, P \X Q, m))
  <2>1. \A m : Fiber(key, P \X Q, m) \in SUBSET (P \X Q) BY DEF Fiber
  <2> QED BY <1>3, <2>1, FS_Subset
<1>6. \A m : c(m) \in Int
  <2> HIDE DEF both, key
  <2> QED BY <1>3, <1>4, <1>5, SumIs
<1>7. IsFiniteSet(All) /\ All \subseteq Monomial
  <2> DEFINE G == {T \in SUBSET (P \X Q) : IsFiniteSet({key[t] : t \in T})}
  <2>1. {} \in G
    <3>1. {key[t] : t \in {}} = {} OBVIOUS
    <3> QED BY <3>1, FS_EmptySet
  <2>2. ASSUME NEW T \in SUBSET (P \X Q), NEW y \in (P \X Q) \ T, T \in G
        PROVE  T \cup {y} \in G
    <3> HIDE DEF key
    <3>1. {key[t] : t \in T \cup {y}} = {key[t] : t \in T} \cup {key[y]} OBVIOUS
    <3>2. PICK K : K = {key[t] : t \in T} OBVIOUS
    <3>3. IsFiniteSet(K) BY <2>2, <3>2
    <3>4. IsFiniteSet(K \cup {key[y]}) BY <3>3, FS_AddElement
    <3>5. K \cup {key[y]} = {key[t] : t \in T \cup {y}} BY <3>1, <3>2
    <3>6. IsFiniteSet({key[t] : t \in T \cup {y}}) BY <3>4, <3>5
    <3> QED BY <3>6
  <2>3. P \X Q \in G
    <3> HIDE DEF G
    <3> QED BY <1>3, <2>1, <2>2, SetInduction
  <2> QED BY <1>4, <2>3
<1>8. IsFiniteSet(kept) /\ kept \subseteq All BY <1>7, FS_Subset
<1>9. IsPoly(Product(p, q))
  <2> HIDE DEF All, c, both, key
  <2> QED BY <1>1, <1>6, <1>7, <1>8 DEF IsPoly
<1>10. ASSUME Natural(p), Natural(q) PROVE Natural(Product(p, q))
  <2>1. \A t \in P \X Q : both[t] >= 0
    <3> TAKE t \in P \X Q
    <3>1. p[t[1]] \in Nat /\ q[t[2]] \in Nat BY <1>4, <1>10 DEF Natural, IsPoly
    <3>2. \A a, b \in Nat : a * b >= 0 OBVIOUS
    <3> QED BY <3>1, <3>2
  <2>2. ASSUME NEW m PROVE c(m) >= 0
    <3> DEFINE z == [t \in P \X Q |-> 0]
               F == Fiber(key, P \X Q, m)
    <3>1. /\ \A t \in F : z[t] \in Int /\ both[t] \in Int /\ z[t] <= both[t]
          /\ \A t \in F : z[t] = 0
      <4>1. F \in SUBSET (P \X Q) BY <1>5
      <4>2. \A t \in P \X Q : z[t] = 0 OBVIOUS
      <4>3. \A t \in P \X Q : both[t] \in Int /\ both[t] >= 0 BY <1>4, <2>1
      <4> HIDE DEF F, both, z
      <4> QED BY <4>1, <4>2, <4>3
    <3> HIDE DEF z, F, both, key
    <3>2. IsFiniteSet(F) BY <1>5 DEF F
    <3>3. Sum(z, F) <= Sum(both, F) /\ Sum(z, F) = 0 BY <3>1, <3>2, SumAtMost, SumOfZeros
    <3>4. Sum(both, F) \in Int BY <3>1, <3>2, SumIs
    <3> QED BY <3>3, <3>4 DEF F
  <2> HIDE DEF c, kept
  <2> QED BY <1>1, <2>2 DEF Natural
<1>11. ASSUME NEW x \in Point PROVE Eval(Product(p, q))[x] = Eval(p)[x] * Eval(q)[x]
  <2> DEFINE u == Worth(p, x, P)
             v == Worth(q, x, Q)
             w == [t \in P \X Q |-> both[t] * Value(key[t], x)]
             r == Worth(Product(p, q), x, All)
  <2>1. Eval(p)[x] = Sum(u, P) /\ Eval(q)[x] = Sum(v, Q) BY <1>2, EvalOver
  <2>2. Eval(Product(p, q))[x] = Sum(r, All)
    <3>1. DOMAIN Product(p, q) \subseteq All
      <4> HIDE DEF c, All
      <4> QED BY <1>1, <1>8
    <3> HIDE DEF All
    <3> QED BY <1>7, <1>9, <3>1, EvalOver
  <2>3. /\ \A a \in P : u[a] = p[a] * Value(a, x) /\ p[a] \in Int /\ Value(a, x) \in Int
        /\ \A b \in Q : v[b] = q[b] * Value(b, x) /\ q[b] \in Int /\ Value(b, x) \in Int
    BY <1>2, ValueIs DEF Worth, Coef, IsPoly
  <2>4. \A a \in P : u[a] \in Int
    BY <2>3
  <2>5. \A b \in Q : v[b] \in Int
    BY <2>3
  <2>6. \A a \in P, b \in Q : w[<<a, b>>] = u[a] * v[b]
    <3> TAKE a \in P, b \in Q
    <3>1. w[<<a, b>>] = (p[a] * q[b]) * Value(Times(a, b), x) OBVIOUS
    <3>2. Value(Times(a, b), x) = Value(a, x) * Value(b, x) BY <1>2, ValueTimes
    <3>3. \A i, j, k, l \in Int : (i * j) * (k * l) = (i * k) * (j * l) OBVIOUS
    <3> HIDE DEF u, v, w
    <3>4. (p[a] * q[b]) * (Value(a, x) * Value(b, x)) = (p[a] * Value(a, x)) * (q[b] * Value(b, x))
      BY <2>3, <3>3
    <3> QED BY <2>3, <3>1, <3>2, <3>4
  <2>7. Sum(w, P \X Q) = Sum(u, P) * Sum(v, Q)
    <3> HIDE DEF u, v, w, P, Q
    <3> QED BY <1>2, <2>4, <2>5, <2>6, SumPairs
  <2>8. \A t \in P \X Q : w[t] \in Int
    <3> TAKE t \in P \X Q
    <3>1. both[t] \in Int /\ Value(key[t], x) \in Int BY <1>4, ValueIs
    <3>2. \A a, b \in Int : a * b \in Int OBVIOUS
    <3>3. w[t] = both[t] * Value(key[t], x) OBVIOUS
    <3> HIDE DEF both, key, w
    <3> QED BY <3>1, <3>2, <3>3
  <2>9. \A m \in All : r[m] = Sum(w, Fiber(key, P \X Q, m))
    <3> TAKE m \in All
    <3> DEFINE F == Fiber(key, P \X Q, m)
    <3>1. Coef(Product(p, q), m) = c(m)
      <4>1. CASE m \in kept
        <5> HIDE DEF c, kept, All
        <5> QED BY <1>1, <4>1 DEF Coef
      <4>2. CASE m \notin kept
        <5>1. c(m) = 0 BY <4>2
        <5> HIDE DEF c, kept, All
        <5> QED BY <1>1, <4>2, <5>1 DEF Coef
      <4> QED BY <4>1, <4>2
    <3>2. Value(m, x) \in Int
      <4>1. m \in Monomial
        <5> HIDE DEF All
        <5> QED BY <1>7
      <4> QED BY <4>1, ValueIs
    <3>3. \A t \in F : both[t] \in Int /\ w[t] = Value(m, x) * both[t]
      <4> TAKE t \in F
      <4>1. t \in P \X Q /\ key[t] = m BY <1>5 DEF Fiber
      <4>2. w[t] = both[t] * Value(m, x) /\ both[t] \in Int BY <1>4, <4>1
      <4>3. \A a, b \in Int : a * b = b * a OBVIOUS
      <4> HIDE DEF w, both
      <4> QED BY <3>2, <4>2, <4>3
    <3>4. r[m] = Coef(Product(p, q), m) * Value(m, x) BY DEF Worth
    <3>5. c(m) = Sum(both, F) /\ c(m) \in Int /\ IsFiniteSet(F) BY <1>5, <1>6
    <3> HIDE DEF F, both, w, c, r
    <3>6. Sum(w, F) = Value(m, x) * Sum(both, F) BY <3>2, <3>3, <3>5, SumScaled
    <3>7. \A a, b \in Int : a * b = b * a OBVIOUS
    <3>8. r[m] = Sum(w, F) BY <3>1, <3>2, <3>4, <3>5, <3>6, <3>7
    <3> QED BY <3>8 DEF F
  <2>10. Sum(r, All) = Sum(w, P \X Q)
    <3>1. \A t \in P \X Q : key[t] \in All OBVIOUS
    <3>2. PICK T : T = P \X Q OBVIOUS
    <3>3. /\ IsFiniteSet(T) /\ \A t \in T : key[t] \in All /\ w[t] \in Int
          /\ \A m \in All : r[m] = Sum(w, Fiber(key, T, m))
      BY <1>3, <2>8, <2>9, <3>1, <3>2
    <3> HIDE DEF r, w, key, All
    <3>4. Sum(r, All) = Sum(w, T) BY <1>7, <3>3, SumFibers
    <3> QED BY <3>2, <3>4
  <2> QED BY <2>1, <2>2, <2>7, <2>10
<1> QED BY <1>9, <1>10, <1>11

-----------------------------------------------------------------------------
(* A sum or difference of polynomials is one, defined where an operand is  *)
(* and nothing cancels.                                                    *)
LEMMA CombineIs ==
  ASSUME NEW p, NEW q, IsPoly(p), IsPoly(q), NEW sign \in {1, -1}
  PROVE  /\ IsPoly(Combine(p, q, sign))
         /\ DOMAIN Combine(p, q, sign) \subseteq DOMAIN p \cup DOMAIN q
         /\ \A m \in DOMAIN p \cup DOMAIN q :
              /\ Coef(p, m) \in Int /\ Coef(q, m) \in Int
              /\ Coef(Combine(p, q, sign), m) = Coef(p, m) + sign * Coef(q, m)
              /\ m \notin DOMAIN Combine(p, q, sign) =>
                   /\ m \in DOMAIN p /\ m \in DOMAIN q
                   /\ Coef(p, m) + sign * Coef(q, m) = 0
<1> DEFINE c(m) == Coef(p, m) + sign * Coef(q, m)
           kept == {n \in DOMAIN p \cup DOMAIN q :
                      ~(n \in DOMAIN p \cap DOMAIN q /\ c(n) = 0)}
<1>1. Combine(p, q, sign) = [m \in kept |-> c(m)]
  BY DEF Combine
<1>2. \A m : Coef(p, m) \in Int /\ Coef(q, m) \in Int
  BY DEF Coef, IsPoly
<1>3. \A m : c(m) \in Int
  BY <1>2
<1>4. kept \subseteq Monomial
  BY DEF IsPoly
<1>5. IsPoly(Combine(p, q, sign))
  <2>1. IsFiniteSet(DOMAIN p \cup DOMAIN q)
    BY FS_Union DEF IsPoly
  <2>2. IsFiniteSet(kept)
    BY <2>1, FS_Subset
  <2> HIDE DEF c, kept
  <2> QED BY <1>1, <1>3, <1>4, <2>2 DEF IsPoly
<1>6. DOMAIN Combine(p, q, sign) = kept
  <2> HIDE DEF c, kept
  <2> QED BY <1>1
<1>7. ASSUME NEW m \in DOMAIN p \cup DOMAIN q
      PROVE  Coef(Combine(p, q, sign), m) = c(m)
  <2>1. CASE m \in kept
    <3> HIDE DEF c, kept
    <3> QED BY <1>1, <2>1 DEF Coef
  <2>2. CASE m \notin kept
    <3>1. c(m) = 0
      BY <2>2
    <3>2. m \notin DOMAIN Combine(p, q, sign)
      BY <1>6, <2>2
    <3> QED BY <3>1, <3>2 DEF Coef
  <2> QED BY <2>1, <2>2
<1> QED BY <1>2, <1>5, <1>6, <1>7

LEMMA AbsoluteIs ==
  ASSUME NEW p, IsPoly(p)
  PROVE  /\ IsPoly(Absolute(p)) /\ DOMAIN Absolute(p) = DOMAIN p
         /\ \A m : Coef(Absolute(p), m) = Magnitude(Coef(p, m))
<1>1. \A n \in Int : Magnitude(n) \in Int /\ Magnitude(0) = 0
  BY DEF Magnitude
<1>2. \A m \in DOMAIN p : p[m] \in Int
  BY DEF IsPoly
<1>3. IsPoly(Absolute(p)) /\ DOMAIN Absolute(p) = DOMAIN p
  BY <1>1, <1>2 DEF IsPoly, Absolute
<1> QED BY <1>1, <1>3 DEF Absolute, Coef

LEMMA TwiceMaxType ==
  ASSUME NEW p, NEW q, IsPoly(p), IsPoly(q)
  PROVE  IsPoly(TwiceMax(p, q))
<1>1. IsPoly(Combine(p, q, 1)) /\ IsPoly(Combine(p, q, -1))
  BY CombineIs
<1> QED BY <1>1, AbsoluteIs, CombineIs DEF TwiceMax

LEMMA CombineCoef ==
  ASSUME NEW p, NEW q, IsPoly(p), IsPoly(q), NEW sign \in {1, -1}
  PROVE  \A m : Coef(Combine(p, q, sign), m) = Coef(p, m) + sign * Coef(q, m)
<1> TAKE m
<1>1. CASE m \in DOMAIN p \cup DOMAIN q BY <1>1, CombineIs
<1>2. CASE m \notin DOMAIN p \cup DOMAIN q
  <2>1. Coef(p, m) = 0 /\ Coef(q, m) = 0 BY <1>2, CoefInt
  <2>2. m \notin DOMAIN Combine(p, q, sign) BY <1>2, CombineIs
  <2> QED BY <2>1, <2>2 DEF Coef
<1> QED BY <1>1, <1>2

LEMMA HalvesType ==
  ASSUME NEW p, IsPoly(p), NEW h \in Halves(p)
  PROVE  IsPoly(h) /\ DOMAIN h = DOMAIN p /\ Natural(h)
<1>1. 0..UlongMax \div 2 \subseteq Nat
  BY IMPolyAssumption
<1>2. h \in [DOMAIN p -> Nat]
  BY <1>1 DEF Halves
<1> QED BY <1>2 DEF IsPoly, Natural

LEMMA HalvesCoef ==
  ASSUME NEW p, IsPoly(p), Fits(p), NEW h \in Halves(p)
  PROVE  \A m : Coef(p, m) \in Nat /\ Coef(h, m) = Coef(p, m) \div 2
<1>1. \A m \in DOMAIN p : p[m] \in 0..UlongMax /\ h[m] = p[m] \div 2 BY DEF Halves, Fits
<1>2. DOMAIN h = DOMAIN p BY HalvesType
<1>3. UlongMax \in Nat BY IMPolyAssumption
<1> QED BY <1>1, <1>2, <1>3 DEF Coef

(* Before it is halved, max is twice the larger coefficient everywhere.    *)
LargerOf(p, q, m) == IF Coef(p, m) < Coef(q, m) THEN Coef(q, m) ELSE Coef(p, m)

LEMMA TwiceMaxIs ==
  ASSUME NEW p, NEW q, IsPoly(p), IsPoly(q)
  PROVE  \A m : LargerOf(p, q, m) \in Int /\ Coef(TwiceMax(p, q), m) = 2 * LargerOf(p, q, m)
<1> DEFINE S == Combine(p, q, 1)
           A == Combine(p, q, -1)
           B == Absolute(A)
<1>1. /\ IsPoly(S) /\ \A m : Coef(S, m) = Coef(p, m) + 1 * Coef(q, m)
      /\ IsPoly(A) /\ \A m : Coef(A, m) = Coef(p, m) + -1 * Coef(q, m)
  <2>1. \A sign \in {1, -1} :
          /\ IsPoly(Combine(p, q, sign))
          /\ \A m : Coef(Combine(p, q, sign), m) = Coef(p, m) + sign * Coef(q, m)
    BY CombineIs, CombineCoef
  <2> QED BY <2>1, CoefInt
<1> HIDE DEF S, A
<1>2. IsPoly(B) /\ \A m : Coef(B, m) = Magnitude(Coef(A, m)) BY <1>1, AbsoluteIs
<1> HIDE DEF B
<1>3. TwiceMax(p, q) = Combine(S, B, 1) BY DEF TwiceMax, S, A, B
<1>4. \A m : Coef(TwiceMax(p, q), m) = Coef(S, m) + 1 * Coef(B, m)
  BY <1>1, <1>2, <1>3, CombineCoef
<1> TAKE m
<1>5. Coef(p, m) \in Int /\ Coef(q, m) \in Int BY CoefInt
<1>6. Coef(S, m) = Coef(p, m) + Coef(q, m) BY <1>1, <1>5
<1>7. Coef(B, m) = IF Coef(p, m) - Coef(q, m) < 0 THEN -(Coef(p, m) - Coef(q, m))
                                                  ELSE Coef(p, m) - Coef(q, m)
  <2>1. Coef(A, m) = Coef(p, m) - Coef(q, m) BY <1>1, <1>5
  <2> QED BY <1>2, <2>1 DEF Magnitude
<1> QED BY <1>4, <1>5, <1>6, <1>7 DEF LargerOf

(* Halving then makes the larger coefficient of it, of which there is one  *)
(* at least where both operands lack the term.                             *)
LEMMA MaxIs ==
  ASSUME IMPolyAssumption, IMTypeOK
  PROVE  MaxIsLargerCoefficient
<1> SUFFICES ASSUME NEW r \in Variable, NEW q \in Variable,
                    \A m \in DOMAIN poly[r] \cup DOMAIN poly[q] :
                      /\ LargerOf(poly[r], poly[q], m) >= 0
                      /\ 2 * LargerOf(poly[r], poly[q], m) <= UlongMax
             PROVE  /\ Halves(TwiceMax(poly[r], poly[q])) # {}
                    /\ \A h \in Halves(TwiceMax(poly[r], poly[q])) :
                         \A m \in DOMAIN poly[r] \cup DOMAIN poly[q] :
                           Coef(h, m) = LargerOf(poly[r], poly[q], m)
  BY DEF MaxIsLargerCoefficient, LargerOf
<1> DEFINE p1 == poly[r]
           p2 == poly[q]
           T == TwiceMax(p1, p2)
<1>1. IsPoly(p1) /\ IsPoly(p2) /\ UlongMax \in Nat
  BY DEF IMTypeOK, IMPolyAssumption
<1>2. /\ IsPoly(T)
      /\ \A m : LargerOf(p1, p2, m) \in Int /\ Coef(T, m) = 2 * LargerOf(p1, p2, m)
  BY <1>1, TwiceMaxType, TwiceMaxIs
<1>3. \A m \in DOMAIN T : T[m] = 2 * LargerOf(p1, p2, m) BY <1>2 DEF Coef
<1>4. \A m : LargerOf(p1, p2, m) >= 0 /\ 2 * LargerOf(p1, p2, m) <= UlongMax
  <2> TAKE m
  <2>1. CASE m \in DOMAIN p1 \cup DOMAIN p2 BY <2>1
  <2>2. CASE m \notin DOMAIN p1 \cup DOMAIN p2
    <3>1. LargerOf(p1, p2, m) = 0 BY <2>2 DEF LargerOf, Coef
    <3> QED BY <1>1, <3>1
  <2> QED BY <2>1, <2>2
<1> HIDE DEF T, p1, p2
<1>5. Fits(T)
  <2>1. ASSUME NEW m \in DOMAIN T PROVE T[m] \in 0..UlongMax
    <3> DEFINE n == LargerOf(p1, p2, m)
    <3>1. n \in Int /\ n >= 0 /\ 2 * n <= UlongMax BY <1>2, <1>4
    <3>2. T[m] = 2 * n BY <1>3
    <3> HIDE DEF n
    <3> QED BY <1>1, <3>1, <3>2
  <2> QED BY <2>1 DEF Fits
<1>6. ASSUME NEW h \in Halves(T), NEW m PROVE Coef(h, m) = LargerOf(p1, p2, m)
  <2>1. Coef(h, m) = Coef(T, m) \div 2 BY <1>2, <1>5, HalvesCoef
  <2>2. Coef(T, m) = 2 * LargerOf(p1, p2, m) /\ LargerOf(p1, p2, m) \in Nat BY <1>2, <1>4
  <2>3. \A n \in Nat : (2 * n) \div 2 = n OBVIOUS
  <2> QED BY <2>1, <2>2, <2>3
<1>7. Halves(T) # {}
  <2> DEFINE half == [m \in DOMAIN T |-> T[m] \div 2]
  <2>1. \A n \in 0..UlongMax : n \div 2 \in 0..UlongMax \div 2 BY <1>1
  <2>2. half \in [DOMAIN T -> 0..UlongMax \div 2] BY <1>5, <2>1 DEF Fits
  <2>3. half \in Halves(T) BY <2>2 DEF Halves
  <2> QED BY <2>3
<1> QED BY <1>6, <1>7 DEF T, p1, p2

(* Every operation leaves a list of terms.                                 *)
LEMMA BecomesType ==
  ASSUME IMTypeOK, NEW r \in Variable, NEW p, IsPoly(p), poly' = [poly EXCEPT ![r] = p],
         status' \in {"ok", "undefined", "crashed"}
  PROVE  IMTypeOK'
<1>1. \A v \in Variable : poly'[v] = p \/ poly'[v] = poly[v]
  BY DEF IMTypeOK
<1> QED BY <1>1 DEF IMTypeOK, IsPoly

LEMMA HalveType ==
  ASSUME IMTypeOK, NEW r \in Variable, NEW p, IsPoly(p), Halve(r, p)
  PROVE  IMTypeOK'
<1>1. PICK h \in Halves(p) : /\ poly' = [poly EXCEPT ![r] = h]
                            /\ status' \in {status, "undefined"}
  BY DEF Halve, Becomes
<1>2. IsPoly(h)
  BY HalvesType
<1> QED BY <1>1, <1>2, BecomesType DEF IMTypeOK

LEMMA ZeroPolyIs == IsPoly(ZeroPoly)
BY FS_EmptySet DEF IsPoly, ZeroPoly

LEMMA TermPolyIs ==
  ASSUME IMPolyAssumption, NEW c \in Coefficient, NEW n, NEW e \in Exponent
  PROVE  IsPoly(TermPoly(c, n, e))
<1> DEFINE gen == n - 1
           mono == [it \in Invariant |-> IF it = gen THEN e ELSE 0]
           term == [m \in {mono} |-> c]
<1>1. mono \in Monomial
  BY DEF IMPolyAssumption, Monomial
<1>2. c \in Int
  BY DEF IMPolyAssumption
<1>3. IsPoly(term)
  <2>1. IsFiniteSet({mono})
    BY FS_Singleton
  <2> HIDE DEF mono
  <2> QED BY <1>1, <1>2, <2>1 DEF IsPoly
<1>4. TermPoly(c, n, e) = ZeroPoly \/ TermPoly(c, n, e) = term
  BY DEF TermPoly
<1> QED BY <1>3, <1>4, ZeroPolyIs

LEMMA OperationType ==
  ASSUME IMPolyAssumption, IMTypeOK, NEW R \in SUBSET Variable, Operation(R)
  PROVE  IMTypeOK'
<1>0. Crash => IMTypeOK'
  BY DEF Crash, IMTypeOK, IsPoly
<1>1. PICK r \in R :
       \/ Default(r) \/ Construct(r) \/ Abs(r) \/ DivideByTwo(r) \/ Str(r)
       \/ \E q \in Variable : Copy(r, q) \/ Add(r, q) \/ Subtract(r, q) \/ Multiply(r, q)
       \/ \E p, q \in Variable : Max(r, p, q)
  BY DEF Operation
<1>2. r \in Variable /\ \A v \in Variable : IsPoly(poly[v])
  BY DEF IMTypeOK
<1>3. ASSUME NEW p, IsPoly(p), Becomes(r, p)
      PROVE  IMTypeOK'
  BY <1>2, <1>3, BecomesType DEF Becomes, IMTypeOK
<1>4. CASE Default(r)
  BY <1>3, <1>4, ZeroPolyIs DEF Default
<1>5. CASE Construct(r)
  BY <1>3, <1>5, TermPolyIs DEF Construct
<1>6. CASE Abs(r)
  BY <1>0, <1>2, <1>3, <1>6, AbsoluteIs DEF Abs
<1>7. CASE DivideByTwo(r)
  BY <1>2, <1>7, HalveType DEF DivideByTwo
<1>8. CASE Str(r)
  BY <1>0, <1>8 DEF Str
<1>9. ASSUME NEW q \in Variable, Copy(r, q) \/ Add(r, q) \/ Subtract(r, q)
      PROVE  IMTypeOK'
  BY <1>2, <1>3, <1>9, CombineIs DEF Copy, Add, Subtract
<1>10. ASSUME NEW q \in Variable, Multiply(r, q)
       PROVE  IMTypeOK'
  BY <1>2, <1>3, <1>10, ProductIs DEF Multiply
<1>11. ASSUME NEW p \in Variable, NEW q \in Variable, Max(r, p, q)
       PROVE  IMTypeOK'
  <2>1. IsPoly(TwiceMax(poly[p], poly[q]))
    BY <1>2, TwiceMaxType
  <2> QED BY <1>0, <1>2, <1>11, <2>1, HalveType DEF Max
<1> QED BY <1>1, <1>4, <1>5, <1>6, <1>7, <1>8, <1>9, <1>10, <1>11
-----------------------------------------------------------------------------
LEMMA PolInitType ==
  ASSUME IMInit
  PROVE  PolTypeOK
BY ZeroPolyIs DEF IMInit, PolTypeOK, IMTypeOK

LEMMA PolNextType ==
  ASSUME IMPolyAssumption, PolFeatAssumption, PolTypeOK, [PolNext]_imvars
  PROVE  PolTypeOK'
<1> USE DEF PolTypeOK
<1>1. CASE reset
  BY <1>1, ZeroPolyIs DEF reset, IMTypeOK
<1>2. ASSUME NEW f \in Feature, NEW contribution \in Variable, add(f, contribution)
      PROVE  PolTypeOK'
  <2>1. {f} \in SUBSET Variable BY DEF PolFeatAssumption
  <2>2. Operation({f}) BY <1>2 DEF add, Operation
  <2> QED BY <2>1, <2>2, OperationType
<1>3. CASE Compute
  <2>1. Variable \ Feature \in SUBSET Variable OBVIOUS
  <2> QED BY <1>3, <2>1, OperationType DEF Compute
<1>4. CASE UNCHANGED imvars
  BY <1>4 DEF imvars, IMTypeOK, IsPoly
<1> QED BY <1>1, <1>2, <1>3, <1>4 DEF PolNext

(* The polynomials of a PolFeatSet stay lists of terms with exponents that *)
(* are natural numbers.                                                    *)
THEOREM PolTypeCorrect == PolSpec => []PolTypeOK
<1>1. IMInit => PolTypeOK
  BY PolInitType
<1>2. PolTypeOK /\ [PolNext]_imvars => PolTypeOK'
  BY PolNextType, IMPolyAssumption, PolFeatAssumption
<1> QED BY <1>1, <1>2, PTL DEF PolSpec

(* In every state max of any two objects is the larger coefficient of      *)
(* either at each monomial, when none is negative and their doubles fit:   *)
(* whatever terms cancel on the way or have coefficient zero.              *)
THEOREM MaxCorrect == PolSpec => []MaxIsLargerCoefficient
<1>1. PolTypeOK => MaxIsLargerCoefficient
  BY MaxIs, IMPolyAssumption DEF PolTypeOK
<1> QED BY <1>1, PolTypeCorrect, PTL

-----------------------------------------------------------------------------
(* What the operations make of the costs.                                    *)
LEMMA CombineCosts ==
  ASSUME NEW p, NEW q, IsPoly(p), IsPoly(q), NEW sign \in {1, -1}
  PROVE  /\ \A x \in Point : Eval(Combine(p, q, sign))[x] = Eval(p)[x] + sign * Eval(q)[x]
         /\ sign = 1 /\ Natural(p) /\ Natural(q) => Natural(Combine(p, q, sign))
<1>1. IsPoly(Combine(p, q, sign)) BY CombineIs
<1>2. \A m : Coef(Combine(p, q, sign), m) = Coef(p, m) + sign * Coef(q, m) BY CombineCoef
<1>3. ASSUME sign = 1, Natural(p), Natural(q) PROVE Natural(Combine(p, q, sign))
  <2>1. \A m : Coef(p, m) \in Int /\ Coef(q, m) \in Int /\ Coef(p, m) >= 0 /\ Coef(q, m) >= 0
    BY <1>3, CoefInt DEF Natural, Coef
  <2>2. \A m : Coef(Combine(p, q, sign), m) >= 0 BY <1>2, <1>3, <2>1
  <2> QED BY <2>2 DEF Natural, Coef
<1>4. sign \in Int OBVIOUS
<1> QED BY <1>1, <1>2, <1>3, <1>4, EvalLinear

LEMMA ZeroCosts == Natural(ZeroPoly) /\ \A x \in Point : Eval(ZeroPoly)[x] = 0
<1>1. DOMAIN ZeroPoly = {} BY DEF ZeroPoly
<1>2. ASSUME NEW x \in Point PROVE Eval(ZeroPoly)[x] = 0
  <2>1. {} \in SUBSET Monomial /\ IsFiniteSet({}) BY FS_EmptySet
  <2>2. Eval(ZeroPoly)[x] = Sum(Worth(ZeroPoly, x, {}), {})
    BY <1>1, <2>1, ZeroPolyIs, EvalOver
  <2>3. \A m \in {} : Worth(ZeroPoly, x, {})[m] = 0 OBVIOUS
  <2> QED BY <2>1, <2>2, <2>3, SumOfZeros
<1> QED BY <1>1, <1>2 DEF Natural

LEMMA TermCosts ==
  ASSUME NEW c \in Coefficient, NEW it \in Invariant, NEW e \in Exponent
  PROVE  /\ Natural(TermPoly(c, enumerate(it), e))
         /\ \A x \in Point : Eval(TermPoly(c, enumerate(it), e))[x] = c * Power(x[it], e)
<1> DEFINE T == TermPoly(c, enumerate(it), e)
           mono == [i \in Invariant |-> IF i = it THEN e ELSE 0]
<1>1. c \in Nat /\ e \in Nat /\ it \in Nat
  BY IMPolyAssumption DEF InvariantTypeNum
<1>2. enumerate(it) - 1 = it BY <1>1 DEF enumerate
<1>3. T = IF c = 0 THEN ZeroPoly ELSE [m \in {mono} |-> c]
  BY <1>2 DEF TermPoly
<1>4. IsPoly(T) BY TermPolyIs, IMPolyAssumption
<1>5. mono \in Monomial BY <1>1 DEF Monomial
<1>6. mono[it] = e /\ \A i \in Invariant : i # it => mono[i] = 0 OBVIOUS
<1> HIDE DEF mono, T
<1>7. Coef(T, mono) = c /\ DOMAIN T \subseteq {mono}
  <2>1. CASE c = 0 BY <1>3, <2>1 DEF Coef, ZeroPoly
  <2>2. CASE c # 0 BY <1>3, <2>2 DEF Coef
  <2> QED BY <2>1, <2>2
<1>8. Natural(T) BY <1>1, <1>3, ZeroCosts DEF Natural
<1>9. ASSUME NEW x \in Point PROVE Eval(T)[x] = c * Power(x[it], e)
  <2> DEFINE D == {mono}
             w == Worth(T, x, D)
  <2>1. D \in SUBSET Monomial /\ IsFiniteSet(D) /\ DOMAIN T \subseteq D
    BY <1>5, <1>7, FS_Singleton
  <2>2. Eval(T)[x] = Sum(w, D)
    <3> HIDE DEF D
    <3> QED BY <1>4, <2>1, EvalOver
  <2>3. w[mono] = c * Value(mono, x) BY <1>7 DEF Worth
  <2>4. Value(mono, x) = Power(x[it], e) BY <1>1, <1>5, <1>6, ValueSingle
  <2>5. w[mono] \in Int
    <3>1. mono \in D OBVIOUS
    <3> HIDE DEF D
    <3> QED BY <1>4, <2>1, <3>1, WorthInt
  <2> HIDE DEF w
  <2>6. Sum(w, {mono}) = w[mono] BY <2>5, SumOne
  <2> QED BY <2>2, <2>3, <2>4, <2>6
<1> QED BY <1>8, <1>9 DEF T

LEMMA AbsoluteCosts ==
  ASSUME NEW p, IsPoly(p)
  PROVE  /\ Natural(Absolute(p))
         /\ \A x \in Point : Eval(p)[x] <= Eval(Absolute(p))[x] /\ -Eval(p)[x] <= Eval(Absolute(p))[x]
         /\ Natural(p) => Absolute(p) = p
<1>1. IsPoly(Absolute(p)) /\ \A m : Coef(Absolute(p), m) = Magnitude(Coef(p, m)) BY AbsoluteIs
<1>2. \A n \in Int : Magnitude(n) >= 0 /\ 1 * n <= Magnitude(n) /\ -1 * n <= Magnitude(n)
  BY DEF Magnitude
<1>3. \A m : /\ Coef(Absolute(p), m) >= 0
             /\ 1 * Coef(p, m) <= Coef(Absolute(p), m)
             /\ -1 * Coef(p, m) <= Coef(Absolute(p), m)
  BY <1>1, <1>2, CoefInt
<1>4. ASSUME NEW x \in Point
      PROVE  Eval(p)[x] <= Eval(Absolute(p))[x] /\ -Eval(p)[x] <= Eval(Absolute(p))[x]
  <2>1. 1 * Eval(p)[x] <= Eval(Absolute(p))[x] BY <1>1, <1>3, EvalAtMost
  <2>2. -1 * Eval(p)[x] <= Eval(Absolute(p))[x]
    <3>1. PICK k : k = -1 OBVIOUS
    <3>2. k \in Int /\ \A m : k * Coef(p, m) <= Coef(Absolute(p), m)
      BY <1>3, <3>1, CoefInt
    <3>3. k * Eval(p)[x] <= Eval(Absolute(p))[x] BY <1>1, <3>2, EvalAtMost
    <3>4. Eval(p)[x] \in Int BY EvalOver DEF IsPoly
    <3> QED BY <3>1, <3>3, <3>4
  <2>3. Eval(p)[x] \in Int BY EvalOver DEF IsPoly
  <2> QED BY <2>1, <2>2, <2>3
<1>5. Natural(Absolute(p)) BY <1>3 DEF Natural, Coef
<1>6. ASSUME Natural(p) PROVE Absolute(p) = p
  <2>1. p = [m \in DOMAIN p |-> p[m]] BY DEF IsPoly
  <2>2. \A m \in DOMAIN p : p[m] \in Int /\ p[m] >= 0 BY <1>6 DEF IsPoly, Natural
  <2>3. \A m \in DOMAIN p : Magnitude(p[m]) = p[m] BY <2>2 DEF Magnitude
  <2> QED BY <2>1, <2>3 DEF Absolute
<1> QED BY <1>4, <1>5, <1>6

LEMMA HalfCosts ==
  ASSUME NEW p, IsPoly(p), Fits(p), NEW h \in Halves(p)
  PROVE  /\ Natural(p) /\ Natural(h)
         /\ \A x \in Point : 2 * Eval(h)[x] <= Eval(p)[x]
<1>1. IsPoly(h) /\ Natural(h) BY HalvesType
<1>2. \A m : Coef(p, m) \in Nat /\ Coef(h, m) = Coef(p, m) \div 2 BY HalvesCoef
<1>3. \A n \in Nat : 2 * (n \div 2) <= n OBVIOUS
<1>4. \A m : 2 * Coef(h, m) <= Coef(p, m) BY <1>2, <1>3
<1>5. \A x \in Point : 2 * Eval(h)[x] <= Eval(p)[x] BY <1>1, <1>4, EvalAtMost
<1>6. Natural(p) BY <1>2 DEF Natural, Coef
<1> QED BY <1>1, <1>5, <1>6

(* max is at least either operand, and at most their sum if neither has a    *)
(* negative part.                                                            *)
LEMMA MaxCosts ==
  ASSUME NEW p, NEW q, IsPoly(p), IsPoly(q),
         Fits(TwiceMax(p, q)), NEW h \in Halves(TwiceMax(p, q))
  PROVE  \A x \in Point :
           /\ Eval(p)[x] <= Eval(h)[x] /\ Eval(q)[x] <= Eval(h)[x]
           /\ Natural(p) /\ Natural(q) => Eval(h)[x] <= Eval(p)[x] + Eval(q)[x]
<1> DEFINE S == Combine(p, q, 1)
<1>1. IsPoly(S) /\ \A m : Coef(S, m) = Coef(p, m) + 1 * Coef(q, m) BY CombineIs, CombineCoef
<1>2. \A x \in Point : Eval(S)[x] = Eval(p)[x] + 1 * Eval(q)[x] BY CombineCosts
<1> HIDE DEF S
<1>3. IsPoly(TwiceMax(p, q)) BY TwiceMaxType
<1>4. /\ IsPoly(h)
      /\ \A m : /\ Coef(TwiceMax(p, q), m) \in Nat
                /\ Coef(h, m) = Coef(TwiceMax(p, q), m) \div 2
  BY <1>3, HalvesType, HalvesCoef
<1>5. \A m : Coef(p, m) \in Int /\ Coef(q, m) \in Int BY CoefInt
<1>6. \A m : Coef(h, m) = LargerOf(p, q, m)
  <2> TAKE m
  <2> DEFINE n == LargerOf(p, q, m)
             t == Coef(TwiceMax(p, q), m)
  <2>1. n \in Int /\ t = 2 * n BY TwiceMaxIs
  <2>2. t \in Nat /\ Coef(h, m) = t \div 2 BY <1>4
  <2> HIDE DEF n, t
  <2>3. t \div 2 = n BY <2>1, <2>2
  <2> QED BY <2>2, <2>3 DEF n
<1>7. \A m : 1 * Coef(p, m) <= Coef(h, m) /\ 1 * Coef(q, m) <= Coef(h, m)
  BY <1>5, <1>6 DEF LargerOf
<1>8. ASSUME Natural(p), Natural(q), NEW m PROVE 1 * Coef(h, m) <= Coef(S, m)
  <2>1. Coef(p, m) >= 0 /\ Coef(q, m) >= 0 BY <1>8 DEF Natural, Coef
  <2> QED BY <1>1, <1>5, <1>6, <2>1 DEF LargerOf
<1> TAKE x \in Point
<1>9. Eval(p)[x] \in Int /\ Eval(q)[x] \in Int /\ Eval(h)[x] \in Int
  BY <1>4, EvalOver DEF IsPoly
<1>10. 1 * Eval(p)[x] <= Eval(h)[x] /\ 1 * Eval(q)[x] <= Eval(h)[x]
  BY <1>4, <1>7, EvalAtMost
<1>11. ASSUME Natural(p), Natural(q) PROVE 1 * Eval(h)[x] <= Eval(S)[x]
  BY <1>1, <1>4, <1>8, <1>11, EvalAtMost
<1>12. ASSUME Natural(p), Natural(q) PROVE Eval(h)[x] <= Eval(p)[x] + Eval(q)[x]
  <2>1. 1 * Eval(h)[x] <= Eval(S)[x] BY <1>11, <1>12
  <2> QED BY <1>2, <1>9, <2>1
<1> QED BY <1>9, <1>10, <1>12

-----------------------------------------------------------------------------
(* Writing one object is a step of the specification of costs on it.         *)
LEMMA OneCost ==
  ASSUME IMTypeOK, NEW r \in Variable, NEW p, poly' = [poly EXCEPT ![r] = p]
  PROVE  Costs!Only({r}) /\ poly'[r] = p
<1>1. poly'[r] = p /\ \A v \in Variable : v # r => poly'[v] = poly[v] BY DEF IMTypeOK
<1> QED BY <1>1 DEF Costs!Only

LEMMA BecomesCosts ==
  ASSUME IMTypeOK, status = "ok", NEW r \in Variable, NEW p, Becomes(r, p)
  PROVE  Costs!Returns /\ Costs!Only({r}) /\ poly'[r] = p
BY OneCost DEF Becomes, Costs!Returns

LEMMA CrashCosts ==
  ASSUME Crash
  PROVE  Costs!Ends
BY DEF Crash, Costs!Ends, Eval, Natural

LEMMA EvalInt ==
  ASSUME IMTypeOK
  PROVE  /\ \A v \in Variable : IsPoly(poly[v])
         /\ \A v \in Variable, x \in Point : Eval(poly[v])[x] \in Int
<1>1. \A v \in Variable : IsPoly(poly[v]) BY DEF IMTypeOK
<1> QED BY <1>1, EvalOver DEF IsPoly

(* Each operation is the call of the specification its label names.          *)
LEMMA DefaultStep ==
  ASSUME IMTypeOK, status = "ok", NEW r \in Variable, Default(r)
  PROVE  Costs!Zero({r})
<1>1. last' = <<"zero", {r}>> /\ Becomes(r, ZeroPoly) BY DEF Default, Called
<1>2. Costs!Returns /\ Costs!Only({r}) /\ poly'[r] = ZeroPoly BY <1>1, BecomesCosts
<1> QED BY <1>1, <1>2, ZeroCosts DEF Costs!Zero

LEMMA ConstructStep ==
  ASSUME IMTypeOK, status = "ok", NEW r \in Variable, Construct(r)
  PROVE  Costs!Term(r)
<1>1. last' = <<"term", r>> BY DEF Construct, Called
<1>2. PICK c \in Coefficient, it \in Invariant, e \in Exponent :
        Becomes(r, TermPoly(c, enumerate(it), e))
  BY DEF Construct
<1>3. /\ Costs!Returns /\ Costs!Only({r}) /\ poly'[r] = TermPoly(c, enumerate(it), e)
  BY <1>2, BecomesCosts
<1>4. /\ Natural(poly'[r])
      /\ \A x \in Point : Eval(poly'[r])[x] = c * Power(x[it], e)
  BY <1>3, TermCosts
<1> QED BY <1>1, <1>3, <1>4 DEF Costs!Term, Costs!Power, Power

LEMMA AbsStep ==
  ASSUME IMTypeOK, status = "ok", NEW r \in Variable, Abs(r)
  PROVE  Costs!Abs(r)
<1>1. last' = <<"abs", r>> BY DEF Abs, Called
<1>2. IsPoly(poly[r]) BY EvalInt
<1>3. CASE Becomes(r, Absolute(poly[r]))
  <2>1. Costs!Returns /\ Costs!Only({r}) /\ poly'[r] = Absolute(poly[r]) BY <1>3, BecomesCosts
  <2>2. /\ Natural(poly'[r])
        /\ \A x \in Point : Eval(poly[r])[x] <= Eval(poly'[r])[x] /\ -Eval(poly[r])[x] <= Eval(poly'[r])[x]
        /\ Natural(poly[r]) => poly'[r] = poly[r]
    BY <1>2, <2>1, AbsoluteCosts
  <2> QED BY <1>1, <2>1, <2>2 DEF Costs!Abs
<1>4. CASE Crash BY <1>1, <1>4, CrashCosts DEF Costs!Abs
<1> QED BY <1>3, <1>4 DEF Abs

LEMMA HalveStep ==
  ASSUME IMTypeOK, status = "ok", NEW r \in Variable, DivideByTwo(r)
  PROVE  Costs!Halve(r)
<1>1. last' = <<"halve", r>> /\ Halve(r, poly[r]) BY DEF DivideByTwo, Called
<1>2. IsPoly(poly[r]) BY EvalInt
<1>3. ASSUME Fits(poly[r]), NEW h \in Halves(poly[r]), Becomes(r, h)
      PROVE  Costs!Halve(r)
  <2>1. Costs!Returns /\ Costs!Only({r}) /\ poly'[r] = h BY <1>3, BecomesCosts
  <2>2. /\ Natural(poly[r]) /\ Natural(poly'[r])
        /\ \A x \in Point : 2 * Eval(poly'[r])[x] <= Eval(poly[r])[x]
    BY <1>2, <1>3, <2>1, HalfCosts
  <2> QED BY <1>1, <2>1, <2>2 DEF Costs!Halve
<1>4. ASSUME NEW h, poly' = [poly EXCEPT ![r] = h], status' = "undefined"
      PROVE  Costs!Halve(r)
  BY <1>1, <1>4, OneCost DEF Costs!Halve
<1> QED BY <1>1, <1>3, <1>4 DEF Halve

LEMMA CopyStep ==
  ASSUME IMTypeOK, status = "ok", NEW r \in Variable, NEW q \in Variable, Copy(r, q)
  PROVE  Costs!Copy(r, q)
<1>1. last' = <<"copy", r, q>> /\ Becomes(r, poly[q]) BY DEF Copy, Called
<1>2. Costs!Returns /\ Costs!Only({r}) /\ poly'[r] = poly[q] BY <1>1, BecomesCosts
<1> QED BY <1>1, <1>2 DEF Costs!Copy

LEMMA AddStep ==
  ASSUME IMTypeOK, status = "ok", NEW r \in Variable, NEW q \in Variable, Add(r, q)
  PROVE  Costs!Add(r, q)
<1>1. last' = <<"add", r, q>> /\ Becomes(r, Combine(poly[r], poly[q], 1)) BY DEF Add, Called
<1>2. Costs!Returns /\ Costs!Only({r}) /\ poly'[r] = Combine(poly[r], poly[q], 1)
  BY <1>1, BecomesCosts
<1>3. /\ \A x \in Point : Eval(poly'[r])[x] = Eval(poly[r])[x] + 1 * Eval(poly[q])[x]
      /\ Natural(poly[r]) /\ Natural(poly[q]) => Natural(poly'[r])
  BY <1>2, EvalInt, CombineCosts
<1>4. \A x \in Point : Eval(poly'[r])[x] = Eval(poly[r])[x] + Eval(poly[q])[x] BY <1>3, EvalInt
<1> QED BY <1>1, <1>2, <1>3, <1>4 DEF Costs!Add

LEMMA SubtractStep ==
  ASSUME IMTypeOK, status = "ok", NEW r \in Variable, NEW q \in Variable, Subtract(r, q)
  PROVE  Costs!Subtract(r, q)
<1>1. last' = <<"subtract", r, q>> /\ Becomes(r, Combine(poly[r], poly[q], -1))
  BY DEF Subtract, Called
<1>2. Costs!Returns /\ Costs!Only({r}) /\ poly'[r] = Combine(poly[r], poly[q], -1)
  BY <1>1, BecomesCosts
<1>3. \A x \in Point : Eval(poly'[r])[x] = Eval(poly[r])[x] + -1 * Eval(poly[q])[x]
  BY <1>2, EvalInt, CombineCosts
<1>4. \A x \in Point : Eval(poly'[r])[x] = Eval(poly[r])[x] - Eval(poly[q])[x] BY <1>3, EvalInt
<1> QED BY <1>1, <1>2, <1>4 DEF Costs!Subtract

LEMMA MultiplyStep ==
  ASSUME IMTypeOK, status = "ok", NEW r \in Variable, NEW q \in Variable, Multiply(r, q)
  PROVE  Costs!Multiply(r, q)
<1>1. last' = <<"multiply", r, q>> /\ Becomes(r, Product(poly[r], poly[q]))
  BY DEF Multiply, Called
<1>2. Costs!Returns /\ Costs!Only({r}) /\ poly'[r] = Product(poly[r], poly[q])
  BY <1>1, BecomesCosts
<1>3. /\ \A x \in Point : Eval(poly'[r])[x] = Eval(poly[r])[x] * Eval(poly[q])[x]
      /\ Natural(poly[r]) /\ Natural(poly[q]) => Natural(poly'[r])
  BY <1>2, EvalInt, ProductIs
<1> QED BY <1>1, <1>2, <1>3 DEF Costs!Multiply

LEMMA MaxStep ==
  ASSUME IMTypeOK, status = "ok",
         NEW r \in Variable, NEW p \in Variable, NEW q \in Variable, Max(r, p, q)
  PROVE  Costs!Max(r, p, q)
<1> DEFINE T == TwiceMax(poly[p], poly[q])
<1>1. last' = <<"max", r, p, q>> BY DEF Max, Called
<1>2. IsPoly(poly[p]) /\ IsPoly(poly[q]) /\ IsPoly(T) BY EvalInt, TwiceMaxType
<1>3. ASSUME Fits(T), NEW h \in Halves(T), Becomes(r, h)
      PROVE  Costs!Max(r, p, q)
  <2>1. Costs!Returns /\ Costs!Only({r}) /\ poly'[r] = h BY <1>3, BecomesCosts
  <2>2. Natural(poly'[r]) BY <1>2, <1>3, <2>1, HalvesType
  <2>3. \A x \in Point :
          /\ Eval(poly[p])[x] <= Eval(poly'[r])[x] /\ Eval(poly[q])[x] <= Eval(poly'[r])[x]
          /\ Natural(poly[p]) /\ Natural(poly[q])
               => Eval(poly'[r])[x] <= Eval(poly[p])[x] + Eval(poly[q])[x]
    BY <1>2, <1>3, <2>1, MaxCosts
  <2> QED BY <1>1, <2>1, <2>2, <2>3 DEF Costs!Max
<1>4. ASSUME NEW h, poly' = [poly EXCEPT ![r] = h], status' = "undefined"
      PROVE  Costs!Max(r, p, q)
  BY <1>1, <1>4, OneCost DEF Costs!Max
<1>5. ASSUME Crash PROVE Costs!Max(r, p, q)
  BY <1>1, <1>5, CrashCosts DEF Costs!Max
<1> QED BY <1>3, <1>4, <1>5 DEF Max, Halve

LEMMA StrStep ==
  ASSUME NEW r \in Variable, Str(r)
  PROVE  Costs!Str(r)
BY CrashCosts DEF Str, Called, Costs!Str

LEMMA OperationCosts ==
  ASSUME IMTypeOK, NEW R \in SUBSET Variable, Operation(R)
  PROVE  Costs!Next
<1>1. PICK r \in R :
       \/ Default(r) \/ Construct(r) \/ Abs(r) \/ DivideByTwo(r) \/ Str(r)
       \/ \E q \in Variable : Copy(r, q) \/ Add(r, q) \/ Subtract(r, q) \/ Multiply(r, q)
       \/ \E p, q \in Variable : Max(r, p, q)
  BY DEF Operation
<1>2. status = "ok" /\ r \in Variable /\ {r} \in SUBSET Variable BY DEF Operation
<1>3. CASE Default(r)
  BY <1>2, <1>3, DefaultStep DEF Costs!Next
<1>4. CASE Construct(r) \/ Abs(r) \/ DivideByTwo(r) \/ Str(r)
  <2>1. Costs!Term(r) \/ Costs!Abs(r) \/ Costs!Halve(r) \/ Costs!Str(r)
    BY <1>2, <1>4, ConstructStep, AbsStep, HalveStep, StrStep
  <2> QED BY <1>2, <2>1 DEF Costs!Next
<1>5. ASSUME NEW q \in Variable, Copy(r, q) \/ Add(r, q) \/ Subtract(r, q) \/ Multiply(r, q)
      PROVE  Costs!Next
  <2>1. Costs!Copy(r, q) \/ Costs!Add(r, q) \/ Costs!Subtract(r, q) \/ Costs!Multiply(r, q)
    BY <1>2, <1>5, CopyStep, AddStep, SubtractStep, MultiplyStep
  <2> QED BY <1>2, <2>1 DEF Costs!Next
<1>6. ASSUME NEW p \in Variable, NEW q \in Variable, Max(r, p, q)
      PROVE  Costs!Next
  <2>1. Costs!Max(r, p, q) BY <1>2, <1>6, MaxStep
  <2> QED BY <1>2, <2>1 DEF Costs!Next
<1> QED BY <1>1, <1>3, <1>4, <1>5, <1>6

(* A reset is Zero of the features, an add a sum, and everything else an     *)
(* operation of the class.                                                   *)
LEMMA CostsStep ==
  ASSUME PolTypeOK, [PolNext]_imvars
  PROVE  [Costs!Next]_Costs!vars
<1>1. IMTypeOK BY DEF PolTypeOK
<1>2. CASE reset
  <2>1. /\ status = "ok" /\ status' = "ok" /\ Feature \in SUBSET Variable
        /\ last' = <<"zero", Feature>>
        /\ \A v \in Feature : poly'[v] = ZeroPoly
        /\ \A v \in Variable \ Feature : poly'[v] = poly[v]
    BY <1>2, PolFeatAssumption DEF reset, Called
  <2>2. Costs!Zero(Feature) BY <2>1, ZeroCosts DEF Costs!Zero, Costs!Only, Costs!Returns
  <2> QED BY <2>1, <2>2 DEF Costs!Next
<1>3. ASSUME NEW f \in Feature, NEW contribution \in Variable, add(f, contribution)
      PROVE  Costs!Next
  <2>1. {f} \in SUBSET Variable BY PolFeatAssumption
  <2>2. Operation({f}) BY <1>3 DEF add, Operation
  <2> QED BY <1>1, <2>1, <2>2, OperationCosts
<1>4. CASE Compute
  <2>1. Variable \ Feature \in SUBSET Variable OBVIOUS
  <2> QED BY <1>1, <1>4, <2>1, OperationCosts DEF Compute
<1>5. CASE UNCHANGED imvars
  <2>1. poly' = poly /\ status' = status /\ last' = last BY <1>5 DEF imvars
  <2> QED BY <2>1 DEF Costs!vars, Eval, Natural
<1> QED BY <1>2, <1>3, <1>4, <1>5 DEF PolNext

(* PolFeatSet and the polynomials it computes with implement the             *)
(* specification of costs: after each call the costs are those the           *)
(* specification promises of that very call, sums, differences, products and *)
(* copies exactly at every point and without exception, and a reset brings   *)
(* the cost of every feature back to zero.                                   *)
THEOREM CostsImplemented == PolSpec => ImplementsCosts
<1>1. IMInit => Costs!Init
  BY ZeroCosts DEF IMInit, Costs!Init, Eval
<1>2. IMInit => PolTypeOK
  BY PolInitType
<1>3. PolTypeOK /\ [PolNext]_imvars => PolTypeOK'
  BY PolNextType, IMPolyAssumption, PolFeatAssumption
<1>4. PolTypeOK /\ [PolNext]_imvars => [Costs!Next]_Costs!vars
  BY CostsStep
<1> QED BY <1>1, <1>2, <1>3, <1>4, PTL DEF PolSpec, ImplementsCosts, Costs!Spec
=============================================================================
