--------------------------- MODULE Kofler13Proofs ---------------------------
(***************************************************************************)
(* Theorems about Kofler13, for every loop forest, every shape and bounds  *)
(* of the loops and every width of int.                                    *)
(***************************************************************************)
EXTENDS Kofler13, SequenceTheorems, WellFoundedInduction, TLAPS

-----------------------------------------------------------------------------
(* An unsigned has at least one value, and its values are counted by Turn.   *)
LEMMA TurnType == Turn \in Nat \ {0}
  BY IntMaxAssumption DEF Turn

LEMMA IntsAreInt == Ints \subseteq Int /\ 0 \in Ints
  BY IntMaxAssumption DEF Ints, IntMin

LEMMA UnsignedAreNat == 0..(Turn - 1) \subseteq Nat /\ {0, 1} \subseteq 0..(Turn - 1)
  BY IntMaxAssumption DEF Turn

LEMMA ProductInt == \A x, y \in Int : x * y \in Int
  OBVIOUS

(* Wrapping an integer gives an int.                                         *)
LEMMA ToIntType == ASSUME NEW x \in Int PROVE ToInt(x) \in Ints
  BY IntMaxAssumption DEF ToInt, IsInt, IntMin, Ints, Turn

(* Wrapping to unsigned gives an unsigned, and changes no unsigned.          *)
LEMMA UIntType ==
  ASSUME NEW x \in Int
  PROVE  UInt(x) \in 0..(Turn - 1) /\ (0 <= x /\ x < Turn => UInt(x) = x)
<1> DEFINE M == Turn
<1>1. M \in Nat \ {0} BY TurnType
<1> HIDE DEF M
<1>2. x % M \in 0..(M - 1) /\ (0 <= x /\ x < M => x % M = x) BY <1>1
<1> QED BY <1>2 DEF UInt, M

(* Numbers a whole number of turns apart are the same unsigned.              *)
LEMMA UIntTurns ==
  ASSUME NEW x \in Int, NEW q \in Int
  PROVE  UInt(x + q * Turn) = UInt(x)
<1> DEFINE M == Turn
           y == x + q * M
           d == x \div M - (y \div M - q)
<1>1. M \in Nat \ {0} BY TurnType
<1> SUFFICES y % M = x % M BY DEF UInt
<1> HIDE DEF M
<1>2. q * M \in Int BY <1>1
<1>3. y \in Int BY <1>2
<1>4. x = M * (x \div M) + (x % M) /\ x \div M \in Int /\ x % M \in 0..(M - 1)
  BY <1>1
<1>5. y = M * (y \div M) + (y % M) /\ y \div M \in Int /\ y % M \in 0..(M - 1)
  <2> HIDE DEF y
  <2> QED BY <1>1, <1>3
<1>6. d \in Int BY <1>4, <1>5
<1>7. (y % M) - (x % M) = M * d
  <2>1. M * d = M * (x \div M) - M * (y \div M) + M * q
    <3> DEFINE a == x \div M  b == y \div M
    <3>1. a \in Int /\ b \in Int BY <1>4, <1>5
    <3> HIDE DEF a, b, y
    <3>2. M * (a - (b - q)) = M * a - M * b + M * q BY <1>1, <3>1
    <3> QED BY <3>2 DEF a, b
  <2>2. M * q = q * M BY <1>1
  <2> DEFINE a == M * (x \div M)  b == M * (y \div M)  r == x % M  t == y % M  e == M * d
             p == q * M
  <2>3. x = a + r /\ x + p = b + t /\ e = a - b + p BY <1>4, <1>5, <2>1, <2>2
  <2>4. a \in Int /\ b \in Int /\ r \in Int /\ t \in Int /\ p \in Int
    BY <1>1, <1>2, <1>4, <1>5
  <2> HIDE DEF a, b, r, t, e, p
  <2>5. t - r = e BY <2>3, <2>4
  <2> QED BY <2>5 DEF t, r, e
<1>8. (y % M) - (x % M) \in -(M - 1)..(M - 1) BY <1>1, <1>4, <1>5
<1> HIDE DEF d, y
<1>9. CASE d >= 1
  <2>1. M * d >= M BY <1>1, <1>6, <1>9
  <2> QED BY <1>1, <1>7, <1>8, <2>1
<1>10. CASE d <= -1
  <2>1. M * d <= -M BY <1>1, <1>6, <1>10
  <2> QED BY <1>1, <1>7, <1>8, <2>1
<1>11. CASE d = 0
  <2> DEFINE r == x % M  t == y % M
  <2>1. M * d = 0 BY <1>1, <1>11
  <2>2. t - r = 0 BY <1>7, <2>1
  <2>3. r \in Int /\ t \in Int BY <1>1, <1>4, <1>5
  <2> HIDE DEF r, t
  <2> QED BY <2>2, <2>3 DEF r, t
<1> QED BY <1>6, <1>9, <1>10, <1>11

(* Wrapping a factor does not change the wrapped product.                    *)
LEMMA UIntProduct ==
  ASSUME NEW x \in Int, NEW c \in Int
  PROVE  UInt(UInt(x) * c) = UInt(x * c)
<1> DEFINE M == Turn
           r == x % M
           p == x \div M
<1>1. M \in Nat \ {0} BY TurnType
<1>2. x = M * p + r /\ p \in Int /\ r \in Int
  <2> HIDE DEF M
  <2> QED BY <1>1
<1> HIDE DEF M, r, p
<1>3. r * c \in Int /\ p * c \in Int BY <1>2
<1>4. x * c = r * c + (p * c) * M BY <1>1, <1>2
<1>5. UInt(r * c + (p * c) * M) = UInt(r * c) BY <1>3, UIntTurns DEF M
<1> QED BY <1>4, <1>5 DEF UInt, r, M

-----------------------------------------------------------------------------
(* Recursion over an initial segment of the naturals, on which the product   *)
(* of the contributions is defined.                                          *)
LEMMA LeastNatural ==
  ASSUME NEW S \in SUBSET Nat, S # {}
  PROVE  \E n \in S : \A m \in S : n <= m
<1> DEFINE Below == {p \in Nat \X Nat : p[1] < p[2]}
<1>1. IsWellFoundedOn(Below, Nat) BY NatLessThanWellFounded DEF OpToRel
<1>2. PICK n \in S : \A m \in S : <<m, n>> \notin Below
  <2> HIDE DEF Below
  <2> QED BY <1>1, WFMin
<1>3. ASSUME NEW m \in S PROVE n <= m
  <2>1. m \in Nat /\ n \in Nat /\ ~(m < n) BY <1>2
  <2> QED BY <2>1
<1> QED BY <1>3

Recurs(f, D, N, base, next) ==
  /\ f \in [0..N -> D]
  /\ f[0] = base
  /\ \A n \in 1..N : f[n] = next[<<n, f[n - 1]>>]

LEMMA Recursion ==
  ASSUME NEW D, NEW N \in Nat, NEW base \in D, NEW next \in [(1..N) \X D -> D]
  PROVE  \E f : Recurs(f, D, N, base, next)
<1> DEFINE Runs(f, n) == f[0] = base /\ \A i \in 1..n : f[i] = next[<<i, f[i - 1]>>]
           Bad == {n \in 0..N : ~\E f \in [0..n -> D] : Runs(f, n)}
<1>1. SUFFICES ASSUME Bad # {} PROVE FALSE
  <2>1. N \in 0..N OBVIOUS
  <2> QED BY <1>1, <2>1 DEF Recurs
<1>2. PICK n \in Bad : \A m \in Bad : n <= m
  <2>1. Bad \in SUBSET Nat OBVIOUS
  <2> HIDE DEF Bad
  <2> QED BY <1>1, <2>1, LeastNatural
<1>3. n \in 0..N /\ ~\E f \in [0..n -> D] : Runs(f, n) OBVIOUS
<1>4. n # 0
  <2>1. Runs([i \in 0..0 |-> base], 0) OBVIOUS
  <2> QED BY <1>3, <2>1
<1>5. n - 1 \in 0..N /\ n - 1 \notin Bad BY <1>2, <1>3, <1>4
<1>6. PICK f \in [0..(n - 1) -> D] : Runs(f, n - 1) BY <1>5
<1> DEFINE g == [i \in 0..n |-> IF i = n THEN next[<<n, f[n - 1]>>] ELSE f[i]]
<1>7. f[n - 1] \in D /\ n \in 1..N BY <1>3, <1>4
<1>8. g \in [0..n -> D] BY <1>7
<1>9. Runs(g, n)
  <2>1. g[0] = base BY <1>3, <1>4, <1>6
  <2>2. ASSUME NEW i \in 1..n PROVE g[i] = next[<<i, g[i - 1]>>]
    <3>1. i - 1 \in 0..n /\ i \in 0..n /\ i - 1 # n BY <1>3
    <3>2. g[i - 1] = f[i - 1] BY <3>1
    <3>3. CASE i = n BY <3>1, <3>2, <3>3
    <3>4. CASE i # n
      <4>1. i \in 1..(n - 1) BY <1>3, <3>4
      <4>2. f[i] = next[<<i, f[i - 1]>>] BY <1>6, <4>1
      <4>3. g[i] = f[i] BY <3>1, <3>4
      <4> QED BY <3>2, <4>2, <4>3
    <3> QED BY <3>3, <3>4
  <2> QED BY <2>1, <2>2
<1> QED BY <1>3, <1>8, <1>9

-----------------------------------------------------------------------------
(* Taking the first loop of a nonempty worklist off it.                      *)
LEMMA HeadTail ==
  ASSUME NEW s \in Seq(Loop), s # <<>>
  PROVE  Head(s) \in Loop /\ Tail(s) \in Seq(Loop)
OBVIOUS

LEMMA CostType ==
  ASSUME TypeOK, NEW l \in Loop
  PROVE  loopContribution(l) \in Ints
BY Kofler13Assumption DEF TypeOK, Bounds, loopContribution, Unknown

(* The contributions of a loop are ints, so that the product exists and      *)
(* grows by the contributions of the loops around the block.                 *)
LEMMA Products ==
  ASSUME TypeOK, NEW b
  PROVE  /\ ProductUpTo(b) \in [0..Len(Preorder) -> Int]
         /\ ProductUpTo(b)[0] = 1
         /\ \A n \in 1..Len(Preorder) :
              ProductUpTo(b)[n] =
                IF Preorder[n] \in LoopsOf(b)
                THEN ProductUpTo(b)[n - 1] * loopContribution(Preorder[n])
                ELSE ProductUpTo(b)[n - 1]
<1> DEFINE N == Len(Preorder)
           Factor(n) == IF Preorder[n] \in LoopsOf(b) THEN loopContribution(Preorder[n]) ELSE 1
           next == [p \in (1..N) \X Int |-> p[2] * Factor(p[1])]
           IsProduct(f) == f = [n \in 0..N |->
             IF n = 0 THEN 1
             ELSE IF Preorder[n] \in LoopsOf(b)
             THEN f[n - 1] * loopContribution(Preorder[n]) ELSE f[n - 1]]
<1>1. N \in Nat /\ \A n \in 1..N : Preorder[n] \in Loop BY Kofler13Assumption
<1>2. ASSUME NEW n \in 1..N PROVE Factor(n) \in Int
  <2>1. loopContribution(Preorder[n]) \in Int
    <3>1. Preorder[n] \in Loop BY <1>1
    <3> QED BY <3>1, CostType, IntsAreInt
  <2> QED BY <2>1
<1>3. next \in [(1..N) \X Int -> Int]
  <2> HIDE DEF Factor, N
  <2>1. \A p \in (1..N) \X Int : p[2] * Factor(p[1]) \in Int BY <1>2, ProductInt
  <2> QED BY <2>1
<1>4. \E f : Recurs(f, Int, N, 1, next)
  <2>1. 1 \in Int OBVIOUS
  <2> HIDE DEF next, N
  <2> QED BY <1>1, <1>3, <2>1, Recursion, Zenon
<1>5. PICK f : Recurs(f, Int, N, 1, next) BY <1>4
<1> USE <1>5 DEF Recurs
<1>6. \A n \in 1..N : f[n] = IF Preorder[n] \in LoopsOf(b)
                             THEN f[n - 1] * loopContribution(Preorder[n]) ELSE f[n - 1]
  <2> SUFFICES ASSUME NEW n \in 1..N
      PROVE f[n] = IF Preorder[n] \in LoopsOf(b)
                   THEN f[n - 1] * loopContribution(Preorder[n]) ELSE f[n - 1]
    OBVIOUS
  <2>1. f[n - 1] \in Int BY <1>1
  <2>2. f[n] = f[n - 1] * Factor(n) BY <1>5, <2>1
  <2> QED BY <2>1, <2>2
<1>7. IsProduct(f) BY <1>1, <1>5, <1>6
<1>8. ProductUpTo(b) = CHOOSE g : IsProduct(g) BY DEF ProductUpTo
<1>9. IsProduct(ProductUpTo(b))
  <2> HIDE DEF IsProduct
  <2> QED BY <1>7, <1>8
<1> DEFINE g == ProductUpTo(b)
<1>10. \A n \in 0..N : g[n] = f[n]
  <2> DEFINE Differ == {n \in 0..N : g[n] # f[n]}
  <2>1. SUFFICES ASSUME Differ # {} PROVE FALSE OBVIOUS
  <2>2. PICK n \in Differ : \A m \in Differ : n <= m
    <3>1. Differ \in SUBSET Nat BY <1>1
    <3> HIDE DEF Differ
    <3> QED BY <2>1, <3>1, LeastNatural
  <2>3. n # 0
    <3>1. g[0] = 1 BY <1>1, <1>9
    <3> QED BY <1>5, <2>2, <3>1
  <2>4. n \in 1..N /\ n - 1 \in 0..N /\ n - 1 \notin Differ BY <1>1, <2>2, <2>3
  <2>5. g[n - 1] = f[n - 1] BY <2>4
  <2>6. g[n] = IF Preorder[n] \in LoopsOf(b)
               THEN g[n - 1] * loopContribution(Preorder[n]) ELSE g[n - 1]
    <3>1. n \in 0..N BY <2>4
    <3> HIDE DEF g
    <3> QED BY <1>9, <2>3, <3>1 DEF g
  <2>7. g[n] = f[n] BY <1>6, <2>4, <2>5, <2>6
  <2> QED BY <2>2, <2>7
<1>11. DOMAIN g = 0..N /\ g = [n \in 0..N |-> g[n]]
  <2> HIDE DEF g
  <2>1. g = [n \in 0..N |->
             IF n = 0 THEN 1
             ELSE IF Preorder[n] \in LoopsOf(b)
             THEN g[n - 1] * loopContribution(Preorder[n]) ELSE g[n - 1]]
    BY <1>9 DEF g
  <2> DEFINE h == [n \in 0..N |->
             IF n = 0 THEN 1
             ELSE IF Preorder[n] \in LoopsOf(b)
             THEN g[n - 1] * loopContribution(Preorder[n]) ELSE g[n - 1]]
  <2>2. h = [n \in 0..N |-> h[n]] /\ DOMAIN h = 0..N OBVIOUS
  <2>3. g = h BY <2>1
  <2> HIDE DEF h
  <2> QED BY <2>2, <2>3
<1>12. g \in [0..N -> Int]
  <2> HIDE DEF g
  <2>1. \A n \in 0..N : g[n] \in Int BY <1>10
  <2> QED BY <1>11, <2>1
<1>13. g[0] = 1 BY <1>1, <1>5, <1>10
<1>14. \A n \in 1..N : g[n] = IF Preorder[n] \in LoopsOf(b)
                              THEN g[n - 1] * loopContribution(Preorder[n]) ELSE g[n - 1]
  <2> HIDE DEF g
  <2>1. \A n \in 1..N : n \in 0..N /\ n - 1 \in 0..N BY <1>1
  <2> QED BY <1>6, <1>10, <2>1
<1> QED BY <1>12, <1>13, <1>14

LEMMA MultiplierType ==
  ASSUME TypeOK, NEW b \in AllBlock
  PROVE  multiplier[b] \in Nat /\ multiplier[b] \in Int
<1>1. multiplier[b] \in 0..(Turn - 1) BY DEF TypeOK
<1>2. Turn \in Int BY TurnType
<1> QED BY <1>1, <1>2

LEMMA TypeInit == Init => TypeOK
<1> SUFFICES ASSUME Init PROVE TypeOK OBVIOUS
<1>1. 0 \in Ints /\ 0 \in 0..(Turn - 1)
  BY IntsAreInt, UnsignedAreNat
<1>2. Body \in [Loop -> SUBSET AllBlock] /\ Block \subseteq AllBlock
  BY Kofler13Assumption DEF AllBlock
<1> QED BY <1>1, <1>2, Kofler13Assumption DEF Init, TypeOK, Step

LEMMA TypeStep == TypeOK /\ [Next]_vars => TypeOK'
<1> SUFFICES ASSUME TypeOK, [Next]_vars PROVE TypeOK' OBVIOUS
<1> USE DEF TypeOK
<1>1. CASE SimplifyLoop
  <2> DEFINE fixed == {l \in Nest(Head(todo)) : form[l] \in Fixable}
             around(l) == Enclosing[l] \cup IF form[l] = "many latches" THEN {l} ELSE {}
             new(l) == {Inserted[m] : m \in {k \in fixed : l \in around(k)}}
  <2>1. todo' \in Seq(Loop) BY <1>1, HeadTail DEF SimplifyLoop
  <2>2. fixed \subseteq Loop BY DEF Nest
  <2>3. \A l \in Loop : new(l) \subseteq AllBlock BY <2>2 DEF AllBlock
  <2>4. body' = [l \in Loop |-> body[l] \cup new(l)] BY <1>1 DEF SimplifyLoop
  <2>5. body' \in [Loop -> SUBSET AllBlock]
    <3> HIDE DEF new
    <3> QED BY <2>3, <2>4
  <2>6. form' \in [Loop -> Form] BY <1>1 DEF SimplifyLoop, Form
  <2>7. blocks' \subseteq AllBlock BY <1>1, <2>2 DEF SimplifyLoop, AllBlock
  <2> QED BY <1>1, <2>1, <2>5, <2>6, <2>7 DEF SimplifyLoop
<1>2. CASE InitMultiplier
  <2>1. 1 \in 0..(Turn - 1) BY UnsignedAreNat
  <2> QED BY <1>2, <2>1, Kofler13Assumption DEF InitMultiplier, Step
<1>3. CASE LoopContribution
  <2>1. Head(todo) \in Loop /\ todo' \in Seq(Loop) BY <1>3, HeadTail DEF LoopContribution
  <2>2. loop_cost' \in [Loop -> Ints] BY <1>3, <2>1, CostType DEF LoopContribution
  <2> QED BY <1>3, <2>1, <2>2 DEF LoopContribution
<1>4. CASE StartMultiply
  BY <1>4, Kofler13Assumption DEF StartMultiply, Step
<1>5. CASE Multiply
  <2> DEFINE l == Head(todo)  product(b) == multiplier[b] * loop_cost[l]
  <2>1. l \in Loop /\ todo' \in Seq(Loop) BY <1>5, HeadTail DEF Multiply
  <2>2. ASSUME NEW b \in AllBlock PROVE UInt(product(b)) \in 0..(Turn - 1)
    <3>1. multiplier[b] \in Int /\ loop_cost[l] \in Int
      BY <2>1, MultiplierType, IntsAreInt
    <3>2. product(b) \in Int BY <3>1, ProductInt
    <3> HIDE DEF product
    <3> QED BY <3>2, UIntType
  <2>3. multiplier' = [b \in AllBlock |-> IF b \in body[l] THEN UInt(product(b))
                                                          ELSE multiplier[b]]
    BY <1>5 DEF Multiply
  <2>4. multiplier' \in [AllBlock -> 0..(Turn - 1)]
    <3> HIDE DEF l, product
    <3> QED BY <2>2, <2>3
  <2>5. exact' \in BOOLEAN /\ step' = "multiply" BY <1>5 DEF Multiply
  <2> QED BY <1>5, <2>1, <2>4, <2>5 DEF Multiply
<1>6. CASE Evaluate
  <2>1. ASSUME NEW b \in AllBlock PROVE ToInt(multiplier[b]) \in Ints
    BY MultiplierType, ToIntType
  <2> QED BY <1>6, <2>1 DEF Evaluate, Step
<1>7. CASE UNCHANGED vars BY <1>7 DEF vars
<1> QED BY <1>1, <1>2, <1>3, <1>4, <1>5, <1>6, <1>7 DEF Next

(* The step that matters: multiplying one loop into its blocks keeps blocks  *)
(* of the same nest equal and, without a wrap, nests ordered.                *)
LEMMA MultiplyOrdered == TypeOK /\ Ordered /\ Multiply => Ordered'
<1> SUFFICES ASSUME TypeOK, Ordered, Multiply PROVE Ordered' OBVIOUS
<1> DEFINE l == Head(todo)  cost == loop_cost[l]
<1>1. l \in Loop BY HeadTail DEF Multiply, TypeOK
<1>2. /\ step = "multiply" /\ step' = "multiply"
      /\ UNCHANGED <<blocks, body, loop_cost>>
  BY DEF Multiply
<1>3. \A b \in AllBlock : /\ multiplier[b] \in Nat
                          /\ multiplier'[b] = IF b \in body[l] THEN UInt(multiplier[b] * cost)
                                                               ELSE multiplier[b]
  BY MultiplierType DEF Multiply
<1>4. exact' => exact /\ \A b \in body[l] :
                           UInt(multiplier[b] * cost) = multiplier[b] * cost
  BY DEF Multiply
<1>5. blocks \subseteq AllBlock BY DEF TypeOK
<1>6. cost \in Int BY <1>1, IntsAreInt DEF TypeOK
<1>7. \A b : b \in body[l] <=> l \in LoopsOf(b) BY <1>1 DEF LoopsOf
<1>8. \A b : LoopsOf(b)' = LoopsOf(b) BY <1>2 DEF LoopsOf
<1> HIDE DEF l, cost
<1>9. ASSUME NEW b \in blocks, NEW c \in blocks, LoopsOf(b) = LoopsOf(c)
      PROVE  multiplier'[b] = multiplier'[c]
  <2>1. multiplier[b] = multiplier[c] BY <1>2, <1>9 DEF Ordered
  <2> QED BY <1>3, <1>5, <1>7, <1>9, <2>1
<1>10. ASSUME exact', \A k \in Loop : loop_cost[k] >= 1,
              NEW b \in blocks, NEW c \in blocks, LoopsOf(b) \subseteq LoopsOf(c)
       PROVE  multiplier'[b] <= multiplier'[c]
  <2>1. multiplier[b] <= multiplier[c] BY <1>2, <1>4, <1>10 DEF Ordered
  <2>2. multiplier[b] \in Nat /\ multiplier[c] \in Nat BY <1>3, <1>5
  <2>3. cost >= 1 BY <1>1, <1>10 DEF cost
  <2>4. CASE l \in LoopsOf(b)
    <3>1. multiplier'[b] = multiplier[b] * cost /\ multiplier'[c] = multiplier[c] * cost
      BY <1>3, <1>4, <1>5, <1>7, <1>10, <2>4
    <3>2. multiplier[b] * cost <= multiplier[c] * cost BY <1>6, <2>1, <2>2, <2>3
    <3> QED BY <3>1, <3>2
  <2>5. CASE l \notin LoopsOf(b) /\ l \in LoopsOf(c)
    <3>1. multiplier'[b] = multiplier[b] /\ multiplier'[c] = multiplier[c] * cost
      BY <1>3, <1>4, <1>5, <1>7, <1>10, <2>5
    <3>2. multiplier[c] <= multiplier[c] * cost BY <1>6, <2>2, <2>3
    <3>3. multiplier[c] * cost \in Int BY <1>6, <2>2
    <3> QED BY <2>1, <2>2, <3>1, <3>2, <3>3
  <2>6. CASE l \notin LoopsOf(c)
    BY <1>3, <1>5, <1>7, <1>10, <2>1, <2>6
  <2> QED BY <2>4, <2>5, <2>6
<1>11. \A k \in Loop : loop_cost'[k] = loop_cost[k] BY <1>2
<1> QED BY <1>2, <1>8, <1>9, <1>10, <1>11 DEF Ordered

LEMMA OrderedStep == TypeOK /\ Ordered /\ [Next]_vars => Ordered'
<1> SUFFICES ASSUME TypeOK, Ordered, [Next]_vars PROVE Ordered' OBVIOUS
<1>1. CASE SimplifyLoop BY <1>1 DEF SimplifyLoop, Ordered
<1>2. CASE InitMultiplier
  BY <1>2 DEF InitMultiplier, Ordered, TypeOK
<1>3. CASE LoopContribution BY <1>3 DEF LoopContribution, Ordered
<1>4. CASE StartMultiply
  <2>1. step = "loop cost" /\ step' = "multiply" /\ UNCHANGED <<blocks, multiplier>>
    BY <1>4 DEF StartMultiply
  <2>2. \A b \in blocks' : multiplier'[b] = 1 BY <2>1 DEF Ordered
  <2>3. 1 <= 1 OBVIOUS
  <2> QED BY <2>1, <2>2, <2>3, Zenon DEF Ordered
<1>5. CASE Multiply BY <1>5, MultiplyOrdered
<1>6. CASE Evaluate
  <2>1. /\ step = "multiply" /\ step' = "done"
        /\ UNCHANGED <<blocks, body, loop_cost, multiplier, exact>>
        /\ \A b \in blocks : mult'[b] = ToInt(multiplier[b])
    BY <1>6 DEF Evaluate, TypeOK
  <2>2. \A b : LoopsOf(b)' = LoopsOf(b) BY <2>1 DEF LoopsOf
  <2> QED BY <2>1, <2>2 DEF Ordered
<1>7. CASE UNCHANGED vars BY <1>7 DEF vars, Ordered, LoopsOf
<1> QED BY <1>1, <1>2, <1>3, <1>4, <1>5, <1>6, <1>7 DEF Next

LEMMA OrderedInit == Init => Ordered
BY DEF Init, Ordered

LEMMA Invariance == Spec => [](TypeOK /\ Ordered)
<1>1. Init => TypeOK /\ Ordered BY TypeInit, OrderedInit
<1>2. TypeOK /\ Ordered /\ [Next]_vars => (TypeOK /\ Ordered)' BY TypeStep, OrderedStep
<1> QED BY <1>1, <1>2, PTL DEF Spec

(* Every multiplier stays an unsigned and every weight an int.               *)
THEOREM TypeCorrect == Spec => []TypeOK
BY Invariance, PTL

(* The blocks of one nest weigh the same, the inserted ones too.             *)
THEOREM SameNest == Spec => []SameLoopsSameWeight
<1>1. Ordered => SameLoopsSameWeight BY DEF Ordered, SameLoopsSameWeight
<1> QED BY <1>1, Invariance, PTL

(* Deeper code weighs at least as much, when costs are positive and fit.     *)
THEOREM DeeperWeighsMore == Spec => []NestedWeighsMore
<1>1. Ordered => NestedWeighsMore BY DEF Ordered, NestedWeighsMore
<1> QED BY <1>1, Invariance, PTL

-----------------------------------------------------------------------------
(* The weight of a block.                                                    *)

(* What is left of a worklist that is the rest of the list of loops.         *)
LEMMA NextLoop ==
  ASSUME TypeOK, RestOfPreorder, todo # <<>>, todo' = Tail(todo)
  PROVE  /\ Visited + 1 \in 1..Len(Preorder)
         /\ Head(todo) = Preorder[Visited + 1]
         /\ Visited' = Visited + 1
         /\ RestOfPreorder'
<1>1. todo \in Seq(Loop) /\ Preorder \in Seq(Loop) BY Kofler13Assumption DEF TypeOK
<1>2. Len(todo) \in Nat \ {0} /\ Len(Preorder) \in Nat BY <1>1
<1>3. Visited >= 0 /\ \A i \in 1..Len(todo) : todo[i] = Preorder[Visited + i]
  BY DEF RestOfPreorder
<1>4. Visited + 1 \in 1..Len(Preorder) BY <1>2, <1>3 DEF Visited
<1>5. Head(todo) = Preorder[Visited + 1]
  <2>1. Head(todo) = todo[1] BY <1>1, <1>2
  <2> QED BY <1>2, <1>3, <2>1
<1>6. Len(todo') = Len(todo) - 1 /\ \A i \in 1..Len(todo') : todo'[i] = todo[i + 1]
  BY <1>1, <1>2
<1>7. Visited' = Visited + 1 /\ Visited \in Int BY <1>2, <1>6 DEF Visited
<1>8. ASSUME NEW i \in 1..Len(todo') PROVE todo'[i] = Preorder[Visited' + i]
  <2>1. i + 1 \in 1..Len(todo) /\ Visited' + i = Visited + (i + 1)
    BY <1>2, <1>6, <1>7
  <2> QED BY <1>3, <1>6, <2>1
<1>9. Visited' >= 0 BY <1>4, <1>7
<1> QED BY <1>4, <1>5, <1>7, <1>8, <1>9 DEF RestOfPreorder

(* The first visit: the worklist is the whole list.                          *)
LEMMA FirstVisit ==
  ASSUME todo' = Preorder
  PROVE  Visited' = 0 /\ RestOfPreorder'
<1>1. Len(Preorder) \in Nat BY Kofler13Assumption
<1>2. Visited' = 0 BY <1>1 DEF Visited
<1>3. \A i \in 1..Len(Preorder) : 0 + i = i BY <1>1
<1> QED BY <1>2, <1>3 DEF RestOfPreorder

(* What the loops contribute, and the products, change with the loops only.  *)
LEMMA SameProducts ==
  ASSUME UNCHANGED <<form, bounds, body>>
  PROVE  /\ \A l : loopContribution(l)' = loopContribution(l)
         /\ \A b : ProductUpTo(b)' = ProductUpTo(b)
         /\ \A b : Product(b)' = Product(b)
<1>1. \A l : loopContribution(l)' = loopContribution(l) BY DEF loopContribution
<1>2. \A b : ProductUpTo(b)' = ProductUpTo(b) BY DEF ProductUpTo, LoopsOf, loopContribution
<1> QED BY <1>1, <1>2 DEF Product

LEMMA SoFarInit == Init => ProductSoFar
BY DEF Init, ProductSoFar, WeightIsProduct

LEMMA SoFarStep == TypeOK /\ ProductSoFar /\ [Next]_vars => ProductSoFar'
<1> SUFFICES ASSUME TypeOK, ProductSoFar, [Next]_vars PROVE ProductSoFar' OBVIOUS
<1>0. Preorder \in Seq(Loop) /\ Len(Preorder) \in Nat BY Kofler13Assumption
<1>8. todo \in Seq(Loop) /\ Len(todo) \in Nat /\ blocks \subseteq AllBlock
  <2>1. todo \in Seq(Loop) /\ blocks \subseteq AllBlock BY DEF TypeOK
  <2> QED BY <2>1
<1>1. CASE SimplifyLoop
  BY <1>1 DEF SimplifyLoop, ProductSoFar, WeightIsProduct
<1>2. CASE InitMultiplier
  <2>1. /\ step' = "loop cost" /\ todo' = Preorder /\ blocks' = blocks
        /\ \A b \in blocks : multiplier'[b] = 1
    BY <1>8, <1>2 DEF InitMultiplier
  <2>2. Visited' = 0 /\ RestOfPreorder' BY <2>1, FirstVisit
  <2>3. CostsKnown(Visited)' BY <2>2 DEF CostsKnown
  <2> QED BY <2>1, <2>2, <2>3 DEF ProductSoFar, WeightIsProduct
<1>3. CASE LoopContribution
  <2>1. /\ step = "loop cost" /\ step' = "loop cost" /\ todo # <<>> /\ todo' = Tail(todo)
        /\ UNCHANGED <<form, bounds, body, blocks, multiplier>>
        /\ loop_cost' = [loop_cost EXCEPT ![Head(todo)] = loopContribution(Head(todo))]
    BY <1>3 DEF LoopContribution
  <2>2. /\ Visited + 1 \in 1..Len(Preorder) /\ Head(todo) = Preorder[Visited + 1]
        /\ Visited' = Visited + 1 /\ RestOfPreorder'
    BY <2>1, NextLoop DEF ProductSoFar
  <2>3. \A l : loopContribution(l)' = loopContribution(l) BY <2>1, SameProducts
  <2>4. ASSUME NEW i \in 1..Visited'
        PROVE  loop_cost'[Preorder[i]] = loopContribution(Preorder[i])
    <3>1. i \in 1..Len(Preorder) /\ (i \in 1..Visited \/ i = Visited + 1)
      <4>1. Visited \in Int BY <1>0, <1>8 DEF Visited
      <4> QED BY <1>0, <2>2, <4>1
    <3>2. Preorder[i] \in Loop BY <1>0, <3>1
    <3>3. loop_cost \in [Loop -> Ints] BY DEF TypeOK
    <3>4. i \in 1..Visited => loop_cost[Preorder[i]] = loopContribution(Preorder[i])
      BY <2>1 DEF ProductSoFar, CostsKnown
    <3> QED BY <2>1, <2>2, <3>1, <3>2, <3>3, <3>4
  <2>5. CostsKnown(Visited)' BY <2>3, <2>4 DEF CostsKnown
  <2>6. \A b \in blocks' : multiplier'[b] = 1 BY <2>1 DEF ProductSoFar
  <2> QED BY <2>1, <2>2, <2>5, <2>6 DEF ProductSoFar, WeightIsProduct
<1>4. CASE StartMultiply
  <2>1. /\ step = "loop cost" /\ step' = "multiply" /\ todo = <<>> /\ todo' = Preorder
        /\ UNCHANGED <<form, bounds, blocks, body, loop_cost, multiplier>>
    BY <1>4 DEF StartMultiply
  <2>2. Visited' = 0 /\ RestOfPreorder' BY <2>1, FirstVisit
  <2>3. Visited = Len(Preorder)
    <3>1. Len(todo) = 0 BY <2>1
    <3> QED BY <1>0, <3>1 DEF Visited
  <2>4. CostsKnown(Len(Preorder))
    BY <2>1, <2>3 DEF ProductSoFar
  <2>5. CostsKnown(Len(Preorder))'
    BY <2>1, <2>4, SameProducts DEF CostsKnown
  <2>6. UInt(1) = 1
    <3>1. 1 \in 0..(Turn - 1) BY UnsignedAreNat
    <3>2. 0 <= 1 /\ 1 < Turn BY <3>1, TurnType
    <3> QED BY <3>2, UIntType
  <2>7. ASSUME NEW b \in blocks PROVE multiplier'[b] = UInt(ProductUpTo(b)'[0])
    <3>1. ProductUpTo(b)[0] = 1 BY Products
    <3>2. ProductUpTo(b)'[0] = 1 BY <2>1, <3>1, SameProducts
    <3>3. multiplier'[b] = 1 BY <2>1 DEF ProductSoFar
    <3> QED BY <2>6, <3>2, <3>3
  <2>8. MultipliersAre(Visited)' BY <2>1, <2>2, <2>7 DEF MultipliersAre
  <2> QED BY <2>1, <2>2, <2>5, <2>8 DEF ProductSoFar, WeightIsProduct
<1>5. CASE Multiply
  <2> DEFINE l == Head(todo)  n == Visited + 1
  <2>1. /\ step = "multiply" /\ step' = "multiply" /\ todo # <<>> /\ todo' = Tail(todo)
        /\ UNCHANGED <<form, bounds, blocks, body, loop_cost>>
    BY <1>5 DEF Multiply
  <2>2. n \in 1..Len(Preorder) /\ l = Preorder[n] /\ Visited' = n /\ RestOfPreorder'
    BY <2>1, NextLoop DEF ProductSoFar
  <2>3. CostsKnown(Len(Preorder)) BY <2>1 DEF ProductSoFar
  <2>4. CostsKnown(Len(Preorder))' BY <2>1, <2>3, SameProducts DEF CostsKnown
  <2>5. /\ l \in Loop /\ loop_cost[l] = loopContribution(l)
        /\ loopContribution(l) \in Int
    <3>1. l \in Loop BY <1>0, <2>2
    <3>2. loop_cost[l] = loopContribution(l) BY <2>2, <2>3 DEF CostsKnown
    <3>3. loopContribution(l) \in Ints BY <3>1, CostType
    <3> QED BY <3>1, <3>2, <3>3, IntsAreInt
  <2>6. ASSUME NEW b \in blocks PROVE multiplier'[b] = UInt(ProductUpTo(b)[n])
    <3> DEFINE p == ProductUpTo(b)  c == loopContribution(l)
    <3>1. b \in AllBlock BY <1>8
    <3>2. multiplier[b] = UInt(p[n - 1])
      <4>1. Visited = n - 1 BY <1>0, <1>8 DEF Visited
      <4>2. multiplier[b] = UInt(p[Visited]) BY <2>1 DEF ProductSoFar, MultipliersAre
      <4> HIDE DEF p, n
      <4> QED BY <4>1, <4>2
    <3>3. p[n - 1] \in Int
      <4>1. p \in [0..Len(Preorder) -> Int] BY Products
      <4>2. n - 1 \in 0..Len(Preorder) BY <1>0, <2>2
      <4> HIDE DEF p, n
      <4> QED BY <4>1, <4>2
    <3>4. p[n] = IF l \in LoopsOf(b) THEN p[n - 1] * c ELSE p[n - 1]
      <4>1. p[n] = IF Preorder[n] \in LoopsOf(b)
                   THEN p[n - 1] * loopContribution(Preorder[n]) ELSE p[n - 1]
        <5> HIDE DEF n
        <5> QED BY <2>2, Products
      <4> QED BY <2>2, <4>1
    <3>5. multiplier'[b] = IF b \in body[l] THEN UInt(multiplier[b] * loop_cost[l])
                                            ELSE multiplier[b]
      BY <1>5, <3>1 DEF Multiply
    <3>6. b \in body[l] <=> l \in LoopsOf(b) BY <2>5 DEF LoopsOf
    <3>7. UInt(UInt(p[n - 1]) * c) = UInt(p[n - 1] * c) BY <2>5, <3>3, UIntProduct
    <3> HIDE DEF p, n, l, c
    <3>8. CASE l \in LoopsOf(b)
      <4>1. multiplier'[b] = UInt(UInt(p[n - 1]) * c)
        BY <2>5, <3>2, <3>5, <3>6, <3>8 DEF c
      <4> QED BY <3>4, <3>7, <3>8, <4>1 DEF p
    <3>9. CASE l \notin LoopsOf(b) BY <3>2, <3>4, <3>5, <3>6, <3>9 DEF p
    <3> QED BY <3>8, <3>9 DEF p
  <2> HIDE DEF n
  <2>7. MultipliersAre(Visited)' BY <2>1, <2>2, <2>6, SameProducts DEF MultipliersAre
  <2> QED BY <2>1, <2>2, <2>4, <2>7 DEF ProductSoFar, WeightIsProduct
<1>6. CASE Evaluate
  <2>1. /\ step = "multiply" /\ step' = "done" /\ todo = <<>>
        /\ UNCHANGED <<form, bounds, blocks, body>>
    BY <1>6 DEF Evaluate
  <2>2. \A b \in blocks : mult'[b] = ToInt(multiplier[b])
    BY <1>8, <1>6 DEF Evaluate
  <2>3. Visited = Len(Preorder)
    <3>1. Len(todo) = 0 BY <2>1
    <3> QED BY <1>0, <3>1 DEF Visited
  <2>4. \A b \in blocks : multiplier[b] = UInt(Product(b))
    BY <2>1, <2>3 DEF ProductSoFar, MultipliersAre, Product
  <2>5. WeightIsProduct'
    BY <2>1, <2>2, <2>4, SameProducts DEF WeightIsProduct
  <2> QED BY <2>1, <2>5 DEF ProductSoFar
<1>7. CASE UNCHANGED vars
  <2>1. UNCHANGED <<step, todo, form, bounds, blocks, body, loop_cost, multiplier, mult>>
    BY <1>7 DEF vars
  <2>2. Visited' = Visited /\ (RestOfPreorder' <=> RestOfPreorder)
    BY <2>1 DEF Visited, RestOfPreorder
  <2>3. \A n : (CostsKnown(n)' <=> CostsKnown(n)) /\ (MultipliersAre(n)' <=> MultipliersAre(n))
    BY <2>1, SameProducts DEF CostsKnown, MultipliersAre
  <2>4. WeightIsProduct' <=> WeightIsProduct
    BY <2>1, SameProducts DEF WeightIsProduct
  <2>5. CostsKnown(Visited)' <=> CostsKnown(Visited)
    BY <2>1, <2>2, SameProducts DEF CostsKnown
  <2>6. MultipliersAre(Visited)' <=> MultipliersAre(Visited)
    BY <2>1, <2>2, SameProducts DEF MultipliersAre
  <2> QED BY <2>1, <2>2, <2>3, <2>4, <2>5, <2>6 DEF ProductSoFar
<1> QED BY <1>1, <1>2, <1>3, <1>4, <1>5, <1>6, <1>7 DEF Next

(* A block weighs the product of what the loops around it contribute,        *)
(* converted once, for every loop forest and however often the code wraps.   *)
THEOREM WeightsAreProducts == Spec => []WeightIsProduct
<1>1. Init => ProductSoFar BY SoFarInit
<1>2. TypeOK /\ ProductSoFar /\ [Next]_vars => ProductSoFar' BY SoFarStep
<1>3. ProductSoFar => WeightIsProduct BY DEF ProductSoFar
<1> QED BY <1>1, <1>2, <1>3, TypeCorrect, PTL DEF Spec
=============================================================================
