---------------------- MODULE CoalescedMemAccessProofs ----------------------
(***************************************************************************)
(* Theorems about CoalescedMemAccess, for every function.                  *)
(***************************************************************************)
EXTENDS CoalescedMemAccess, FiniteSetTheorems, SequenceTheorems, WellFoundedInduction,
        TLAPS

(* The geps with a given index are finitely many.                            *)
LEMMA IndexedByFinite ==
  ASSUME TypeOK, NEW v
  PROVE  Cardinality(IndexedBy(v)) \in Nat
<1>1. IndexedBy(v) \subseteq Value BY DEF IndexedBy, TypeOK, IsFunction
<1>2. IsFiniteSet(IndexedBy(v)) BY <1>1, CoalescedAssumption, FS_Subset
<1> QED BY <1>2, FS_CardinalityType

(* What pop leaves of a nonempty stack, and what push adds to it.            *)
LEMMA PopPrefix ==
  ASSUME NEW s \in Seq(Value), s # <<>>
  PROVE  LET rest == SubSeq(s, 1, Len(s) - 1)
         IN  /\ rest \in Seq(Value) /\ Len(rest) = Len(s) - 1
             /\ \A i \in 1..(Len(s) - 1) : rest[i] = s[i]
<1> DEFINE n == Len(s) - 1
<1>1. n \in Nat /\ \A i \in 1..n : s[i] \in Value
  <2>1. Len(s) \in Nat \ {0} OBVIOUS
  <2> QED BY <2>1
<1>2. /\ SubSeq(s, 1, n) \in Seq(Value)
      /\ Len(SubSeq(s, 1, n)) = IF 1 <= n THEN n - 1 + 1 ELSE 0
      /\ \A i \in 1..(n - 1 + 1) : SubSeq(s, 1, n)[i] = s[1 + i - 1]
  <2> HIDE DEF n
  <2> QED BY <1>1, SubSeqProperties
<1>3. Len(SubSeq(s, 1, n)) = n
  <2> DEFINE l == Len(SubSeq(s, 1, n))
  <2>1. l = IF 1 <= n THEN n - 1 + 1 ELSE 0 BY <1>2
  <2> HIDE DEF n, l
  <2>2. l = n BY <1>1, <2>1
  <2> QED BY <2>2 DEF l
<1>4. \A i \in 1..n : SubSeq(s, 1, n)[i] = s[i] BY <1>1, <1>2
<1> QED BY <1>2, <1>3, <1>4

LEMMA PopPush ==
  ASSUME NEW s \in Seq(Value), s # <<>>, NEW t \in Seq(Value)
  PROVE  LET rest == SubSeq(s, 1, Len(s) - 1)
         IN  /\ s[Len(s)] \in Range(s)
             /\ rest \in Seq(Value) /\ Range(rest) \subseteq Range(s)
             /\ rest \o t \in Seq(Value)
             /\ Range(rest \o t) \subseteq Range(s) \cup Range(t)
<1> DEFINE rest == SubSeq(s, 1, Len(s) - 1)
<1>1. Len(s) \in Nat \ {0} /\ Len(s) \in DOMAIN s OBVIOUS
<1>2. /\ rest \in Seq(Value) /\ Len(rest) = Len(s) - 1
      /\ \A i \in 1..Len(rest) : rest[i] = s[i]
  BY PopPrefix
<1>3. Range(rest) \subseteq Range(s) BY <1>1, <1>2 DEF Range
<1>4. s[Len(s)] \in Range(s) BY <1>1 DEF Range
<1> HIDE DEF rest
<1>5. rest \o t \in Seq(Value) BY <1>2
<1>6. Range(rest \o t) \subseteq Range(rest) \cup Range(t) BY <1>2 DEF Range
<1> QED BY <1>2, <1>3, <1>4, <1>5, <1>6 DEF rest

Inv == TypeOK /\ WorklistHoldsIdUses /\ NothingElseCoalesced

LEMMA InitInv == Init => Inv
<1> SUFFICES ASSUME Init PROVE Inv OBVIOUS
<1>1. IsFunction(fun) BY CoalescedAssumption DEF Init
<1>2. pos \in 1..(Len(Instr) + 1)
  <2>1. Len(Instr) \in Nat BY CoalescedAssumption
  <2> QED BY <2>1 DEF Init
<1>3. Range(id_worklist) = {} BY DEF Init, Range
<1>4. TypeOK BY <1>1, <1>2 DEF Init, TypeOK
<1>5. NothingElseCoalesced BY DEF Init, NothingElseCoalesced
<1> QED BY <1>3, <1>4, <1>5 DEF Inv, WorklistHoldsIdUses

LEMMA TypeStep == Inv /\ [Next]_vars => TypeOK'
<1> SUFFICES ASSUME Inv, [Next]_vars PROVE TypeOK' OBVIOUS
<1>0. TypeOK BY DEF Inv
<1>1. CASE CollectGeps
  <2>1. fun.argument \subseteq Value /\ IsFunction(fun) BY <1>0 DEF TypeOK, IsFunction
  <2>2. Cardinality(fun.argument) \in Nat
    BY <2>1, CoalescedAssumption, FS_Subset, FS_CardinalityType
  <2> QED BY <1>0, <1>1, <2>2 DEF CollectGeps, TypeOK
<1>2. CASE Visit
  <2>1. Len(Instr) \in Nat /\ (pos <= Len(Instr) => Instr[pos] \in Value)
    BY <1>0, CoalescedAssumption DEF TypeOK
  <2>2. pos' \in 1..(Len(Instr) + 1) BY <1>0, <1>2, <2>1 DEF Visit, TypeOK
  <2>3. \A v \in Value : fun.users[v] \in Seq(Value) BY <1>0 DEF TypeOK, IsFunction
  <2>4. id_worklist' \in Seq(Value) BY <1>0, <1>2, <2>1, <2>3 DEF Visit, TypeOK
  <2> QED BY <1>0, <1>2, <2>2, <2>4 DEF Visit, TypeOK
<1>3. CASE Crash BY <1>0, <1>3 DEF Crash, TypeOK
<1>4. CASE FollowUse
  <2> DEFINE id_use == id_worklist[Len(id_worklist)]
  <2>1. id_worklist \in Seq(Value) /\ id_worklist # <<>> BY <1>0, <1>4 DEF FollowUse, TypeOK
  <2>2. id_use \in Value BY <2>1
  <2>3. fun.users[id_use] \in Seq(Value) BY <1>0, <2>2 DEF TypeOK, IsFunction
  <2>4. id_worklist' \in Seq(Value) BY <1>4, <2>1, <2>3, PopPush DEF FollowUse
  <2>5. Cardinality(IndexedBy(id_use)) \in Nat BY <1>0, IndexedByFinite
  <2>6. cma' \in [mem_access : Nat, mem_coalesced : Nat]
    <3>1. cma \in [mem_access : Nat, mem_coalesced : Nat] BY <1>0 DEF TypeOK
    <3>2. PICK n \in Nat : cma' = cma \/ cma' = [cma EXCEPT !.mem_coalesced = @ + n]
      BY <1>4, <2>5 DEF FollowUse
    <3> QED BY <3>1, <3>2
  <2> QED BY <1>0, <1>4, <2>4, <2>6 DEF FollowUse, TypeOK
<1>5. CASE Finish
  <2>1. Cardinality(IndexedBy(Constant)) \in Nat BY <1>0, IndexedByFinite
  <2>2. cma' \in [mem_access : Nat, mem_coalesced : Nat]
    BY <1>0, <1>5, <2>1 DEF Finish, TypeOK
  <2> QED BY <1>0, <1>5, <2>2 DEF Finish, TypeOK
<1>6. CASE UNCHANGED vars BY <1>0, <1>6 DEF vars, TypeOK
<1> QED BY <1>1, <1>2, <1>3, <1>4, <1>5, <1>6 DEF Next

LEMMA WorklistStep == Inv /\ [Next]_vars => WorklistHoldsIdUses'
<1> SUFFICES ASSUME Inv, [Next]_vars,
                    NEW S \in SUBSET Value, ClosedUnderUses(S)'
             PROVE  Range(id_worklist') \subseteq S
  BY DEF WorklistHoldsIdUses
<1>1. TypeOK BY DEF Inv
<1>2. fun' = fun
  BY DEF Next, CollectGeps, Visit, Crash, FollowUse, Finish, vars
<1>3. ClosedUnderUses(S) BY <1>2 DEF ClosedUnderUses
<1>4. Range(id_worklist) \subseteq S BY <1>3 DEF Inv, WorklistHoldsIdUses
<1>5. CASE Visit
  <2>1. Instr[pos] \in Value BY <1>1, <1>5, CoalescedAssumption DEF Visit, TypeOK
  <2>2. fun.kind[Instr[pos]] = "get_global_id" => Range(fun.users[Instr[pos]]) \subseteq S
    BY <1>3, <2>1 DEF ClosedUnderUses
  <2> QED BY <1>4, <1>5, <2>2 DEF Visit, IsIdCall
<1>6. CASE FollowUse
  <2> DEFINE id_use == id_worklist[Len(id_worklist)]
             rest == SubSeq(id_worklist, 1, Len(id_worklist) - 1)
  <2>1. id_worklist \in Seq(Value) /\ id_worklist # <<>> BY <1>1, <1>6 DEF FollowUse, TypeOK
  <2>2. id_use \in Value BY <2>1
  <2>3. fun.users[id_use] \in Seq(Value) BY <1>1, <2>2 DEF TypeOK, IsFunction
  <2>4. /\ id_use \in S
        /\ Range(rest) \subseteq S
        /\ Range(rest \o fun.users[id_use]) \subseteq S \cup Range(fun.users[id_use])
    BY <1>4, <2>1, <2>3, PopPush
  <2>5. fun.kind[id_use] = "shl" => Range(fun.users[id_use]) \subseteq S
    BY <1>3, <2>2, <2>4 DEF ClosedUnderUses
  <2>6. id_worklist' = IF fun.kind[id_use] = "shl" THEN rest \o fun.users[id_use] ELSE rest
    BY <1>6 DEF FollowUse, Followed
  <2> HIDE DEF id_use, rest
  <2> QED BY <2>4, <2>5, <2>6
<1>7. CASE CollectGeps \/ Crash \/ Finish \/ UNCHANGED vars
  BY <1>4, <1>7 DEF CollectGeps, Crash, Finish, vars
<1> QED BY <1>5, <1>6, <1>7 DEF Next

LEMMA CountStep == Inv /\ [Next]_vars => NothingElseCoalesced'
<1> SUFFICES ASSUME Inv, [Next]_vars,
                    NEW S \in SUBSET Value, ClosedUnderUses(S)',
                    \A g \in fun'.argument : fun'.index[g] \notin S \cup {Constant}
             PROVE  cma'.mem_coalesced = 0
  BY DEF NothingElseCoalesced
<1>1. TypeOK BY DEF Inv
<1>2. fun' = fun
  BY DEF Next, CollectGeps, Visit, Crash, FollowUse, Finish, vars
<1>3. ClosedUnderUses(S) BY <1>2 DEF ClosedUnderUses
<1>4. cma.mem_coalesced = 0 BY <1>2, <1>3 DEF Inv, NothingElseCoalesced
<1>5. ASSUME NEW v \in S \cup {Constant} PROVE Cardinality(IndexedBy(v)) = 0
  <2>1. IndexedBy(v) = {} BY <1>1, <1>2 DEF IndexedBy, TypeOK
  <2> QED BY <2>1, FS_EmptySet
<1>6. CASE FollowUse
  <2> DEFINE id_use == id_worklist[Len(id_worklist)]
  <2>1. id_worklist \in Seq(Value) /\ id_worklist # <<>> BY <1>1, <1>6 DEF FollowUse, TypeOK
  <2>2. id_use \in Range(id_worklist) BY <2>1, PopPush
  <2>3. id_use \in S BY <1>3, <2>2 DEF Inv, WorklistHoldsIdUses
  <2>4. Cardinality(IndexedBy(id_use)) = 0 BY <1>5, <2>3
  <2>5. cma' = cma \/ cma' = [cma EXCEPT !.mem_coalesced = @ + Cardinality(IndexedBy(id_use))]
    BY <1>6 DEF FollowUse
  <2> QED BY <1>1, <1>4, <2>4, <2>5 DEF TypeOK
<1>7. CASE Finish
  <2>1. Cardinality(IndexedBy(Constant)) = 0 BY <1>5
  <2> QED BY <1>1, <1>4, <1>7, <2>1 DEF Finish, TypeOK
<1>8. CASE CollectGeps BY <1>1, <1>4, <1>8 DEF CollectGeps, TypeOK
<1>9. CASE Visit \/ Crash \/ UNCHANGED vars
  BY <1>4, <1>9 DEF Visit, Crash, vars
<1> QED BY <1>6, <1>7, <1>8, <1>9 DEF Next

LEMMA Invariance == Spec => []Inv
<1>1. Inv /\ [Next]_vars => Inv' BY TypeStep, WorklistStep, CountStep DEF Inv
<1> QED BY <1>1, InitInv, PTL DEF Spec

THEOREM TypeCorrect == Spec => []TypeOK
<1>1. Inv => TypeOK BY DEF Inv
<1> QED BY <1>1, Invariance, PTL

(* The traversal visits uses of work-item ids only.                          *)
THEOREM VisitsIdUses == Spec => []WorklistHoldsIdUses
<1>1. Inv => WorklistHoldsIdUses BY DEF Inv
<1> QED BY <1>1, Invariance, PTL

(* A function none of whose geps is indexed by a constant or by such a use   *)
(* has no coalesced access.                                                  *)
THEOREM CountsIdUses == Spec => []NothingElseCoalesced
<1>1. Inv => NothingElseCoalesced BY DEF Inv
<1> QED BY <1>1, Invariance, PTL
-----------------------------------------------------------------------------
(* Sums over a sequence.  They are defined by recursion over its prefixes.   *)
LEMMA LeastNatural ==
  ASSUME NEW S \in SUBSET Nat, S # {}
  PROVE  \E n \in S : \A m \in S : n <= m
<1> DEFINE Below == {p \in Nat \X Nat : p[1] < p[2]}
<1>1. IsWellFoundedOn(Below, Nat) BY NatLessThanWellFounded DEF OpToRel
<1>2. PICK n \in S : \A m \in S : <<m, n>> \notin Below
  <2> HIDE DEF Below
  <2> QED BY <1>1, WFMin
<1>3. ASSUME NEW m \in S PROVE n <= m
  <2>1. m \in Nat /\ n \in Nat /\ ~(m < n) BY <1>2
  <2> QED BY <2>1
<1> QED BY <1>3

(* Induction over an initial segment.                                        *)
LEMMA SegmentInduction ==
  ASSUME NEW N \in Nat, NEW Good \in SUBSET (0..N), 0 \in Good,
         \A n \in 1..N : n - 1 \in Good => n \in Good
  PROVE  \A n \in 0..N : n \in Good
<1> DEFINE Bad == (0..N) \ Good
<1>1. SUFFICES ASSUME Bad # {} PROVE FALSE OBVIOUS
<1>2. PICK n \in Bad : \A m \in Bad : n <= m
  <2>1. Bad \in SUBSET Nat OBVIOUS
  <2> HIDE DEF Bad
  <2> QED BY <1>1, <2>1, LeastNatural
<1>3. n \in 0..N /\ n \notin Good /\ n # 0 BY <1>2
<1>4. n \in 1..N /\ n - 1 \in 0..N BY <1>3
<1>5. n - 1 \notin Good BY <1>3, <1>4
<1>6. n - 1 \in Bad BY <1>4, <1>5
<1>7. ~(n <= n - 1) BY <1>4
<1> QED BY <1>2, <1>6, <1>7

Recurs(f, D, N, base, next) ==
  /\ f \in [0..N -> D]
  /\ f[0] = base
  /\ \A n \in 1..N : f[n] = next[<<n, f[n - 1]>>]

LEMMA Recursion ==
  ASSUME NEW D, NEW N \in Nat, NEW base \in D, NEW next \in [(1..N) \X D -> D]
  PROVE  \E f : Recurs(f, D, N, base, next)
<1> DEFINE Runs(f, n) == f[0] = base /\ \A i \in 1..n : f[i] = next[<<i, f[i - 1]>>]
           Bad == {n \in 0..N : ~\E f \in [0..n -> D] : Runs(f, n)}
<1>1. SUFFICES ASSUME Bad # {} PROVE FALSE
  <2>1. N \in 0..N OBVIOUS
  <2> QED BY <1>1, <2>1 DEF Recurs
<1>2. PICK n \in Bad : \A m \in Bad : n <= m
  <2>1. Bad \in SUBSET Nat OBVIOUS
  <2> HIDE DEF Bad
  <2> QED BY <1>1, <2>1, LeastNatural
<1>3. n \in 0..N /\ ~\E f \in [0..n -> D] : Runs(f, n) OBVIOUS
<1>4. n # 0
  <2>1. Runs([i \in 0..0 |-> base], 0) OBVIOUS
  <2> QED BY <1>3, <2>1
<1>5. n - 1 \in 0..N /\ n - 1 \notin Bad BY <1>2, <1>3, <1>4
<1>6. PICK f \in [0..(n - 1) -> D] : Runs(f, n - 1) BY <1>5
<1> DEFINE g == [i \in 0..n |-> IF i = n THEN next[<<n, f[n - 1]>>] ELSE f[i]]
<1>7. f[n - 1] \in D /\ n \in 1..N BY <1>3, <1>4
<1>8. g \in [0..n -> D] BY <1>7
<1>9. Runs(g, n)
  <2>1. g[0] = base BY <1>3, <1>4, <1>6
  <2>2. ASSUME NEW i \in 1..n PROVE g[i] = next[<<i, g[i - 1]>>]
    <3>1. i - 1 \in 0..n /\ i \in 0..n /\ i - 1 # n BY <1>3
    <3>2. g[i - 1] = f[i - 1] BY <3>1
    <3>3. CASE i = n BY <3>1, <3>2, <3>3
    <3>4. CASE i # n
      <4>1. i \in 1..(n - 1) BY <1>3, <3>4
      <4>2. f[i] = next[<<i, f[i - 1]>>] BY <1>6, <4>1
      <4>3. g[i] = f[i] BY <3>1, <3>4
      <4> QED BY <3>2, <4>2, <4>3
    <3> QED BY <3>3, <3>4
  <2> QED BY <2>1, <2>2
<1> QED BY <1>3, <1>8, <1>9

(* Two weightings that agree on the elements of a sequence have its sums.    *)
LEMMA SameSums ==
  ASSUME NEW w, NEW u, NEW s, Len(s) \in Nat, \A i \in 1..Len(s) : w[s[i]] = u[s[i]]
  PROVE  Sums(w, s) = Sums(u, s) /\ Total(w, s) = Total(u, s)
<1> DEFINE W(f) == f = [n \in 0..Len(s) |-> IF n = 0 THEN 0 ELSE f[n - 1] + w[s[n]]]
           U(f) == f = [n \in 0..Len(s) |-> IF n = 0 THEN 0 ELSE f[n - 1] + u[s[n]]]
<1>1. ASSUME NEW f PROVE W(f) <=> U(f)
  <2>1. \A n \in 0..Len(s) : n # 0 => n \in 1..Len(s) OBVIOUS
  <2>2. [n \in 0..Len(s) |-> IF n = 0 THEN 0 ELSE f[n - 1] + w[s[n]]]
        = [n \in 0..Len(s) |-> IF n = 0 THEN 0 ELSE f[n - 1] + u[s[n]]]
    BY <2>1, Zenon
  <2> QED BY <2>2
<1>2. (CHOOSE f : W(f)) = (CHOOSE f : U(f))
  <2> HIDE DEF W, U
  <2> QED BY <1>1
<1>3. Sums(w, s) = (CHOOSE f : W(f)) /\ Sums(u, s) = (CHOOSE f : U(f)) BY DEF Sums
<1> QED BY <1>2, <1>3 DEF Total

LEMMA SumsRecursion ==
  ASSUME NEW w \in [Value -> Nat], NEW s \in Seq(Value)
  PROVE  /\ Sums(w, s) \in [0..Len(s) -> Nat]
         /\ Sums(w, s)[0] = 0
         /\ \A n \in 1..Len(s) : Sums(w, s)[n] = Sums(w, s)[n - 1] + w[s[n]]
<1> DEFINE N == Len(s)
           next == [p \in (1..N) \X Nat |-> p[2] + w[s[p[1]]]]
           IsSum(f) == f = [n \in 0..N |-> IF n = 0 THEN 0 ELSE f[n - 1] + w[s[n]]]
           g == Sums(w, s)
<1>1. N \in Nat /\ \A n \in 1..N : w[s[n]] \in Nat OBVIOUS
<1>2. next \in [(1..N) \X Nat -> Nat]
  <2> HIDE DEF N
  <2>1. \A p \in (1..N) \X Nat : p[2] + w[s[p[1]]] \in Nat BY <1>1
  <2> QED BY <2>1
<1>3. PICK f : Recurs(f, Nat, N, 0, next)
  <2>1. 0 \in Nat OBVIOUS
  <2> HIDE DEF next, N
  <2>2. \E f : Recurs(f, Nat, N, 0, next) BY <1>1, <1>2, <2>1, Recursion, Zenon
  <2> QED BY <2>2
<1>4. IsSum(f)
  <2> USE DEF Recurs
  <2>1. f \in [0..N -> Nat] /\ f[0] = 0 BY <1>3
  <2>2. ASSUME NEW n \in 1..N PROVE f[n] = f[n - 1] + w[s[n]]
    <3>1. n - 1 \in 0..N BY <1>1
    <3>2. f[n - 1] \in Nat BY <2>1, <3>1
    <3>3. f[n] = next[<<n, f[n - 1]>>] BY <1>3
    <3> QED BY <3>2, <3>3
  <2> HIDE DEF N
  <2> QED BY <1>1, <2>1, <2>2
<1>5. g = CHOOSE h : IsSum(h) BY DEF Sums
<1>6. IsSum(g)
  <2> HIDE DEF IsSum, g
  <2> QED BY <1>4, <1>5
<1> HIDE DEF g, N
<1>7. DOMAIN g = 0..N /\ g[0] = 0 /\ \A n \in 1..N : g[n] = g[n - 1] + w[s[n]]
  <2> DEFINE h == [n \in 0..N |-> IF n = 0 THEN 0 ELSE g[n - 1] + w[s[n]]]
  <2>1. DOMAIN h = 0..N OBVIOUS
  <2>2. \A n \in 0..N : h[n] = IF n = 0 THEN 0 ELSE g[n - 1] + w[s[n]] OBVIOUS
  <2>3. g = h BY <1>6
  <2> HIDE DEF h
  <2>4. 0 \in 0..N /\ \A n \in 1..N : n \in 0..N /\ n # 0 BY <1>1
  <2> QED BY <2>1, <2>2, <2>3, <2>4
<1>8. \A n \in 0..N : g[n] \in Nat
  <2> DEFINE Good == {n \in 0..N : g[n] \in Nat}
  <2>1. 0 \in Good BY <1>1, <1>7
  <2>2. ASSUME NEW n \in 1..N, n - 1 \in Good PROVE n \in Good
    <3>1. g[n - 1] \in Nat /\ n \in 0..N BY <1>1, <2>2
    <3>2. w[s[n]] \in Nat /\ g[n] = g[n - 1] + w[s[n]] BY <1>1, <1>7
    <3>3. g[n] \in Nat BY <3>1, <3>2
    <3> QED BY <3>1, <3>3
  <2>3. Good \in SUBSET (0..N) OBVIOUS
  <2>4. \A n \in 0..N : n \in Good
    <3> HIDE DEF Good
    <3> QED BY <1>1, <2>1, <2>2, <2>3, SegmentInduction
  <2> QED BY <2>4
<1>9. g = [n \in 0..N |-> g[n]]
  <2> DEFINE e == [n \in 0..N |-> IF n = 0 THEN 0 ELSE g[n - 1] + w[s[n]]]
  <2>1. e = [n \in 0..N |-> e[n]] OBVIOUS
  <2>2. g = e BY <1>6
  <2> HIDE DEF e
  <2> QED BY <2>1, <2>2
<1>10. g \in [0..N -> Nat] BY <1>8, <1>9
<1> QED BY <1>7, <1>10 DEF g, N

(* The sums of a prefix that two sequences share.                            *)
LEMMA SharedPrefix ==
  ASSUME NEW w \in [Value -> Nat], NEW s \in Seq(Value), NEW t \in Seq(Value),
         NEW k \in Nat, k <= Len(s), k <= Len(t), \A i \in 1..k : s[i] = t[i]
  PROVE  Sums(w, s)[k] = Sums(w, t)[k]
<1> DEFINE a == Sums(w, s)  b == Sums(w, t)
           Good == {n \in 0..k : a[n] = b[n]}
<1>1. /\ a[0] = 0 /\ b[0] = 0
      /\ \A i \in 1..Len(s) : a[i] = a[i - 1] + w[s[i]]
      /\ \A i \in 1..Len(t) : b[i] = b[i - 1] + w[t[i]]
  BY SumsRecursion
<1> HIDE DEF a, b
<1>2. ASSUME NEW n \in 1..k, n - 1 \in Good PROVE n \in Good
  <2>1. n \in 1..Len(s) /\ n \in 1..Len(t) /\ n \in 0..k OBVIOUS
  <2>2. a[n - 1] = b[n - 1] BY <1>2
  <2> QED BY <1>1, <2>1, <2>2
<1>3. 0 \in Good /\ Good \in SUBSET (0..k) BY <1>1
<1>4. \A n \in 0..k : n \in Good
  <2> HIDE DEF Good
  <2> QED BY <1>2, <1>3, SegmentInduction
<1> QED BY <1>4 DEF a, b

LEMMA TotalType ==
  ASSUME NEW w \in [Value -> Nat], NEW s \in Seq(Value)
  PROVE  Total(w, s) \in Nat
<1>1. Sums(w, s) \in [0..Len(s) -> Nat] BY SumsRecursion
<1>2. Len(s) \in 0..Len(s) OBVIOUS
<1> QED BY <1>1, <1>2 DEF Total

(* The total of a concatenation, and of a stack before and after a pop.      *)
LEMMA TotalPush ==
  ASSUME NEW w \in [Value -> Nat], NEW s \in Seq(Value), NEW t \in Seq(Value)
  PROVE  s \o t \in Seq(Value) /\ Total(w, s \o t) = Total(w, s) + Total(w, t)
<1> DEFINE u == s \o t  a == Sums(w, s)  b == Sums(w, t)  c == Sums(w, u)
           S == Len(s)  T == Len(t)
           Good == {n \in 0..T : c[S + n] = a[S] + b[n]}
<1>1. /\ u \in Seq(Value) /\ S \in Nat /\ T \in Nat /\ Len(u) = S + T
      /\ \A i \in 1..S : u[i] = s[i]
      /\ \A i \in 1..T : u[S + i] = t[i]
  OBVIOUS
<1>2. c[S] = a[S]
  <2>1. S <= S /\ S <= Len(u) BY <1>1
  <2> HIDE DEF u, S
  <2> QED BY <1>1, <2>1, SharedPrefix DEF S
<1>3. /\ a \in [0..S -> Nat] /\ b \in [0..T -> Nat] /\ b[0] = 0
      /\ \A i \in 1..T : b[i] = b[i - 1] + w[t[i]]
      /\ \A i \in 1..(S + T) : c[i] = c[i - 1] + w[u[i]]
  <2> HIDE DEF u
  <2> QED BY <1>1, SumsRecursion
<1>4. \A i \in 1..T : w[t[i]] \in Nat OBVIOUS
<1>5. c[S + T] = a[S] + b[T]
  <2> HIDE DEF a, b, c, u, S, T
  <2>1. a[S] \in Nat BY <1>1, <1>3
  <2>2. 0 \in Good
    <3>1. S + 0 = S /\ a[S] + 0 = a[S] BY <1>1, <2>1
    <3> QED BY <1>1, <1>2, <1>3, <3>1
  <2>3. ASSUME NEW n \in 1..T, n - 1 \in Good PROVE n \in Good
    <3>1. n \in 0..T /\ n - 1 \in 0..T BY <1>1
    <3>2. c[S + (n - 1)] = a[S] + b[n - 1] BY <2>3
    <3>3. S + n \in 1..(S + T) /\ (S + n) - 1 = S + (n - 1) BY <1>1, <3>1
    <3>4. c[S + n] = c[S + (n - 1)] + w[t[n]] BY <1>1, <1>3, <3>3
    <3>5. b[n - 1] \in Nat /\ w[t[n]] \in Nat /\ b[n] = b[n - 1] + w[t[n]]
      BY <1>3, <1>4, <3>1
    <3>6. c[S + n] = a[S] + b[n] BY <2>1, <3>2, <3>4, <3>5
    <3> QED BY <3>1, <3>6
  <2>4. Good \in SUBSET (0..T) OBVIOUS
  <2>5. \A n \in 0..T : n \in Good
    <3> HIDE DEF Good
    <3> QED BY <1>1, <2>2, <2>3, <2>4, SegmentInduction
  <2> QED BY <1>1, <2>5
<1> HIDE DEF u
<1> QED BY <1>1, <1>5 DEF Total, u

LEMMA TotalPop ==
  ASSUME NEW w \in [Value -> Nat], NEW s \in Seq(Value), s # <<>>
  PROVE  LET rest == SubSeq(s, 1, Len(s) - 1)
         IN  rest \in Seq(Value) /\ Total(w, s) = Total(w, rest) + w[s[Len(s)]]
<1> DEFINE rest == SubSeq(s, 1, Len(s) - 1)  n == Len(s) - 1
<1>1. n \in Nat /\ Len(s) = n + 1 /\ n + 1 \in 1..Len(s)
  <2>1. Len(s) \in Nat \ {0} OBVIOUS
  <2> QED BY <2>1
<1>2. rest \in Seq(Value) /\ Len(rest) = n /\ \A i \in 1..n : rest[i] = s[i]
  BY <1>1, PopPrefix
<1> HIDE DEF rest
<1>3. Sums(w, rest)[n] = Sums(w, s)[n]
  <2>1. n <= Len(rest) /\ n <= Len(s) BY <1>1, <1>2
  <2> HIDE DEF n
  <2> QED BY <1>1, <1>2, <2>1, SharedPrefix
<1>4. Sums(w, s)[n + 1] = Sums(w, s)[n] + w[s[n + 1]]
  <2>1. (n + 1) - 1 = n BY <1>1
  <2> HIDE DEF n
  <2> QED BY <1>1, <2>1, SumsRecursion
<1> QED BY <1>1, <1>2, <1>3, <1>4 DEF Total, rest

(* The total of the sum of two weightings.                                   *)
IsPlus(v, w, u) ==
  /\ v \in [Value -> Nat] /\ w \in [Value -> Nat] /\ u \in [Value -> Nat]
  /\ \A x \in Value : v[x] = w[x] + u[x]

LEMMA TotalPlus ==
  ASSUME NEW v, NEW w, NEW u, IsPlus(v, w, u), NEW s \in Seq(Value)
  PROVE  Total(v, s) = Total(w, s) + Total(u, s)
<1> DEFINE a == Sums(w, s)  b == Sums(u, s)  c == Sums(v, s)  N == Len(s)
           Good == {n \in 0..N : c[n] = a[n] + b[n]}
<1>1. /\ N \in Nat /\ N \in 0..N
      /\ \A i \in 1..N : s[i] \in Value /\ w[s[i]] \in Nat /\ u[s[i]] \in Nat
  BY DEF IsPlus
<1>2. /\ a \in [0..N -> Nat] /\ b \in [0..N -> Nat] /\ a[0] = 0 /\ b[0] = 0 /\ c[0] = 0
      /\ \A i \in 1..N : a[i] = a[i - 1] + w[s[i]]
      /\ \A i \in 1..N : b[i] = b[i - 1] + u[s[i]]
      /\ \A i \in 1..N : c[i] = c[i - 1] + v[s[i]]
  BY SumsRecursion DEF IsPlus
<1> HIDE DEF a, b, c, N
<1>3. \A n \in 0..N : n \in Good
  <2>1. 0 \in Good
    <3>1. 0 \in 0..N /\ 0 + 0 = 0 BY <1>1
    <3> QED BY <1>2, <3>1
  <2>2. ASSUME NEW n \in 1..N, n - 1 \in Good PROVE n \in Good
    <3>1. n \in 0..N /\ n - 1 \in 0..N BY <1>1
    <3>2. c[n - 1] = a[n - 1] + b[n - 1] BY <2>2
    <3>3. a[n - 1] \in Nat /\ b[n - 1] \in Nat BY <1>2, <3>1
    <3>4. /\ v[s[n]] = w[s[n]] + u[s[n]]
          /\ w[s[n]] \in Nat /\ u[s[n]] \in Nat
      BY <1>1 DEF IsPlus
    <3>5. /\ a[n] = a[n - 1] + w[s[n]] /\ b[n] = b[n - 1] + u[s[n]]
          /\ c[n] = c[n - 1] + v[s[n]]
      BY <1>2
    <3>6. c[n] = (a[n - 1] + b[n - 1]) + (w[s[n]] + u[s[n]]) BY <3>2, <3>4, <3>5
    <3>7. (a[n - 1] + b[n - 1]) + (w[s[n]] + u[s[n]])
          = (a[n - 1] + w[s[n]]) + (b[n - 1] + u[s[n]])
      <4> DEFINE p == a[n - 1]  q == b[n - 1]  x == w[s[n]]  y == u[s[n]]
      <4>1. p \in Nat /\ q \in Nat /\ x \in Nat /\ y \in Nat BY <3>3, <3>4
      <4> HIDE DEF p, q, x, y
      <4>2. (p + q) + (x + y) = (p + x) + (q + y) BY <4>1
      <4> QED BY <4>2 DEF p, q, x, y
    <3>8. c[n] = a[n] + b[n] BY <3>5, <3>6, <3>7
    <3> QED BY <3>1, <3>8
  <2>3. Good \in SUBSET (0..N) OBVIOUS
  <2> HIDE DEF Good
  <2> QED BY <1>1, <2>1, <2>2, <2>3, SegmentInduction
<1>4. c[N] = a[N] + b[N] BY <1>1, <1>3
<1> QED BY <1>4 DEF Total, a, b, c, N

(* A weighting that is zero has zero sums.                                   *)
LEMMA SumsZero ==
  ASSUME NEW w \in [Value -> Nat], \A x \in Value : w[x] = 0, NEW s \in Seq(Value)
  PROVE  Total(w, s) = 0
<1>1. IsPlus(w, w, w) BY DEF IsPlus
<1>2. Total(w, s) = Total(w, s) + Total(w, s) BY <1>1, TotalPlus
<1> QED BY <1>2, TotalType

-----------------------------------------------------------------------------
(* Paths.  Shls form no cycle, so that the paths from the uses of a shl      *)
(* determine those from the shl, and Paths exists.                           *)
Direct(geps, v) == Cardinality({g \in geps : fun.index[g] = v})

WeighsOn(w, S, geps) ==
  /\ w \in [Value -> Nat] /\ S \in SUBSET Value
  /\ \A v \in S : /\ Followed(v) => Range(fun.users[v]) \subseteq S
                  /\ w[v] = IF Followed(v) THEN Total(w, fun.users[v]) ELSE Direct(geps, v)

LEMMA Acyclic ==
  ASSUME IsFunction(fun), NEW S \in SUBSET Value, S # {}, \A v \in S : Followed(v)
  PROVE  \E v \in S : S \cap Range(fun.users[v]) = {}
<1>1. S \subseteq {v \in Value : fun.kind[v] = "shl"} BY DEF Followed
<1> QED BY <1>1 DEF IsFunction

LEMMA UsersType ==
  ASSUME IsFunction(fun), NEW v \in Value
  PROVE  /\ fun.users[v] \in Seq(Value) /\ Len(fun.users[v]) \in Nat
         /\ \A i \in 1..Len(fun.users[v]) : /\ fun.users[v][i] \in Value
                                            /\ fun.users[v][i] \in Range(fun.users[v])
<1>1. fun.users[v] \in Seq(Value) BY DEF IsFunction
<1>2. DOMAIN fun.users[v] = 1..Len(fun.users[v]) BY <1>1
<1> QED BY <1>1, <1>2 DEF Range

LEMMA DirectType ==
  ASSUME NEW geps \in SUBSET Value, NEW v
  PROVE  Direct(geps, v) \in Nat
<1>1. {g \in geps : fun.index[g] = v} \subseteq Value OBVIOUS
<1> QED BY <1>1, CoalescedAssumption, FS_Subset, FS_CardinalityType DEF Direct

(* Where two weightings are both defined they agree.                         *)
LEMMA WeightsAgree ==
  ASSUME IsFunction(fun), NEW geps, NEW w, NEW u, NEW S, NEW T,
         WeighsOn(w, S, geps), WeighsOn(u, T, geps)
  PROVE  \A v \in S \cap T : w[v] = u[v]
<1> DEFINE Differ == {v \in S \cap T : w[v] # u[v]}
<1>1. SUFFICES ASSUME Differ # {} PROVE FALSE OBVIOUS
<1>2. Differ \in SUBSET Value /\ \A v \in Differ : Followed(v) BY DEF WeighsOn
<1>3. PICK v \in Differ : Differ \cap Range(fun.users[v]) = {}
  <2> HIDE DEF Differ
  <2> QED BY <1>1, <1>2, Acyclic
<1>4. v \in Value /\ v \in S /\ v \in T /\ Followed(v) BY <1>2
<1>5. Range(fun.users[v]) \subseteq S \cap T BY <1>4 DEF WeighsOn
<1>6. \A i \in 1..Len(fun.users[v]) : w[fun.users[v][i]] = u[fun.users[v][i]]
  BY <1>3, <1>4, <1>5, UsersType
<1>7. Total(w, fun.users[v]) = Total(u, fun.users[v])
  <2> DEFINE users == fun.users[v]
  <2>1. Len(users) \in Nat /\ \A i \in 1..Len(users) : w[users[i]] = u[users[i]]
    BY <1>4, <1>6, UsersType
  <2> HIDE DEF users
  <2>2. Total(w, users) = Total(u, users) BY <2>1, SameSums
  <2> QED BY <2>2 DEF users
<1>8. w[v] = u[v] BY <1>4, <1>7 DEF WeighsOn
<1> QED BY <1>8

(* There is a weighting of all values: no shl is the first without.          *)
LEMMA WeightsExist ==
  ASSUME IsFunction(fun), NEW geps \in SUBSET Value
  PROVE  \E w : WeighsOn(w, Value, geps)
<1> DEFINE Weighed(w, S, v) == v \in S /\ WeighsOn(w, S, geps)
           Good == {v \in Value : \E w, S : Weighed(w, S, v)}
           At(v, n) == \E w, S : Weighed(w, S, v) /\ w[v] = n
           all == [v \in Value |-> IF v \in Good THEN CHOOSE n \in Nat : At(v, n) ELSE 0]
<1>1. ASSUME NEW w, NEW S, WeighsOn(w, S, geps), NEW v \in S
      PROVE  v \in Good /\ all[v] = w[v]
  <2>1. v \in Value /\ w[v] \in Nat BY <1>1 DEF WeighsOn
  <2>2. Weighed(w, S, v) BY <1>1
  <2>3. v \in Good BY <2>1, <2>2
  <2>4. At(v, w[v]) BY <2>2
  <2>5. ASSUME NEW n \in Nat, At(v, n) PROVE n = w[v]
    <3>1. PICK u, T : Weighed(u, T, v) /\ u[v] = n BY <2>5
    <3>2. v \in S \cap T BY <3>1
    <3> QED BY <1>1, <3>1, <3>2, WeightsAgree
  <2>6. (CHOOSE n \in Nat : At(v, n)) = w[v]
    <3> HIDE DEF At
    <3> QED BY <2>1, <2>4, <2>5
  <2> HIDE DEF Good, At
  <2> QED BY <2>1, <2>3, <2>6
<1>2. all \in [Value -> Nat]
  <2>1. ASSUME NEW v \in Good PROVE (CHOOSE n \in Nat : At(v, n)) \in Nat
    <3>1. PICK w, S : Weighed(w, S, v) OBVIOUS
    <3>2. w[v] \in Nat BY <3>1 DEF WeighsOn
    <3>3. At(v, w[v]) BY <3>1
    <3> HIDE DEF At
    <3> QED BY <3>2, <3>3
  <2> HIDE DEF Good, At
  <2> QED BY <2>1
<1> HIDE DEF all
<1>3. WeighsOn(all, Good, geps)
  <2>1. Good \in SUBSET Value OBVIOUS
  <2>2. ASSUME NEW v \in Good
        PROVE  /\ Followed(v) => Range(fun.users[v]) \subseteq Good
               /\ all[v] = IF Followed(v) THEN Total(all, fun.users[v]) ELSE Direct(geps, v)
    <3>1. PICK w, S : Weighed(w, S, v) BY <2>2
    <3>2. WeighsOn(w, S, geps) /\ v \in S /\ v \in Value BY <3>1
    <3>3. \A x \in S : x \in Good /\ all[x] = w[x]
      <4> HIDE DEF Good
      <4> QED BY <1>1, <3>2
    <3> HIDE DEF Good
    <3>4. Followed(v) => Range(fun.users[v]) \subseteq S /\ Range(fun.users[v]) \subseteq Good
      BY <3>2, <3>3 DEF WeighsOn
    <3>5. ASSUME Followed(v) PROVE Total(all, fun.users[v]) = Total(w, fun.users[v])
      <4>1. \A i \in 1..Len(fun.users[v]) : all[fun.users[v][i]] = w[fun.users[v][i]]
        BY <3>2, <3>3, <3>4, <3>5, UsersType
      <4> QED BY <3>2, <4>1, UsersType, SameSums
    <3> QED BY <3>2, <3>3, <3>4, <3>5 DEF WeighsOn
  <2> HIDE DEF Good
  <2> QED BY <1>2, <2>1, <2>2 DEF WeighsOn
<1>4. Good = Value
  <2> DEFINE Bad == Value \ Good
  <2>1. SUFFICES ASSUME Bad # {} PROVE FALSE OBVIOUS
  <2>2. ASSUME NEW v \in Bad PROVE Followed(v)
    <3>1. SUFFICES ASSUME ~Followed(v) PROVE FALSE OBVIOUS
    <3> DEFINE w == [x \in Value |-> Direct(geps, v)]
    <3>2. WeighsOn(w, {v}, geps)
      <4>1. Direct(geps, v) \in Nat BY DirectType
      <4> QED BY <2>2, <3>1, <4>1 DEF WeighsOn
    <3>3. v \in Good
      <4> HIDE DEF Good
      <4> QED BY <1>1, <3>2
    <3> QED BY <2>2, <3>3
  <2>3. PICK v \in Bad : Bad \cap Range(fun.users[v]) = {}
    <3>1. Bad \in SUBSET Value OBVIOUS
    <3> HIDE DEF Bad
    <3> QED BY <2>1, <2>2, <3>1, Acyclic
  <2>4. v \in Value /\ v \notin Good /\ Followed(v) BY <2>2, <2>3
  <2>5. Range(fun.users[v]) \subseteq Good
    <3> HIDE DEF Good
    <3>1. Range(fun.users[v]) \subseteq Value BY <2>4, UsersType DEF Range, IsFunction
    <3> QED BY <2>3, <3>1
  <2> HIDE DEF Good
  <2> DEFINE w == [all EXCEPT ![v] = Total(all, fun.users[v])]
             S == Good \cup {v}
  <2>6. Total(all, fun.users[v]) \in Nat BY <1>2, <2>4, UsersType, TotalType
  <2>7. w \in [Value -> Nat] /\ S \in SUBSET Value BY <1>2, <1>3, <2>4, <2>6 DEF WeighsOn
  <2>8. w[v] = Total(all, fun.users[v]) /\ \A x \in Good : w[x] = all[x]
    BY <1>2, <1>3, <2>4 DEF WeighsOn
  <2> HIDE DEF w
  <2>9. ASSUME NEW x \in Value, Range(fun.users[x]) \subseteq Good
        PROVE  Total(w, fun.users[x]) = Total(all, fun.users[x])
    <3>1. \A i \in 1..Len(fun.users[x]) : w[fun.users[x][i]] = all[fun.users[x][i]]
      BY <2>8, <2>9, UsersType
    <3> QED BY <3>1, UsersType, SameSums
  <2>10. ASSUME NEW x \in S
         PROVE  /\ Followed(x) => Range(fun.users[x]) \subseteq S
                /\ w[x] = IF Followed(x) THEN Total(w, fun.users[x]) ELSE Direct(geps, x)
    <3>1. CASE x = v BY <2>4, <2>5, <2>8, <2>9, <3>1
    <3>2. CASE x \in Good
      <4>1. x \in Value /\ w[x] = all[x] BY <2>7, <2>8, <3>2
      <4> QED BY <1>3, <2>9, <3>2, <4>1 DEF WeighsOn
    <3> QED BY <2>10, <3>1, <3>2
  <2>11. WeighsOn(w, S, geps)
    <3> HIDE DEF S
    <3> QED BY <2>7, <2>10 DEF WeighsOn
  <2>12. v \in Good BY <1>1, <2>11
  <2> QED BY <2>4, <2>12
<1> QED BY <1>3, <1>4

(* Paths is that weighting.                                                  *)
LEMMA PathsWeigh ==
  ASSUME IsFunction(fun), NEW geps \in SUBSET Value
  PROVE  WeighsOn(Paths(geps), Value, geps)
<1> DEFINE Fix(f) == f = [v \in Value |-> IF Followed(v) THEN Total(f, fun.users[v])
                                                         ELSE Direct(geps, v)]
           paths == Paths(geps)
<1>1. PICK w : WeighsOn(w, Value, geps) BY WeightsExist
<1>2. Fix(w) BY <1>1 DEF WeighsOn
<1>3. paths = CHOOSE f : Fix(f) BY DEF Paths, Direct
<1>4. Fix(paths)
  <2> HIDE DEF Fix, paths
  <2> QED BY <1>2, <1>3
<1> HIDE DEF paths
<1>5. /\ DOMAIN paths = Value
      /\ \A v \in Value : paths[v] = IF Followed(v) THEN Total(paths, fun.users[v])
                                                    ELSE Direct(geps, v)
  <2> DEFINE h == [v \in Value |-> IF Followed(v) THEN Total(paths, fun.users[v])
                                                  ELSE Direct(geps, v)]
  <2>1. /\ DOMAIN h = Value
        /\ \A v \in Value : h[v] = IF Followed(v) THEN Total(paths, fun.users[v])
                                                  ELSE Direct(geps, v)
    OBVIOUS
  <2>2. paths = h BY <1>4
  <2> HIDE DEF h
  <2> QED BY <2>1, <2>2
<1>6. \A v \in Value : paths[v] = w[v]
  <2> DEFINE Differ == {v \in Value : paths[v] # w[v]}
  <2>1. SUFFICES ASSUME Differ # {} PROVE FALSE OBVIOUS
  <2>2. Differ \in SUBSET Value /\ \A v \in Differ : Followed(v)
    BY <1>1, <1>5 DEF WeighsOn
  <2>3. PICK v \in Differ : Differ \cap Range(fun.users[v]) = {}
    <3> HIDE DEF Differ
    <3> QED BY <2>1, <2>2, Acyclic
  <2>4. v \in Value /\ Followed(v) BY <2>2
  <2>5. \A i \in 1..Len(fun.users[v]) : paths[fun.users[v][i]] = w[fun.users[v][i]]
    BY <2>3, <2>4, UsersType
  <2>6. Total(paths, fun.users[v]) = Total(w, fun.users[v])
    <3> DEFINE s == fun.users[v]
    <3>1. Len(s) \in Nat /\ \A i \in 1..Len(s) : paths[s[i]] = w[s[i]]
      BY <2>4, <2>5, UsersType
    <3> HIDE DEF s
    <3>2. Total(paths, s) = Total(w, s) BY <3>1, SameSums
    <3> QED BY <3>2 DEF s
  <2>7. paths[v] = w[v] BY <1>1, <1>5, <2>4, <2>6 DEF WeighsOn
  <2> QED BY <2>7
<1>7. paths = w
  <2> DEFINE h == [v \in Value |-> IF Followed(v) THEN Total(paths, fun.users[v])
                                                  ELSE Direct(geps, v)]
  <2>1. h = [v \in Value |-> h[v]] OBVIOUS
  <2>2. paths = h BY <1>4
  <2>3. paths = [v \in Value |-> paths[v]]
    <3> HIDE DEF h
    <3> QED BY <2>1, <2>2
  <2>4. w = [v \in Value |-> w[v]] BY <1>1 DEF WeighsOn
  <2> QED BY <1>6, <2>3, <2>4
<1> QED BY <1>1, <1>7 DEF paths

LEMMA DirectSingle ==
  ASSUME NEW g, NEW v
  PROVE  Direct({g}, v) = IF fun.index[g] = v THEN 1 ELSE 0
<1> DEFINE C == {x \in {g} : fun.index[x] = v}
<1>1. CASE fun.index[g] = v
  <2>1. C = {g} BY <1>1
  <2> QED BY <1>1, <2>1, FS_Singleton DEF Direct
<1>2. CASE fun.index[g] # v
  <2>1. C = {} BY <1>2
  <2> QED BY <1>2, <2>1, FS_EmptySet DEF Direct
<1> QED BY <1>1, <1>2

(* One gep more adds its own paths.                                          *)
LEMMA DirectPlus ==
  ASSUME NEW geps \in SUBSET Value, NEW g \in Value, g \notin geps, NEW v
  PROVE  Direct(geps \cup {g}, v) = Direct(geps, v) + Direct({g}, v)
<1> DEFINE A == {x \in geps : fun.index[x] = v}
           B == {x \in geps \cup {g} : fun.index[x] = v}
<1>1. IsFiniteSet(A) /\ Cardinality(A) \in Nat
  <2>1. A \subseteq Value OBVIOUS
  <2> HIDE DEF A
  <2> QED BY <2>1, CoalescedAssumption, FS_Subset, FS_CardinalityType
<1>2. Direct(geps, v) = Cardinality(A) /\ Direct(geps \cup {g}, v) = Cardinality(B)
  BY DEF Direct
<1>3. CASE fun.index[g] = v
  <2>1. B = A \cup {g} /\ g \notin A BY <1>3
  <2> HIDE DEF A, B
  <2>2. Cardinality(B) = Cardinality(A) + 1 BY <1>1, <2>1, FS_AddElement
  <2> QED BY <1>2, <1>3, <2>2, DirectSingle
<1>4. CASE fun.index[g] # v
  <2>1. B = A BY <1>4
  <2> HIDE DEF A, B
  <2>2. Cardinality(B) = Cardinality(A) + 0 BY <1>1, <2>1
  <2> QED BY <1>2, <1>4, <2>2, DirectSingle
<1> QED BY <1>3, <1>4

FromId(geps) ==
  [v \in Value |-> IF IsIdCall(v) THEN Total(Paths(geps), fun.users[v]) ELSE 0]

LEMMA FromIdType ==
  ASSUME IsFunction(fun), NEW geps \in SUBSET Value
  PROVE  /\ FromId(geps) \in [Value -> Nat]
         /\ PathsFromIds(geps) = Sums(FromId(geps), Instr)
         /\ AllPaths(geps) = Total(FromId(geps), Instr)
<1>1. Paths(geps) \in [Value -> Nat] BY PathsWeigh DEF WeighsOn
<1>2. \A v \in Value : Total(Paths(geps), fun.users[v]) \in Nat
  BY <1>1, UsersType, TotalType
<1> QED BY <1>2 DEF FromId, PathsFromIds, AllPaths, Total

LEMMA AllPathsType ==
  ASSUME IsFunction(fun), NEW geps \in SUBSET Value
  PROVE  AllPaths(geps) \in Nat
<1>1. Instr \in Seq(Value) BY CoalescedAssumption
<1> QED BY <1>1, FromIdType, TotalType

LEMMA AllPathsPlus ==
  ASSUME IsFunction(fun), NEW geps \in SUBSET Value, NEW g \in Value, g \notin geps
  PROVE  AllPaths(geps \cup {g}) = AllPaths(geps) + AllPaths({g})
<1> DEFINE more == geps \cup {g}
           one == {g}
           w == Paths(geps)  u == Paths(one)
           both == [v \in Value |-> w[v] + u[v]]
<1>1. more \in SUBSET Value /\ one \in SUBSET Value OBVIOUS
<1>2. \A v : Direct(more, v) = Direct(geps, v) + Direct(one, v) BY DirectPlus
<1> HIDE DEF more, one
<1>3. WeighsOn(w, Value, geps) /\ WeighsOn(u, Value, one) BY <1>1, PathsWeigh
<1> HIDE DEF w, u
<1>4. w \in [Value -> Nat] /\ u \in [Value -> Nat] BY <1>3 DEF WeighsOn
<1>5. both \in [Value -> Nat] /\ \A v \in Value : both[v] = w[v] + u[v] BY <1>4
<1> HIDE DEF both
<1>6. \A v \in Value :
        Total(both, fun.users[v]) = Total(w, fun.users[v]) + Total(u, fun.users[v])
  <2> SUFFICES ASSUME NEW v \in Value
      PROVE Total(both, fun.users[v]) = Total(w, fun.users[v]) + Total(u, fun.users[v])
    OBVIOUS
  <2> DEFINE users == fun.users[v]
  <2>1. users \in Seq(Value) BY UsersType
  <2> HIDE DEF users
  <2>2. IsPlus(both, w, u) BY <1>4, <1>5 DEF IsPlus
  <2>3. Total(both, users) = Total(w, users) + Total(u, users) BY <2>1, <2>2, TotalPlus
  <2> QED BY <2>3 DEF users
<1>7. WeighsOn(both, Value, more)
  <2>1. ASSUME NEW v \in Value
        PROVE  /\ Followed(v) => Range(fun.users[v]) \subseteq Value
               /\ both[v] = IF Followed(v) THEN Total(both, fun.users[v]) ELSE Direct(more, v)
    <3>1. both[v] = w[v] + u[v] BY <1>5
    <3>2. Followed(v) => Range(fun.users[v]) \subseteq Value BY <1>3 DEF WeighsOn
    <3>3. CASE Followed(v)
      <4>1. w[v] = Total(w, fun.users[v]) /\ u[v] = Total(u, fun.users[v])
        BY <1>3, <3>3 DEF WeighsOn
      <4> QED BY <1>6, <3>1, <3>2, <3>3, <4>1
    <3>4. CASE ~Followed(v)
      <4>1. w[v] = Direct(geps, v) /\ u[v] = Direct(one, v) BY <1>3, <3>4 DEF WeighsOn
      <4> QED BY <1>2, <3>1, <3>4, <4>1
    <3> QED BY <3>3, <3>4
  <2> QED BY <1>5, <2>1 DEF WeighsOn
<1>8. WeighsOn(Paths(more), Value, more) BY <1>1, PathsWeigh
<1>9. \A v \in Value : Paths(more)[v] = both[v] BY <1>7, <1>8, WeightsAgree
<1>10. ASSUME NEW v \in Value
       PROVE  FromId(more)[v] = FromId(geps)[v] + FromId(one)[v]
  <2>1. Total(Paths(more), fun.users[v]) = Total(both, fun.users[v])
    <3>1. \A i \in 1..Len(fun.users[v]) :
            Paths(more)[fun.users[v][i]] = both[fun.users[v][i]]
      BY <1>9, UsersType
    <3>2. Len(fun.users[v]) \in Nat BY UsersType
    <3> DEFINE users == fun.users[v]  p == Paths(more)
    <3>3. Len(users) \in Nat /\ \A i \in 1..Len(users) : p[users[i]] = both[users[i]]
      BY <3>1, <3>2
    <3> HIDE DEF users, p
    <3>4. Total(p, users) = Total(both, users) BY <3>3, SameSums
    <3> QED BY <3>4 DEF users, p
  <2>2. CASE IsIdCall(v) BY <1>6, <2>1, <2>2 DEF FromId, w, u
  <2>3. CASE ~IsIdCall(v)
    <3>1. 0 = 0 + 0 OBVIOUS
    <3> QED BY <2>3, <3>1 DEF FromId
  <2> QED BY <2>2, <2>3
<1>11. FromId(more) \in [Value -> Nat] /\ FromId(geps) \in [Value -> Nat]
       /\ FromId(one) \in [Value -> Nat]
  BY <1>1, FromIdType
<1>12. Total(FromId(more), Instr) = Total(FromId(geps), Instr) + Total(FromId(one), Instr)
  <2> DEFINE a == FromId(more)  b == FromId(geps)  c == FromId(one)
  <2>1. IsPlus(a, b, c) BY <1>10, <1>11 DEF IsPlus
  <2>2. Instr \in Seq(Value) BY CoalescedAssumption
  <2> HIDE DEF a, b, c
  <2>3. Total(a, Instr) = Total(b, Instr) + Total(c, Instr) BY <2>1, <2>2, TotalPlus
  <2> QED BY <2>3 DEF a, b, c
<1> QED BY <1>1, <1>12, FromIdType DEF more, one

(* Geps that nothing indexes have no paths.                                  *)
LEMMA NoPaths ==
  ASSUME IsFunction(fun), NEW geps \in SUBSET Value, \A v \in Value : Direct(geps, v) = 0
  PROVE  AllPaths(geps) = 0
<1> DEFINE zero == [v \in Value |-> 0]
<1>1. zero \in [Value -> Nat] /\ \A v \in Value : zero[v] = 0 OBVIOUS
<1> HIDE DEF zero
<1>2. \A v \in Value : Total(zero, fun.users[v]) = 0 BY <1>1, UsersType, SumsZero
<1>3. \A v \in Value : Range(fun.users[v]) \subseteq Value BY UsersType DEF Range
<1>4. WeighsOn(zero, Value, geps) BY <1>1, <1>2, <1>3 DEF WeighsOn
<1>5. WeighsOn(Paths(geps), Value, geps) BY PathsWeigh
<1>6. \A v \in Value : Paths(geps)[v] = 0 BY <1>1, <1>4, <1>5, WeightsAgree
<1>7. Paths(geps) \in [Value -> Nat] BY <1>5 DEF WeighsOn
<1>8. \A v \in Value : Total(Paths(geps), fun.users[v]) = 0
  BY <1>6, <1>7, UsersType, SumsZero
<1>9. \A v \in Value : FromId(geps)[v] = 0 BY <1>8 DEF FromId
<1>10. FromId(geps) \in [Value -> Nat] BY FromIdType
<1>11. Total(FromId(geps), Instr) = 0 BY <1>9, <1>10, CoalescedAssumption, SumsZero
<1> QED BY <1>11, FromIdType

(* A set of geps to each of which at most one path leads, or a constant      *)
(* index, is not counted more often than it has elements.                    *)
LEMMA OnePathEach ==
  ASSUME IsFunction(fun), NEW geps \in SUBSET Value,
         \A g \in geps : AllPaths({g}) <= 1
  PROVE  AllPaths(geps) + Direct(geps, Constant) <= Cardinality(geps)
<1> DEFINE Count(G) == AllPaths(G) + Direct(G, Constant)
           N == Cardinality(geps)
           Good == {n \in 0..N : \A G \in SUBSET geps :
                                   Cardinality(G) = n => Count(G) <= n}
<1>1. \A G \in SUBSET geps : IsFiniteSet(G) /\ G \in SUBSET Value
  BY CoalescedAssumption, FS_Subset
<1>2. N \in Nat BY <1>1, FS_CardinalityType
<1>3. 0 \in Good
  <2>1. ASSUME NEW G \in SUBSET geps, Cardinality(G) = 0 PROVE Count(G) <= 0
    <3>1. G = {} BY <1>1, <2>1, FS_EmptySet
    <3>2. \A v : Direct(G, v) = 0 BY <3>1, FS_EmptySet DEF Direct
    <3>3. AllPaths(G) = 0 BY <3>1, <3>2, NoPaths
    <3>4. 0 + 0 <= 0 OBVIOUS
    <3> QED BY <3>2, <3>3, <3>4
  <2> HIDE DEF Count
  <2> QED BY <1>2, <2>1
<1>4. ASSUME NEW g \in geps PROVE Count({g}) <= 1 /\ Count({g}) \in Nat
  <2>1. g \in Value /\ {g} \in SUBSET Value OBVIOUS
  <2>2. AllPaths({g}) \in Nat BY <2>1, AllPathsType
  <2>3. \A v : Direct({g}, v) = IF fun.index[g] = v THEN 1 ELSE 0 BY DirectSingle
  <2>4. CASE fun.index[g] = Constant
    <3>1. Direct({g}, Constant) = 1 BY <2>3, <2>4
    <3>2. \A v \in Value : Direct({g}, v) = 0 BY <2>3, <2>4, CoalescedAssumption
    <3>3. AllPaths({g}) = 0 BY <2>1, <3>2, NoPaths
    <3> QED BY <3>1, <3>3
  <2>5. CASE fun.index[g] # Constant
    <3>1. Direct({g}, Constant) = 0 BY <2>3, <2>5
    <3> QED BY <2>2, <3>1
  <2> QED BY <2>4, <2>5
<1>5. ASSUME NEW n \in 1..N, n - 1 \in Good PROVE n \in Good
  <2>1. ASSUME NEW G \in SUBSET geps, Cardinality(G) = n PROVE Count(G) <= n
    <3>1. G # {} BY <2>1, <1>2, FS_EmptySet
    <3>2. PICK g \in G : TRUE BY <3>1
    <3> DEFINE rest == G \ {g}
    <3>3. Cardinality(rest) = n - 1 BY <1>1, <2>1, <3>2, FS_RemoveElement
    <3>4. G = rest \cup {g} /\ g \notin rest /\ rest \in SUBSET geps BY <3>2
    <3> HIDE DEF rest
    <3>5. Count(rest) <= n - 1
      <4> HIDE DEF Count
      <4> QED BY <1>5, <3>3, <3>4
    <3>6. g \in geps /\ g \in Value /\ rest \in SUBSET Value BY <1>1, <3>2, <3>4
    <3>7. AllPaths(G) = AllPaths(rest) + AllPaths({g}) BY <3>4, <3>6, AllPathsPlus
    <3>8. Direct(G, Constant) = Direct(rest, Constant) + Direct({g}, Constant)
      BY <3>4, <3>6, DirectPlus
    <3>9. /\ AllPaths(rest) \in Nat /\ AllPaths({g}) \in Nat
          /\ Direct(rest, Constant) \in Nat /\ Direct({g}, Constant) \in Nat
      <4>1. {g} \in SUBSET Value BY <3>6
      <4> QED BY <3>6, <4>1, AllPathsType, DirectType
    <3>10. Count(G) = Count(rest) + Count({g}) BY <3>7, <3>8, <3>9
    <3>11. Count(rest) \in Nat BY <3>9
    <3> HIDE DEF Count
    <3>12. Count({g}) <= 1 /\ Count({g}) \in Nat BY <1>4, <3>6
    <3> QED BY <1>2, <3>5, <3>10, <3>11, <3>12
  <2> HIDE DEF Count
  <2> QED BY <1>2, <2>1
<1>6. \A n \in 0..N : n \in Good
  <2>1. Good \in SUBSET (0..N) OBVIOUS
  <2> HIDE DEF Good, N
  <2> QED BY <1>2, <1>3, <1>5, <2>1, SegmentInduction
<1>7. N \in Good BY <1>2, <1>6
<1> HIDE DEF Count
<1>8. Count(geps) <= N BY <1>7
<1> QED BY <1>8 DEF Count

-----------------------------------------------------------------------------
(* The count.                                                                *)
Counting ==
  /\ phase = "collect" => cma.mem_coalesced = 0 /\ pos = 1 /\ id_worklist = <<>>
  /\ phase # "collect" => cma.mem_access = Cardinality(gep_set)
  /\ phase = "aborted" => cma.mem_coalesced > cma.mem_access
  /\ PathsCounted

LEMMA CountingInit == Init => Counting
BY DEF Init, Counting, PathsCounted

LEMMA CountingStep == TypeOK /\ Counting /\ [Next]_vars => Counting'
<1> SUFFICES ASSUME TypeOK, Counting, [Next]_vars PROVE Counting' OBVIOUS
<1> DEFINE P == Paths(gep_set)  C == PathsFromIds(gep_set)
<1>1. /\ IsFunction(fun) /\ fun' = fun
      /\ fun.argument \in SUBSET Value /\ gep_set \in SUBSET Value
  <2>1. IsFunction(fun) BY DEF TypeOK
  <2>2. fun' = fun
    BY DEF Next, CollectGeps, Visit, Crash, FollowUse, Finish, vars
  <2>3. fun.argument \in SUBSET Value BY <2>1 DEF IsFunction
  <2>4. gep_set \subseteq fun.argument BY DEF TypeOK
  <2> QED BY <2>1, <2>2, <2>3, <2>4
<1>2. Instr \in Seq(Value) /\ Len(Instr) \in Nat BY CoalescedAssumption
<1>3. WeighsOn(P, Value, gep_set) /\ P \in [Value -> Nat]
  BY <1>1, PathsWeigh DEF WeighsOn
<1>4. /\ C = Sums(FromId(gep_set), Instr) /\ FromId(gep_set) \in [Value -> Nat]
      /\ C \in [0..Len(Instr) -> Nat] /\ C[0] = 0
      /\ \A n \in 1..Len(Instr) : C[n] = C[n - 1] + FromId(gep_set)[Instr[n]]
  BY <1>1, <1>2, FromIdType, SumsRecursion
<1>5. \A w : Total(w, <<>>) = Sums(w, <<>>)[0] BY DEF Total
<1>6. Total(P, <<>>) = 0
  <2>1. <<>> \in Seq(Value) OBVIOUS
  <2> HIDE DEF P
  <2> QED BY <1>3, <1>5, <2>1, SumsRecursion
<1>7. /\ cma \in [mem_access : Nat, mem_coalesced : Nat] /\ pos \in 1..(Len(Instr) + 1)
      /\ id_worklist \in Seq(Value)
  BY DEF TypeOK
<1>8. phase = "scan" => cma.mem_coalesced + Total(P, id_worklist) = C[pos - 1]
  BY DEF Counting, PathsCounted
<1>9. ASSUME gep_set' = gep_set
       PROVE  /\ Total(Paths(gep_set), id_worklist)' = Total(P, id_worklist')
              /\ PathsFromIds(gep_set)' = C
  BY <1>1, <1>9 DEF Paths, PathsFromIds, Followed, IsIdCall
<1> HIDE DEF P, C
<1>10. CASE CollectGeps
  <2>1. /\ phase = "collect" /\ phase' = "scan" /\ gep_set' = fun.argument
        /\ UNCHANGED <<pos, id_worklist>>
        /\ cma' = [cma EXCEPT !.mem_access = Cardinality(fun.argument)]
    BY <1>10 DEF CollectGeps
  <2>2. /\ cma'.mem_access = Cardinality(gep_set') /\ cma'.mem_coalesced = 0
        /\ pos' = 1 /\ id_worklist' = <<>>
    BY <1>7, <2>1 DEF Counting
  <2> DEFINE G == fun.argument
  <2>3. /\ Total(Paths(gep_set), id_worklist)' = Total(Paths(G), <<>>)
        /\ PathsFromIds(gep_set)' = PathsFromIds(G)
    BY <1>1, <2>1, <2>2 DEF Paths, PathsFromIds, Followed, IsIdCall
  <2>4. Total(Paths(G), <<>>) = 0
    <3>1. <<>> \in Seq(Value) OBVIOUS
    <3>2. Paths(G) \in [Value -> Nat] BY <1>1, PathsWeigh DEF WeighsOn
    <3> QED BY <1>5, <3>1, <3>2, SumsRecursion
  <2>5. PathsFromIds(G)[0] = 0 BY <1>1, <1>2, FromIdType, SumsRecursion
  <2>6. cma'.mem_coalesced + Total(Paths(gep_set), id_worklist)'
          = PathsFromIds(gep_set)'[pos' - 1]
    BY <2>2, <2>3, <2>4, <2>5
  <2> QED BY <2>1, <2>2, <2>6 DEF Counting, PathsCounted
<1>11. CASE Visit
  <2> DEFINE v == Instr[pos]
  <2>1. /\ phase = "scan" /\ phase' = "scan" /\ id_worklist = <<>> /\ pos <= Len(Instr)
        /\ pos' = pos + 1 /\ gep_set' = gep_set /\ cma' = cma
        /\ id_worklist' = IF IsIdCall(v) THEN fun.users[v] ELSE id_worklist
    BY <1>11 DEF Visit
  <2>2. pos \in 1..Len(Instr) /\ v \in Value /\ pos' - 1 = pos BY <1>2, <1>7, <2>1
  <2>3. C[pos] = C[pos - 1] + FromId(gep_set)[v] BY <1>4, <2>2
  <2>4. FromId(gep_set)[v] = Total(P, id_worklist')
    BY <1>6, <2>1, <2>2 DEF FromId, P
  <2>5. cma.mem_coalesced = C[pos - 1]
    <3>1. cma.mem_coalesced + 0 = C[pos - 1] BY <1>6, <1>8, <2>1
    <3> QED BY <1>7, <3>1
  <2>6. cma'.mem_coalesced + Total(P, id_worklist') = C[pos' - 1]
    BY <2>1, <2>2, <2>3, <2>4, <2>5
  <2>7. cma'.mem_coalesced + Total(Paths(gep_set), id_worklist)'
          = PathsFromIds(gep_set)'[pos' - 1]
    BY <1>9, <2>1, <2>6
  <2> QED BY <2>1, <2>7 DEF Counting, PathsCounted
<1>12. CASE Crash
  BY <1>12 DEF Crash, Counting, PathsCounted
<1>13. CASE FollowUse
  <2> DEFINE v == id_worklist[Len(id_worklist)]
             rest == SubSeq(id_worklist, 1, Len(id_worklist) - 1)
  <2>1. /\ phase = "scan" /\ phase' = "scan" /\ id_worklist # <<>>
        /\ gep_set' = gep_set /\ pos' = pos
        /\ IF Followed(v) THEN id_worklist' = rest \o fun.users[v] /\ cma' = cma
           ELSE /\ id_worklist' = rest
                /\ cma' = [cma EXCEPT !.mem_coalesced = @ + Cardinality(IndexedBy(v))]
    BY <1>13 DEF FollowUse
  <2>2. v \in Value BY <1>7, <2>1
  <2>3. rest \in Seq(Value) /\ Total(P, id_worklist) = Total(P, rest) + P[v]
    BY <1>3, <1>7, <2>1, TotalPop
  <2>4. P[v] = IF Followed(v) THEN Total(P, fun.users[v]) ELSE Direct(gep_set, v)
    BY <1>3, <2>2 DEF WeighsOn
  <2>5. Direct(gep_set, v) = Cardinality(IndexedBy(v)) BY DEF Direct, IndexedBy
  <2>6. Direct(gep_set, v) \in Nat BY <1>1, DirectType
  <2> HIDE DEF v, rest
  <2>7. Total(P, rest) \in Nat BY <1>3, <2>3, TotalType
  <2>8. cma'.mem_coalesced + Total(P, id_worklist') = cma.mem_coalesced + Total(P, id_worklist)
    <3>1. CASE Followed(v)
      <4>1. fun.users[v] \in Seq(Value) BY <1>1, <2>2, UsersType
      <4>2. Total(P, id_worklist') = Total(P, rest) + Total(P, fun.users[v])
        BY <1>3, <2>1, <2>3, <3>1, <4>1, TotalPush
      <4> QED BY <2>1, <2>3, <2>4, <3>1, <4>2
    <3>2. CASE ~Followed(v)
      <4>1. cma'.mem_coalesced = cma.mem_coalesced + Direct(gep_set, v)
        BY <1>7, <2>1, <2>5, <3>2
      <4>2. cma.mem_coalesced \in Nat BY <1>7
      <4>3. Total(P, id_worklist') = Total(P, rest) BY <2>1, <3>2
      <4>4. Total(P, id_worklist) = Total(P, rest) + Direct(gep_set, v)
        BY <2>3, <2>4, <3>2
      <4> QED BY <2>6, <2>7, <4>1, <4>2, <4>3, <4>4
    <3> QED BY <3>1, <3>2
  <2>9. cma'.mem_coalesced + Total(Paths(gep_set), id_worklist)'
          = PathsFromIds(gep_set)'[pos' - 1]
    BY <1>8, <1>9, <2>1, <2>8
  <2>10. cma'.mem_access = cma.mem_access BY <1>7, <2>1
  <2> QED BY <2>1, <2>9, <2>10 DEF Counting, PathsCounted
<1>14. CASE Finish
  <2>1. /\ phase = "scan" /\ id_worklist = <<>> /\ pos > Len(Instr) /\ gep_set' = gep_set
        /\ cma' = [cma EXCEPT !.mem_coalesced = @ + Cardinality(IndexedBy(Constant))]
        /\ phase' = IF cma'.mem_coalesced <= cma'.mem_access THEN "returned" ELSE "aborted"
    BY <1>14 DEF Finish
  <2>2. pos - 1 = Len(Instr) BY <1>2, <1>7, <2>1
  <2>3. cma.mem_coalesced = C[Len(Instr)]
    <3>1. cma.mem_coalesced + 0 = C[Len(Instr)] BY <1>6, <1>8, <2>1, <2>2
    <3> QED BY <1>7, <3>1
  <2>4. /\ cma'.mem_coalesced = C[Len(Instr)] + Cardinality(IndexedBy(Constant))
        /\ cma'.mem_access = cma.mem_access
    BY <1>7, <2>1, <2>3
  <2>5. AllPaths(gep_set)' = C[Len(Instr)]
    BY <1>1, <2>1 DEF AllPaths, C, PathsFromIds, Paths, Followed, IsIdCall
  <2>6. IndexedBy(Constant)' = IndexedBy(Constant) BY <1>1, <2>1 DEF IndexedBy
  <2>7. cma'.mem_coalesced \in Nat /\ cma'.mem_access \in Nat
    <3>1. Cardinality(IndexedBy(Constant)) \in Nat BY IndexedByFinite
    <3> QED BY <1>7, <2>1, <3>1
  <2>8. phase' = "aborted" => cma'.mem_coalesced > cma'.mem_access BY <2>1, <2>7
  <2> QED BY <2>1, <2>4, <2>5, <2>6, <2>8 DEF Counting, PathsCounted
<1>15. CASE UNCHANGED vars
  <2>1. UNCHANGED <<phase, gep_set, pos, id_worklist, cma>> BY <1>15 DEF vars
  <2>2. /\ Total(Paths(gep_set), id_worklist)' = Total(Paths(gep_set), id_worklist)
        /\ PathsFromIds(gep_set)' = PathsFromIds(gep_set)
        /\ AllPaths(gep_set)' = AllPaths(gep_set)
        /\ IndexedBy(Constant)' = IndexedBy(Constant)
    BY <1>1, <2>1 DEF AllPaths, PathsFromIds, Paths, Followed, IsIdCall, IndexedBy
  <2> QED BY <2>1, <2>2 DEF Counting, PathsCounted
<1> QED BY <1>10, <1>11, <1>12, <1>13, <1>14, <1>15 DEF Next

LEMMA CountingInvariance == Spec => [](TypeOK /\ Counting)
<1>1. TypeOK /\ Counting /\ [Next]_vars => Counting' BY CountingStep
<1> QED BY <1>1, CountingInit, TypeCorrect, PTL DEF Spec

(* The heuristic counts a gep once for every path from a work-item id        *)
(* through shls to its index, however the uses are spread over the stack.    *)
THEOREM CountsPaths == Spec => []CountIsPathCount
<1>1. Counting => CountIsPathCount BY DEF Counting, CountIsPathCount
<1> QED BY <1>1, CountingInvariance, PTL

(* When the assertion fails, two paths lead to the index of one gep.         *)
THEOREM AbortsForTwoPaths == Spec => []AbortNeedsTwoPaths
<1>1. ASSUME TypeOK, Counting PROVE AbortNeedsTwoPaths
  <2> SUFFICES ASSUME phase = "aborted",
                      \A g \in gep_set : fun.index[g] = Constant \/ ~(AllPaths({g}) > 1)
               PROVE  FALSE
    BY DEF AbortNeedsTwoPaths
  <2>1. IsFunction(fun) /\ gep_set \subseteq fun.argument BY <1>1 DEF TypeOK
  <2>2. gep_set \in SUBSET Value BY <2>1 DEF IsFunction
  <2>3. ASSUME NEW g \in gep_set PROVE AllPaths({g}) <= 1
    <3>1. {g} \in SUBSET Value BY <2>2
    <3>2. AllPaths({g}) \in Nat BY <2>1, <3>1, AllPathsType
    <3>3. CASE fun.index[g] = Constant
      <4>1. \A v \in Value : Direct({g}, v) = 0
        BY <3>3, DirectSingle, CoalescedAssumption
      <4> QED BY <2>1, <3>1, <4>1, NoPaths
    <3> QED BY <3>2, <3>3
  <2>4. AllPaths(gep_set) + Direct(gep_set, Constant) <= Cardinality(gep_set)
    BY <2>1, <2>2, <2>3, OnePathEach
  <2>5. /\ cma.mem_coalesced = AllPaths(gep_set) + Cardinality(IndexedBy(Constant))
        /\ cma.mem_access = Cardinality(gep_set)
        /\ cma.mem_coalesced > cma.mem_access
    BY <1>1 DEF Counting, PathsCounted
  <2>6. Direct(gep_set, Constant) = Cardinality(IndexedBy(Constant)) BY DEF Direct, IndexedBy
  <2>7. cma.mem_coalesced \in Nat /\ cma.mem_access \in Nat BY <1>1 DEF TypeOK
  <2> QED BY <2>4, <2>5, <2>6, <2>7
<1> QED BY <1>1, CountingInvariance, PTL
=============================================================================
