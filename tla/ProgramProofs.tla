---------------------------- MODULE ProgramProofs ----------------------------
(***************************************************************************)
(* The two programs: the interface pass keeps the headers of the latest    *)
(* modules, named as their paths say, for any modules and any number of    *)
(* runs; feature_ext serves every analysis a feature set and exits with a  *)
(* status that tells what it has done.  They share no state.               *)
(***************************************************************************)
EXTENDS InterfacePass, FeatureTool, FiniteSetTheorems, SequenceTheorems,
        WellFoundedInduction, TLAPS

-----------------------------------------------------------------------------
(* Paths.                                                                    *)
LEMMA LeastNatural ==
  ASSUME NEW S \in SUBSET Nat, S # {}
  PROVE  \E n \in S : \A m \in S : n <= m
<1> DEFINE Below == {p \in Nat \X Nat : p[1] < p[2]}
<1>1. IsWellFoundedOn(Below, Nat) BY NatLessThanWellFounded DEF OpToRel
<1>2. PICK n \in S : \A m \in S : <<m, n>> \notin Below
  <2> HIDE DEF Below
  <2> QED BY <1>1, WFMin
<1>3. ASSUME NEW m \in S PROVE n <= m
  <2>1. m \in Nat /\ n \in Nat /\ ~(m < n) BY <1>2
  <2> QED BY <2>1
<1> QED BY <1>3

(* rfind answers with the last position of a character, and with 0 when      *)
(* there is none.                                                            *)
LEMMA RFindMeaning ==
  ASSUME NEW S, NEW s \in Seq(S), NEW c
  PROVE  /\ RFind(s, c) \in 0..Len(s)
         /\ RFind(s, c) # 0 => s[RFind(s, c)] = c
         /\ \A i \in 1..Len(s) : i > RFind(s, c) => s[i] # c
<1> DEFINE I == {i \in 1..Len(s) : s[i] = c}
           J == {Len(s) - i : i \in I}
           Rightmost(x) == x \in I /\ \A y \in I : x >= y
<1>1. RFind(s, c) = IF I # {} THEN CHOOSE x : Rightmost(x) ELSE 0
  BY DEF RFind, SelectLastInSeq, Max
<1>2. Len(s) \in Nat OBVIOUS
<1>3. CASE I = {} BY <1>1, <1>2, <1>3
<1>4. CASE I # {}
  <2>1. J \in SUBSET Nat /\ J # {} BY <1>2, <1>4
  <2>2. PICK j \in J : \A m \in J : j <= m
    <3> HIDE DEF J
    <3> QED BY <2>1, LeastNatural
  <2>3. PICK x \in I : j = Len(s) - x BY <2>2
  <2>4. ASSUME NEW y \in I PROVE x >= y
    <3>1. Len(s) - y \in J OBVIOUS
    <3>2. Len(s) - x <= Len(s) - y BY <2>2, <2>3, <3>1
    <3> QED BY <1>2, <2>3, <3>2
  <2>5. Rightmost(x) BY <2>4
  <2>6. Rightmost(RFind(s, c))
    <3> HIDE DEF Rightmost
    <3> QED BY <1>1, <1>4, <2>5
  <2> DEFINE r == RFind(s, c)
  <2>7. Rightmost(r) BY <2>6
  <2> HIDE DEF r
  <2>8. r \in 1..Len(s) /\ s[r] = c BY <2>7
  <2>9. ASSUME NEW i \in 1..Len(s), i > r PROVE s[i] # c
    <3>1. i \in I => r >= i BY <2>7
    <3> QED BY <1>2, <2>8, <2>9, <3>1
  <2> QED BY <1>2, <2>8, <2>9 DEF r
<1> QED BY <1>3, <1>4

LEMMA RFindUnique ==
  ASSUME NEW S, NEW s \in Seq(S), NEW c, NEW r \in 0..Len(s), r # 0 => s[r] = c,
         \A i \in 1..Len(s) : i > r => s[i] # c
  PROVE  RFind(s, c) = r
<1> DEFINE f == RFind(s, c)
<1>1. /\ f \in 0..Len(s) /\ (f # 0 => s[f] = c)
      /\ \A i \in 1..Len(s) : i > f => s[i] # c
  BY RFindMeaning
<1> HIDE DEF f
<1>2. Len(s) \in Nat OBVIOUS
<1>3. ~(f > r)
  <2>1. f > r => f \in 1..Len(s) /\ f # 0 BY <1>1, <1>2
  <2> QED BY <1>1, <2>1
<1>4. ~(r > f)
  <2>1. r > f => r \in 1..Len(s) /\ r # 0 BY <1>1, <1>2
  <2> QED BY <1>1, <2>1
<1>5. f = r BY <1>1, <1>2, <1>3, <1>4
<1> QED BY <1>5 DEF f

LEMMA Cut ==
  ASSUME NEW S, NEW s \in Seq(S), NEW m \in Nat, NEW n \in Nat, m <= n, n <= Len(s)
  PROVE  /\ SubSeq(s, m + 1, n) \in Seq(S)
         /\ Len(SubSeq(s, m + 1, n)) = n - m
         /\ \A i \in 1..(n - m) : SubSeq(s, m + 1, n)[i] = s[m + i]
<1> DEFINE t == SubSeq(s, m + 1, n)
<1>1. m + 1 \in Int /\ n \in Int /\ \A i \in (m + 1)..n : s[i] \in S
  <2>1. Len(s) \in Nat OBVIOUS
  <2>2. \A i \in (m + 1)..n : i \in 1..Len(s) BY <2>1
  <2> QED BY <2>2
<1>2. /\ t \in Seq(S)
      /\ Len(t) = IF m + 1 <= n THEN n - (m + 1) + 1 ELSE 0
      /\ \A i \in 1..(n - (m + 1) + 1) : t[i] = s[(m + 1) + i - 1]
  BY <1>1, SubSeqProperties
<1> HIDE DEF t
<1>3. Len(t) = n - m BY <1>2
<1>4. ASSUME NEW i \in 1..(n - m) PROVE t[i] = s[m + i]
  <2>1. i \in 1..(n - (m + 1) + 1) /\ (m + 1) + i - 1 = m + i OBVIOUS
  <2> QED BY <1>2, <2>1
<1> QED BY <1>2, <1>3, <1>4 DEF t

LEMMA SameSequence ==
  ASSUME NEW S, NEW s \in Seq(S), NEW t \in Seq(S),
         \A i \in 1..Len(s) : i \in 1..Len(t) => s[i] = t[i]
  PROVE  s = t <=> Len(s) = Len(t)
<1>1. Len(s) \in Nat /\ Len(t) \in Nat OBVIOUS
<1>2. ASSUME Len(s) = Len(t) PROVE s = t
  <2>1. \A i \in 1..Len(s) : s[i] = t[i] BY <1>1, <1>2
  <2> QED BY <1>1, <1>2, <2>1, SeqEqual
<1> QED BY <1>2

LEMMA AtMostOne ==
  ASSUME NEW D, IsFiniteSet(D)
  PROVE  Cardinality(D) <= 1 <=> \A x, y \in D : x = y
<1>1. Cardinality(D) \in Nat BY FS_CardinalityType
<1>2. ASSUME Cardinality(D) <= 1 PROVE \A x, y \in D : x = y
  <2>1. Cardinality(D) = 0 \/ Cardinality(D) = 1 BY <1>1, <1>2
  <2> QED BY <2>1, FS_EmptySet, FS_Singleton
<1>3. ASSUME \A x, y \in D : x = y PROVE Cardinality(D) <= 1
  <2>1. CASE D = {} BY <2>1, FS_EmptySet
  <2>2. CASE D # {}
    <3>1. PICK x \in D : TRUE BY <2>2
    <3>2. D = {x} BY <1>3, <3>1
    <3> QED BY <3>2, FS_Singleton
  <2> QED BY <2>1, <2>2
<1> QED BY <1>2, <1>3

LEMMA RFindFinds ==
  ASSUME NEW S, NEW s \in Seq(S), NEW c
  PROVE  c \in ToSet(s) <=> RFind(s, c) # 0
<1>1. /\ RFind(s, c) \in 0..Len(s) /\ (RFind(s, c) # 0 => s[RFind(s, c)] = c)
      /\ \A i \in 1..Len(s) : i > RFind(s, c) => s[i] # c
  BY RFindMeaning
<1>2. Len(s) \in Nat /\ DOMAIN s = 1..Len(s) OBVIOUS
<1>3. ASSUME c \in ToSet(s) PROVE RFind(s, c) # 0
  <2>1. PICK i \in 1..Len(s) : s[i] = c BY <1>2, <1>3 DEF ToSet
  <2> QED BY <1>1, <1>2, <2>1
<1>4. ASSUME RFind(s, c) # 0 PROVE c \in ToSet(s)
  BY <1>1, <1>2, <1>4 DEF ToSet
<1> QED BY <1>3, <1>4

(* What one call of extractFileName cuts out of a path.                      *)
LEMMA OneCut ==
  ASSUME NEW p \in Seq(STRING)
  PROVE  LET s == RFind(p, "/")
             d == RFind(p, ".")
             k == IF d = 0 \/ d - 1 > Len(p) - s THEN Len(p) - s ELSE d - 1
         IN  /\ k \in Nat
             /\ ExtractFileName(p) \in Seq(STRING)
             /\ Len(ExtractFileName(p)) = k
             /\ \A i \in 1..k : ExtractFileName(p)[i] = p[s + i]
<1> DEFINE s == RFind(p, "/")
           d == RFind(p, ".")
           k == IF d = 0 \/ d - 1 > Len(p) - s THEN Len(p) - s ELSE d - 1
<1>1. s \in 0..Len(p) /\ d \in 0..Len(p) BY RFindMeaning
<1>2. ExtractFileName(p) = SubSeq(p, s + 1, s + k)
  <2> DEFINE len == IF d = 0 THEN Len(p) ELSE d - 1
             m == IF s + len < Len(p) THEN s + len ELSE Len(p)
  <2>1. ExtractFileName(p) = SubSeq(p, s + 1, m) BY DEF ExtractFileName
  <2> HIDE DEF s, d
  <2>2. Len(p) \in Nat OBVIOUS
  <2>3. m = s + k BY <1>1, <2>2
  <2> QED BY <2>1, <2>3
<1> HIDE DEF s, d
<1>3. Len(p) \in Nat OBVIOUS
<1>4. k \in Nat /\ s \in Nat /\ s + k \in Nat /\ s <= s + k /\ s + k <= Len(p) /\ (s + k) - s = k
  BY <1>1, <1>3
<1> HIDE DEF k
<1>5. /\ SubSeq(p, s + 1, s + k) \in Seq(STRING)
      /\ Len(SubSeq(p, s + 1, s + k)) = (s + k) - s
      /\ \A i \in 1..((s + k) - s) : SubSeq(p, s + 1, s + k)[i] = p[s + i]
  BY <1>4, Cut
<1>6. /\ k \in Nat
      /\ ExtractFileName(p) \in Seq(STRING)
      /\ Len(ExtractFileName(p)) = k
      /\ \A i \in 1..k : ExtractFileName(p)[i] = p[s + i]
  BY <1>2, <1>4, <1>5
<1> QED BY <1>6 DEF s, d, k

(* The second call: the directory is gone, so substr's length is right.      *)
LEMMA SecondCut ==
  ASSUME NEW q \in Seq(STRING), RFind(q, "/") = 0
  PROVE  LET n == IF RFind(q, ".") = 0 THEN Len(q) ELSE RFind(q, ".") - 1
         IN  /\ n \in 0..Len(q)
             /\ ExtractFileName(q) \in Seq(STRING)
             /\ Len(ExtractFileName(q)) = n
             /\ \A i \in 1..n : ExtractFileName(q)[i] = q[i]
<1> DEFINE d == RFind(q, ".")
           n == IF d = 0 THEN Len(q) ELSE d - 1
<1>1. d \in 0..Len(q) BY RFindMeaning
<1>2. Len(q) \in Nat OBVIOUS
<1>3. LET k == IF d = 0 \/ d - 1 > Len(q) - 0 THEN Len(q) - 0 ELSE d - 1
      IN  /\ k \in Nat
          /\ ExtractFileName(q) \in Seq(STRING)
          /\ Len(ExtractFileName(q)) = k
          /\ \A i \in 1..k : ExtractFileName(q)[i] = q[0 + i]
  BY OneCut
<1> HIDE DEF d
<1>4. (IF d = 0 \/ d - 1 > Len(q) - 0 THEN Len(q) - 0 ELSE d - 1) = n /\ n \in 0..Len(q)
  BY <1>1, <1>2
<1>5. /\ ExtractFileName(q) \in Seq(STRING)
      /\ Len(ExtractFileName(q)) = n
      /\ \A i \in 1..n : ExtractFileName(q)[i] = q[0 + i]
  BY <1>3, <1>4
<1> HIDE DEF n
<1>6. \A i \in 1..n : 0 + i = i BY <1>2, <1>4
<1> QED BY <1>4, <1>5, <1>6 DEF d, n

LEMMA StemOfPath ==
  ASSUME NEW p \in Seq(STRING)
  PROVE  LET s == RFind(p, "/")
             d == RFind(p, ".")
             n == IF d > s THEN d - s - 1 ELSE Len(p) - s
         IN  /\ Stem(p) \in Seq(STRING)
             /\ Len(Stem(p)) = n
             /\ \A i \in 1..n : Stem(p)[i] = p[s + i]
             /\ Len(BaseName(p)) = Len(p) - s
             /\ "." \in ToSet(BaseName(p)) <=> d > s
<1> DEFINE s == RFind(p, "/")
           d == RFind(p, ".")
           b == BaseName(p)
           r == IF d > s THEN d - s ELSE 0
           n == IF d > s THEN d - s - 1 ELSE Len(p) - s
<1>1. /\ s \in 0..Len(p) /\ d \in 0..Len(p)
      /\ d # 0 => p[d] = "."
      /\ \A i \in 1..Len(p) : i > d => p[i] # "."
  BY RFindMeaning
<1>2. Len(p) \in Nat OBVIOUS
<1>3. b = SubSeq(p, s + 1, Len(p)) BY DEF BaseName
<1>4. Stem(p) = IF "." \in ToSet(b) THEN SubSeq(b, 1, RFind(b, ".") - 1) ELSE b
  BY DEF Stem
<1> HIDE DEF s, d, b
<1>5. /\ b \in Seq(STRING) /\ Len(b) = Len(p) - s
      /\ \A i \in 1..(Len(p) - s) : b[i] = p[s + i]
  BY <1>1, <1>2, <1>3, Cut
<1>6. RFind(b, ".") = r
  <2>1. r \in 0..Len(b) BY <1>1, <1>2, <1>5
  <2>2. r # 0 => b[r] = "."
    <3>1. r # 0 => r \in 1..(Len(p) - s) /\ s + r = d /\ d # 0 BY <1>1, <1>2
    <3> QED BY <1>1, <1>5, <3>1
  <2>3. ASSUME NEW i \in 1..Len(b), i > r PROVE b[i] # "."
    <3>1. i \in 1..(Len(p) - s) /\ s + i \in 1..Len(p) /\ s + i > d
      BY <1>1, <1>2, <1>5, <2>3
    <3> QED BY <1>1, <1>5, <3>1
  <2> HIDE DEF r
  <2> QED BY <1>5, <2>1, <2>2, <2>3, RFindUnique
<1>7. "." \in ToSet(b) <=> r # 0 BY <1>5, <1>6, RFindFinds
<1>8. r # 0 <=> d > s BY <1>1, <1>2
<1>9. /\ Stem(p) \in Seq(STRING) /\ Len(Stem(p)) = n
      /\ \A i \in 1..n : Stem(p)[i] = p[s + i]
  <2>1. CASE d > s
    <3>1. n \in Nat /\ n <= Len(b) /\ r - 1 = n /\ 0 <= n BY <1>1, <1>2, <1>5, <2>1
    <3>2. Stem(p) = SubSeq(b, 0 + 1, n) BY <1>4, <1>6, <1>7, <1>8, <2>1, <3>1
    <3> HIDE DEF n
    <3>3. /\ SubSeq(b, 0 + 1, n) \in Seq(STRING)
          /\ Len(SubSeq(b, 0 + 1, n)) = n - 0
          /\ \A i \in 1..(n - 0) : SubSeq(b, 0 + 1, n)[i] = b[0 + i]
      BY <1>5, <3>1, Cut
    <3>4. n - 0 = n /\ \A i \in 1..n : 0 + i = i /\ i \in 1..(Len(p) - s)
      BY <1>1, <1>2, <1>5, <3>1
    <3> QED BY <1>5, <3>2, <3>3, <3>4
  <2>2. CASE ~(d > s)
    BY <1>4, <1>5, <1>7, <1>8, <2>2
  <2> QED BY <2>1, <2>2
<1> QED BY <1>5, <1>7, <1>8, <1>9 DEF s, d, b

(* NamedAfterModule's equivalence, for every path: two calls of              *)
(* extractFileName return the stem of exactly the regular paths.             *)
LEMMA HeaderNames ==
  ASSUME NEW p \in Seq(STRING)
  PROVE  /\ ExtractFileName(ExtractFileName(p)) \in Seq(STRING)
         /\ ExtractFileName(ExtractFileName(p)) = Stem(p) <=> Regular(p)
<1> DEFINE s == RFind(p, "/")
           d == RFind(p, ".")
           k == IF d = 0 \/ d - 1 > Len(p) - s THEN Len(p) - s ELSE d - 1
           q == ExtractFileName(p)
           dq == RFind(q, ".")
           e == ExtractFileName(q)
           n == IF dq = 0 THEN k ELSE dq - 1
           t == IF d > s THEN d - s - 1 ELSE Len(p) - s
<1>1. /\ s \in 0..Len(p) /\ d \in 0..Len(p)
      /\ (s # 0 => p[s] = "/") /\ (d # 0 => p[d] = ".")
      /\ \A i \in 1..Len(p) : (i > s => p[i] # "/") /\ (i > d => p[i] # ".")
  BY RFindMeaning
<1>2. Len(p) \in Nat OBVIOUS
<1>3. k \in Nat /\ q \in Seq(STRING) /\ Len(q) = k /\ \A i \in 1..k : q[i] = p[s + i]
  BY OneCut
<1>4. /\ Stem(p) \in Seq(STRING) /\ Len(Stem(p)) = t
      /\ \A i \in 1..t : Stem(p)[i] = p[s + i]
      /\ Len(BaseName(p)) = Len(p) - s
      /\ "." \in ToSet(BaseName(p)) <=> d > s
  BY StemOfPath
<1>5. /\ "/" \in ToSet(p) <=> s # 0
      /\ "." \in ToSet(p) <=> d # 0
  BY RFindFinds
<1>6. Regular(p) <=> IF s # 0 THEN d > s \/ d = 0 \/ Len(p) - s < d
                     ELSE Cardinality({i \in DOMAIN p : p[i] = "."}) <= 1
  BY <1>4, <1>5 DEF Regular
<1> HIDE DEF s, d, q
<1>7. k <= Len(p) - s /\ (d = 0 => k = Len(p) - s) /\ (d # 0 => k <= d - 1)
  BY <1>1, <1>2
<1> HIDE DEF k
<1>8. RFind(q, "/") = 0
  <2>1. ASSUME NEW i \in 1..Len(q), i > 0 PROVE q[i] # "/"
    <3>1. i \in 1..k /\ s + i \in 1..Len(p) /\ s + i > s BY <1>1, <1>2, <1>3, <1>7
    <3> QED BY <1>1, <1>3, <3>1
  <2>2. 0 \in 0..Len(q) BY <1>3
  <2> QED BY <1>3, <2>1, <2>2, RFindUnique
<1>9. n \in 0..k /\ e \in Seq(STRING) /\ Len(e) = n /\ \A i \in 1..n : e[i] = q[i]
  BY <1>3, <1>8, SecondCut
<1>10. /\ dq \in 0..k /\ (dq # 0 => q[dq] = ".")
       /\ \A i \in 1..k : i > dq => q[i] # "."
  BY <1>3, RFindMeaning
<1> HIDE DEF dq, e
<1>11. e = Stem(p) <=> n = t
  <2>1. ASSUME NEW i \in 1..Len(e), i \in 1..Len(Stem(p)) PROVE e[i] = Stem(p)[i]
    <3>1. i \in 1..n /\ i \in 1..t BY <1>4, <1>9, <2>1
    <3>2. i \in 1..k BY <1>9, <1>3, <3>1
    <3>3. e[i] = q[i] /\ q[i] = p[s + i] /\ Stem(p)[i] = p[s + i]
      BY <1>3, <1>4, <1>9, <3>1, <3>2
    <3> QED BY <3>3
  <2>2. e = Stem(p) <=> Len(e) = Len(Stem(p))
    BY <1>4, <1>9, <2>1, SameSequence
  <2> QED BY <1>4, <1>9, <2>2
<1>12. ASSUME d = 0 PROVE n = t /\ Regular(p)
  <2>1. dq = 0
    <3>1. dq # 0 => s + dq \in 1..Len(p) /\ s + dq > d BY <1>1, <1>2, <1>3, <1>7, <1>10, <1>12
    <3>2. dq # 0 => dq \in 1..k BY <1>3, <1>10
    <3> QED BY <1>1, <1>3, <1>10, <3>1, <3>2
  <2>2. n = t BY <1>1, <1>2, <1>7, <1>12, <2>1
  <2>3. {i \in DOMAIN p : p[i] = "."} = {}
    <3>1. \A i \in 1..Len(p) : i > d BY <1>12
    <3> QED BY <1>1, <3>1
  <2>4. Cardinality({i \in DOMAIN p : p[i] = "."}) = 0 BY <2>3, FS_EmptySet
  <2>5. Regular(p) BY <1>6, <1>12, <2>4
  <2> QED BY <2>2, <2>5
<1>13. ASSUME d # 0, s = 0 PROVE n = t <=> Regular(p)
  <2> DEFINE D == {i \in DOMAIN p : p[i] = "."}
  <2>1. k = d - 1 /\ t = d - 1 BY <1>1, <1>2, <1>13 DEF k
  <2>2. n = t <=> dq = 0 BY <1>3, <1>10, <2>1
  <2>3. d \in D BY <1>1, <1>2, <1>13
  <2>4. IsFiniteSet(D)
    <3>1. IsFiniteSet(1..Len(p)) BY <1>2, FS_Interval
    <3> QED BY <3>1, FS_Subset
  <2>5. ASSUME dq = 0 PROVE \A x, y \in D : x = y
    <3>1. ASSUME NEW x \in D PROVE x = d
      <4>1. x \in 1..Len(p) /\ p[x] = "." BY <3>1
      <4>2. ~(x > d) BY <1>1, <4>1
      <4>3. x < d => x \in 1..k /\ s + x = x /\ x > dq
        BY <1>1, <1>2, <1>13, <2>1, <2>5, <4>1
      <4>4. ~(x < d) BY <1>3, <1>10, <4>1, <4>3
      <4> QED BY <1>1, <1>2, <4>1, <4>2, <4>4
    <3> QED BY <3>1
  <2>6. ASSUME dq # 0 PROVE \E x, y \in D : x # y
    <3>1. dq \in 1..k /\ dq \in 1..Len(p) /\ s + dq = dq /\ dq # d
      BY <1>1, <1>2, <1>3, <1>7, <1>10, <1>13, <2>1, <2>6
    <3>2. dq \in D BY <1>3, <1>10, <2>6, <3>1
    <3> QED BY <2>3, <3>1, <3>2
  <2>7. Cardinality(D) <= 1 <=> \A x, y \in D : x = y BY <2>4, AtMostOne
  <2> QED BY <1>6, <1>13, <2>2, <2>5, <2>6, <2>7
<1>14. ASSUME s # 0, d > s PROVE n = t /\ Regular(p)
  <2>1. d - s \in 1..(Len(p) - s) /\ s + (d - s) = d BY <1>1, <1>2, <1>14
  <2>2. d - s <= k BY <1>1, <1>2, <1>14 DEF k
  <2>3. d - s \in 1..k BY <1>3, <2>1, <2>2
  <2>4. q[d - s] = "." BY <1>1, <1>3, <1>14, <2>1, <2>3
  <2>5. ~(d - s > dq) BY <1>10, <2>3, <2>4
  <2>6. ~(dq > d - s)
    <3>1. dq > d - s => s + dq \in 1..Len(p) /\ s + dq > d /\ dq \in 1..k /\ dq # 0
      BY <1>1, <1>2, <1>3, <1>7, <1>10, <1>14
    <3> QED BY <1>1, <1>3, <1>10, <3>1
  <2>7. dq = d - s BY <1>1, <1>2, <1>3, <1>10, <2>5, <2>6
  <2>8. n = t BY <1>1, <1>2, <1>14, <2>7
  <2> QED BY <1>6, <1>14, <2>8
<1>15. ASSUME s # 0, d # 0, ~(d > s) PROVE n = t <=> Regular(p)
  <2>1. dq = 0
    <3>1. dq # 0 => s + dq \in 1..Len(p) /\ s + dq > d /\ dq \in 1..k
      BY <1>1, <1>2, <1>3, <1>7, <1>10, <1>15
    <3> QED BY <1>1, <1>3, <1>10, <3>1
  <2>2. n = k /\ t = Len(p) - s BY <1>15, <2>1
  <2>3. k = Len(p) - s <=> Len(p) - s <= d - 1 BY <1>1, <1>2, <1>15 DEF k
  <2> QED BY <1>1, <1>2, <1>6, <1>15, <2>2, <2>3
<1>16. e = Stem(p) <=> Regular(p)
  BY <1>1, <1>11, <1>12, <1>13, <1>14, <1>15
<1> QED BY <1>9, <1>16 DEF e, q
-----------------------------------------------------------------------------
(* Recursion over an initial segment of the naturals, on which the list of   *)
(* a module's kernels is defined.                                            *)
Recurs(f, D, N, base, next) ==
  /\ f \in [0..N -> D]
  /\ f[0] = base
  /\ \A n \in 1..N : f[n] = next[<<n, f[n - 1]>>]

LEMMA Recursion ==
  ASSUME NEW D, NEW N \in Nat, NEW base \in D, NEW next \in [(1..N) \X D -> D]
  PROVE  \E f : Recurs(f, D, N, base, next)
<1> DEFINE Runs(f, n) == f[0] = base /\ \A i \in 1..n : f[i] = next[<<i, f[i - 1]>>]
           Bad == {n \in 0..N : ~\E f \in [0..n -> D] : Runs(f, n)}
<1>1. SUFFICES ASSUME Bad # {} PROVE FALSE
  <2>1. N \in 0..N OBVIOUS
  <2> QED BY <1>1, <2>1 DEF Recurs
<1>2. PICK n \in Bad : \A m \in Bad : n <= m
  <2>1. Bad \in SUBSET Nat OBVIOUS
  <2> HIDE DEF Bad
  <2> QED BY <1>1, <2>1, LeastNatural
<1>3. n \in 0..N /\ ~\E f \in [0..n -> D] : Runs(f, n) OBVIOUS
<1>4. n # 0
  <2>1. Runs([i \in 0..0 |-> base], 0) OBVIOUS
  <2> QED BY <1>3, <2>1
<1>5. n - 1 \in 0..N /\ n - 1 \notin Bad BY <1>2, <1>3, <1>4
<1>6. PICK f \in [0..(n - 1) -> D] : Runs(f, n - 1) BY <1>5
<1> DEFINE g == [i \in 0..n |-> IF i = n THEN next[<<n, f[n - 1]>>] ELSE f[i]]
<1>7. f[n - 1] \in D /\ n \in 1..N BY <1>3, <1>4
<1>8. g \in [0..n -> D] BY <1>7
<1>9. Runs(g, n)
  <2>1. g[0] = base BY <1>3, <1>4, <1>6
  <2>2. ASSUME NEW i \in 1..n PROVE g[i] = next[<<i, g[i - 1]>>]
    <3>1. i - 1 \in 0..n /\ i \in 0..n /\ i - 1 # n BY <1>3
    <3>2. g[i - 1] = f[i - 1] BY <3>1
    <3>3. CASE i = n BY <3>1, <3>2, <3>3
    <3>4. CASE i # n
      <4>1. i \in 1..(n - 1) BY <1>3, <3>4
      <4>2. f[i] = next[<<i, f[i - 1]>>] BY <1>6, <4>1
      <4>3. g[i] = f[i] BY <3>1, <3>4
      <4> QED BY <3>2, <4>2, <4>3
    <3> QED BY <3>3, <3>4
  <2> QED BY <2>1, <2>2
<1> QED BY <1>3, <1>8, <1>9

(* The kernels of the first n functions are those of the first n - 1, and    *)
(* that of function n when it is mangled and dispatches one.                 *)
LEMMA KernelsRecursion ==
  ASSUME NEW functions \in Seq(Symbol)
  PROVE  /\ Kernels(functions)[0] = <<>>
         /\ \A n \in 1..Len(functions) :
              Kernels(functions)[n] =
                IF functions[n].scheme = "none" \/ functions[n].kernel = None
                THEN Kernels(functions)[n - 1]
                ELSE Append(Kernels(functions)[n - 1], functions[n].kernel)
<1> DEFINE N == Len(functions)
           D == Seq(Kernel)
           Skips(n) == functions[n].scheme = "none" \/ functions[n].kernel = None
           next == [p \in (1..N) \X D |->
                     IF Skips(p[1]) THEN p[2] ELSE Append(p[2], functions[p[1]].kernel)]
           IsKernels(f) == f = [n \in 0..N |->
             IF n = 0 THEN <<>>
             ELSE IF functions[n].scheme = "none" \/ functions[n].kernel = None
             THEN f[n - 1] ELSE Append(f[n - 1], functions[n].kernel)]
<1>1. N \in Nat /\ \A n \in 1..N : functions[n] \in Symbol OBVIOUS
<1>2. next \in [(1..N) \X D -> D]
  <2> SUFFICES ASSUME NEW n \in 1..N, NEW d \in D
      PROVE (IF Skips(n) THEN d ELSE Append(d, functions[n].kernel)) \in D
    OBVIOUS
  <2>1. ~Skips(n) => functions[n].kernel \in Kernel BY <1>1 DEF Symbol
  <2> HIDE DEF Skips
  <2> QED BY <2>1
<1>3. \E f : Recurs(f, D, N, <<>>, next)
  <2>1. <<>> \in D OBVIOUS
  <2> HIDE DEF next, N, D
  <2> QED BY <1>1, <1>2, <2>1, Recursion, Zenon
<1>4. PICK f : Recurs(f, D, N, <<>>, next) BY <1>3
<1>5. \A n \in 1..N : f[n] = IF functions[n].scheme = "none" \/ functions[n].kernel = None
                             THEN f[n - 1] ELSE Append(f[n - 1], functions[n].kernel)
  <2> SUFFICES ASSUME NEW n \in 1..N
      PROVE f[n] = IF Skips(n) THEN f[n - 1] ELSE Append(f[n - 1], functions[n].kernel)
    OBVIOUS
  <2>1. f[n - 1] \in D BY <1>1, <1>4 DEF Recurs
  <2>2. f[n] = next[<<n, f[n - 1]>>] BY <1>4 DEF Recurs
  <2> HIDE DEF D, Skips
  <2> QED BY <2>1, <2>2
<1>6. IsKernels(f)
  <2>1. f \in [0..N -> D] /\ f[0] = <<>> BY <1>4 DEF Recurs
  <2> HIDE DEF D, N
  <2>2. \A n \in 0..N : n = 0 \/ n \in 1..N BY <1>1
  <2>3. \A n \in 0..N : f[n] =
          IF n = 0 THEN <<>>
          ELSE IF functions[n].scheme = "none" \/ functions[n].kernel = None
          THEN f[n - 1] ELSE Append(f[n - 1], functions[n].kernel)
    BY <1>5, <2>1, <2>2, Zenon
  <2> QED BY <2>1, <2>3, Zenon
<1>7. Kernels(functions) = CHOOSE g : IsKernels(g) BY DEF Kernels
<1> DEFINE K == Kernels(functions)
<1>8. IsKernels(K)
  <2> HIDE DEF IsKernels
  <2> QED BY <1>6, <1>7
<1> HIDE DEF K
<1>9. 0 \in 0..N /\ K[0] = <<>> BY <1>1, <1>8
<1>10. ASSUME NEW n \in 1..N
       PROVE K[n] = IF functions[n].scheme = "none" \/ functions[n].kernel = None
                    THEN K[n - 1] ELSE Append(K[n - 1], functions[n].kernel)
  <2>1. n \in 0..N /\ n # 0 BY <1>1
  <2> QED BY <1>8, <2>1
<1> QED BY <1>9, <1>10 DEF K

(* The pass finds in a function of a module the kernel Kernels counts.       *)
LEMMA KernelOfFunction ==
  ASSUME NEW m \in Module, NEW n \in 1..Len(m.functions)
  PROVE  LET f == m.functions[n]
         IN  /\ KernelOf(f) = IF f.scheme = "none" THEN None ELSE f.kernel
             /\ KernelOf(f) \in Kernel \cup {None}
<1> DEFINE f == m.functions[n]
<1>1. f \in Symbol BY InterfaceAssumption
<1>2. /\ f.scheme = "itanium" => f.underscores \in 1..4 /\ f.z
      /\ f.scheme = "microsoft" => f.underscores = 0
  <2>1. n \in DOMAIN m.functions BY InterfaceAssumption
  <2> QED BY <2>1, InterfaceAssumption
<1> HIDE DEF f
<1>3. f.scheme \in {"itanium", "microsoft", "none"} /\ f.kernel \in Kernel \cup {None}
  BY <1>1 DEF Symbol
<1>4. isItaniumEncoding(f) <=> f.underscores \in 1..4 /\ f.z BY DEF isItaniumEncoding
<1>5. f.scheme = "itanium" => isItaniumEncoding(f) BY <1>2, <1>4
<1>6. f.scheme = "microsoft" => ~isItaniumEncoding(f) BY <1>2, <1>4
<1>7. KernelOf(f) = IF f.scheme = "none" THEN None ELSE f.kernel
  BY <1>3, <1>5, <1>6 DEF KernelOf
<1> QED BY <1>3, <1>7 DEF f

-----------------------------------------------------------------------------
(* Headers and calls.                                                        *)
Opens(h, name) == h.opened /\ HeaderName(h.module) = name
LatestIn(calls, name) == SelectLastInSeq(calls, LAMBDA h : h.opened /\ HeaderName(h.module) = name)
Call == [module : Module, opened : BOOLEAN]

LEMMA LatestMeaning ==
  ASSUME NEW calls \in Seq(Call), NEW name
  PROVE  /\ LatestIn(calls, name) \in 0..Len(calls)
         /\ LatestIn(calls, name) # 0 => Opens(calls[LatestIn(calls, name)], name)
         /\ \A i \in 1..Len(calls) : i > LatestIn(calls, name) => ~Opens(calls[i], name)
<1> DEFINE I == {i \in 1..Len(calls) : Opens(calls[i], name)}
           J == {Len(calls) - i : i \in I}
           Rightmost(x) == x \in I /\ \A y \in I : x >= y
<1>1. LatestIn(calls, name) = IF I # {} THEN CHOOSE x : Rightmost(x) ELSE 0
  BY DEF LatestIn, Opens, SelectLastInSeq, Max
<1>2. Len(calls) \in Nat OBVIOUS
<1>3. CASE I = {} BY <1>1, <1>2, <1>3
<1>4. CASE I # {}
  <2>1. J \in SUBSET Nat /\ J # {} BY <1>2, <1>4
  <2>2. PICK j \in J : \A m \in J : j <= m
    <3> HIDE DEF J
    <3> QED BY <2>1, LeastNatural
  <2>3. PICK x \in I : j = Len(calls) - x BY <2>2
  <2>4. ASSUME NEW y \in I PROVE x >= y
    <3>1. Len(calls) - y \in J OBVIOUS
    <3>2. Len(calls) - x <= Len(calls) - y BY <2>2, <2>3, <3>1
    <3> QED BY <1>2, <2>3, <3>2
  <2>5. Rightmost(x) BY <2>4
  <2>6. Rightmost(LatestIn(calls, name))
    <3> HIDE DEF Rightmost
    <3> QED BY <1>1, <1>4, <2>5
  <2> DEFINE r == LatestIn(calls, name)
  <2>7. Rightmost(r) BY <2>6
  <2> HIDE DEF r
  <2>8. r \in 1..Len(calls) /\ Opens(calls[r], name) BY <2>7
  <2>9. ASSUME NEW i \in 1..Len(calls), i > r PROVE ~Opens(calls[i], name)
    <3>1. i \in I => r >= i BY <2>7
    <3> QED BY <1>2, <2>8, <2>9, <3>1
  <2> QED BY <1>2, <2>8, <2>9 DEF r
<1> QED BY <1>3, <1>4

(* A call becomes the latest of the header it opens, and of no other.        *)
LEMMA LatestAfter ==
  ASSUME NEW calls \in Seq(Call), NEW call \in Call, NEW name
  PROVE  LatestIn(Append(calls, call), name) =
           IF Opens(call, name) THEN Len(calls) + 1 ELSE LatestIn(calls, name)
<1> DEFINE longer == Append(calls, call)
           r == LatestIn(longer, name)
           l == LatestIn(calls, name)
<1>1. /\ longer \in Seq(Call) /\ Len(longer) = Len(calls) + 1 /\ Len(calls) \in Nat
      /\ longer[Len(calls) + 1] = call
      /\ \A i \in 1..Len(calls) : longer[i] = calls[i]
  OBVIOUS
<1> HIDE DEF longer
<1>2. /\ r \in 0..Len(longer) /\ (r # 0 => Opens(longer[r], name))
      /\ \A i \in 1..Len(longer) : i > r => ~Opens(longer[i], name)
  BY <1>1, LatestMeaning
<1>3. /\ l \in 0..Len(calls) /\ (l # 0 => Opens(calls[l], name))
      /\ \A i \in 1..Len(calls) : i > l => ~Opens(calls[i], name)
  BY LatestMeaning
<1> HIDE DEF r, l
<1>4. CASE Opens(call, name)
  <2>1. ~(Len(calls) + 1 > r) BY <1>1, <1>2, <1>4
  <2> QED BY <1>1, <1>2, <1>4, <2>1 DEF r, longer
<1>5. CASE ~Opens(call, name)
  <2>1. r \in 0..Len(calls) BY <1>1, <1>2, <1>5
  <2>2. ~(r > l)
    <3>1. r > l => r \in 1..Len(calls) /\ r # 0 BY <1>1, <1>3, <2>1
    <3> QED BY <1>1, <1>2, <1>3, <3>1
  <2>3. ~(l > r)
    <3>1. l > r => l \in 1..Len(calls) /\ l \in 1..Len(longer) /\ l # 0 BY <1>1, <1>3, <2>1
    <3> QED BY <1>1, <1>2, <1>3, <3>1
  <2>4. r = l BY <1>1, <1>3, <2>1, <2>2, <2>3
  <2> QED BY <1>5, <2>4 DEF r, l, longer
<1> QED BY <1>4, <1>5
-----------------------------------------------------------------------------
(* TypeOK is inductive.                                                      *)
LEMMA HeaderNameType ==
  ASSUME NEW m \in Module
  PROVE  HeaderName(m) \in Seq(STRING) /\ m.functions \in Seq(Symbol)
BY InterfaceAssumption, HeaderNames DEF HeaderName

RunRecord == [pass : PassObject, module : Module, name : Seq(STRING),
              opened : BOOLEAN, next : Nat \ {0}]

LEMMA TypeInit == Init => TypeOK
<1> SUFFICES ASSUME Init PROVE TypeOK OBVIOUS
<1>1. history = <<>> /\ run = None /\ phase = "idle" /\ files = [name \in {} |-> <<>>]
  BY DEF Init
<1>2. stream = [o \in PassObject |-> "cout"] BY DEF Init
<1>3. \A name \in DOMAIN files : files[name] \in Seq(Kernel) BY <1>1
<1>4. history \in Seq([module : Module, opened : BOOLEAN]) /\ Len(history) = 0 BY <1>1
<1> QED BY <1>1, <1>2, <1>3, <1>4, InterfaceAssumption DEF TypeOK

LEMMA WriteType ==
  ASSUME \A n \in DOMAIN files : files[n] \in Seq(Kernel),
         NEW name, NEW header \in Seq(Kernel), Write(name, header)
  PROVE  /\ DOMAIN files' = DOMAIN files \cup {name}
         /\ \A n \in DOMAIN files' : files'[n] \in Seq(Kernel)
         /\ files'[name] = header
         /\ \A n \in DOMAIN files : n # name => files'[n] = files[n]
<1>1. files' = [n \in DOMAIN files \cup {name} |-> IF n = name THEN header ELSE files[n]]
  BY DEF Write
<1> HIDE DEF Write
<1> QED BY <1>1, Zenon

LEMMA TypeStep == TypeOK /\ [Next]_vars => TypeOK'
<1> SUFFICES ASSUME TypeOK, [Next]_vars PROVE TypeOK' OBVIOUS
<1> USE DEF TypeOK
<1>1. ASSUME NEW o \in PassObject, AddPass(o) PROVE TypeOK'
  BY <1>1 DEF AddPass
<1>2. ASSUME NEW o \in PassObject, NEW m \in Module, RunOnModule(o, m) PROVE TypeOK'
  <2>1. CASE phase' = "crashed"
    BY <1>2, <2>1 DEF RunOnModule
  <2>2. CASE phase' # "crashed"
    <3>1. PICK opened \in BOOLEAN :
            /\ phase = "idle" /\ phase' = "functions" /\ Len(history) < MaxRuns
            /\ stream' = [stream EXCEPT ![o] = "file"]
            /\ run' = [pass |-> o, module |-> m, name |-> HeaderName(m),
                       opened |-> opened, next |-> 1]
            /\ history' = Append(history, [module |-> m, opened |-> opened])
            /\ IF opened THEN Write(HeaderName(m), Open(HeaderName(m)))
               ELSE UNCHANGED files
      BY <1>2, <2>2 DEF RunOnModule
    <3>2. HeaderName(m) \in Seq(STRING) /\ Len(m.functions) \in Nat BY HeaderNameType
    <3>3. /\ run'.module = m /\ run'.name = HeaderName(m) /\ run'.next = 1
          /\ run'.opened = opened /\ run'.pass = o
          /\ run' \in RunRecord
      BY <3>1, <3>2 DEF RunRecord
    <3>4. (\A n \in DOMAIN files' : files'[n] \in Seq(Kernel))
          /\ (opened => HeaderName(m) \in DOMAIN files')
      <4>1. CASE opened
        <5>1. Open(HeaderName(m)) \in Seq(Kernel) BY DEF Open
        <5>2. Write(HeaderName(m), Open(HeaderName(m))) BY <3>1, <4>1
        <5>3. \A n \in DOMAIN files : files[n] \in Seq(Kernel) OBVIOUS
        <5> HIDE DEF TypeOK
        <5>4. /\ DOMAIN files' = DOMAIN files \cup {HeaderName(m)}
              /\ \A n \in DOMAIN files' : files'[n] \in Seq(Kernel)
          BY <5>1, <5>2, <5>3, WriteType
        <5> QED BY <5>4
      <4>2. CASE ~opened BY <3>1, <4>2
      <4> QED BY <4>1, <4>2
    <3>5. history' \in Seq([module : Module, opened : BOOLEAN]) /\ Len(history') <= MaxRuns
      <4>1. [module |-> m, opened |-> opened] \in [module : Module, opened : BOOLEAN] OBVIOUS
      <4>2. Len(history') = Len(history) + 1 BY <3>1
      <4> QED BY <3>1, <4>1, <4>2, InterfaceAssumption
    <3>6. \A x \in PassObject : stream'[x] = "file" <=> phase' = "functions" /\ run'.pass = x
      BY <3>1, <3>3
    <3>7. stream' \in [PassObject -> {"cout", "file", "dangling"}] BY <3>1
    <3> QED BY <3>1, <3>2, <3>3, <3>4, <3>5, <3>6, <3>7 DEF RunRecord
  <2> QED BY <2>1, <2>2
<1>3. ASSUME RunOnFunction PROVE TypeOK'
  <2> DEFINE kernel == KernelOf(run.module.functions[run.next])
  <2>1. /\ phase = "functions" /\ run \in RunRecord /\ run.next <= Len(run.module.functions)
        /\ run' = [run EXCEPT !.next = @ + 1]
        /\ UNCHANGED <<stream, phase, history>>
        /\ IF kernel # None /\ run.opened
           THEN Write(run.name, Append(files[run.name], kernel))
           ELSE UNCHANGED files
    BY <1>3 DEF RunOnFunction, RunRecord
  <2>2. run.module \in Module /\ run.next \in Nat \ {0} BY <2>1 DEF RunRecord
  <2>3. Len(run.module.functions) \in Nat BY <2>2, HeaderNameType
  <2>4. kernel \in Kernel \cup {None}
    <3>1. run.next \in 1..Len(run.module.functions) BY <2>1, <2>2, <2>3
    <3> QED BY <2>2, <3>1, KernelOfFunction
  <2>5. (\A n \in DOMAIN files' : files'[n] \in Seq(Kernel)) /\ DOMAIN files \subseteq DOMAIN files'
    <3> HIDE DEF kernel
    <3>1. CASE kernel # None /\ run.opened
      <4>1. kernel \in Kernel /\ files[run.name] \in Seq(Kernel) BY <2>1, <2>4, <3>1
      <4>2. Append(files[run.name], kernel) \in Seq(Kernel) BY <4>1
      <4>3. Write(run.name, Append(files[run.name], kernel)) BY <2>1, <3>1
      <4>4. \A n \in DOMAIN files : files[n] \in Seq(Kernel) OBVIOUS
      <4> HIDE DEF TypeOK
      <4>5. /\ DOMAIN files' = DOMAIN files \cup {run.name}
            /\ \A n \in DOMAIN files' : files'[n] \in Seq(Kernel)
        BY <4>2, <4>3, <4>4, WriteType
      <4> QED BY <4>5
    <3>2. CASE ~(kernel # None /\ run.opened) BY <2>1, <3>2
    <3> QED BY <3>1, <3>2
  <2>6. /\ run' \in RunRecord /\ run'.module = run.module /\ run'.name = run.name
        /\ run'.opened = run.opened /\ run'.pass = run.pass /\ run'.next = run.next + 1
    BY <2>1 DEF RunRecord
  <2>7. run'.next <= Len(run.module.functions) + 1 BY <2>1, <2>2, <2>3, <2>6
  <2> QED BY <2>1, <2>5, <2>6, <2>7 DEF RunRecord
<1>4. ASSUME Close PROVE TypeOK'
  BY <1>4 DEF Close
<1>5. ASSUME UNCHANGED vars PROVE TypeOK'
  BY <1>5 DEF vars
<1> QED BY <1>1, <1>2, <1>3, <1>4, <1>5 DEF Next
(* The pass only writes headers, and the streams it leaves behind are        *)
(* neither the one it writes to nor opened again.                            *)
THEOREM TypeCorrect == Spec => []TypeOK
<1>1. Init => TypeOK BY TypeInit
<1>2. TypeOK /\ [Next]_vars => TypeOK' BY TypeStep
<1> QED BY <1>1, <1>2, PTL DEF Spec

-----------------------------------------------------------------------------
(* The call in progress writes the header named after its module, and when   *)
(* it has opened it, it is the latest call that has.                         *)
CallInv ==
  phase = "functions" =>
    /\ run.name = HeaderName(run.module)
    /\ run.opened => /\ Latest(run.name) = Len(history) /\ Len(history) # 0
                     /\ history[Len(history)].module = run.module

HeadersInv == TypeOK /\ CallInv /\ HeadersAreLatest

LEMMA LatestIsLatestIn ==
  ASSUME NEW name
  PROVE  Latest(name) = LatestIn(history, name) /\ Latest(name)' = LatestIn(history', name)
BY DEF Latest, LatestIn, SelectLastInSeq, Max

LEMMA HeadersInit == Init => HeadersInv
<1> SUFFICES ASSUME Init PROVE HeadersInv OBVIOUS
<1>1. TypeOK BY TypeInit
<1>2. phase = "idle" /\ DOMAIN files = {} BY DEF Init
<1> QED BY <1>1, <1>2 DEF HeadersInv, CallInv, HeadersAreLatest

(* A step that leaves the headers and the calls as they are, and a header    *)
(* that is written and not finished what it is.                              *)
LEMMA HeadersKept ==
  ASSUME HeadersAreLatest, UNCHANGED <<files, history>>,
         \A name \in DOMAIN files :
           /\ Writing(name)' => Writing(name) /\ run'.next = run.next
           /\ Writing(name) /\ ~Writing(name)' =>
                run.next - 1 = Len(history[Latest(name)].module.functions)
  PROVE  HeadersAreLatest'
<1> SUFFICES ASSUME NEW name \in DOMAIN files
    PROVE  /\ Latest(name)' # 0
           /\ files[name] = Kernels(history[Latest(name)].module.functions)[
                IF Writing(name)' THEN run'.next - 1
                                  ELSE Len(history[Latest(name)].module.functions)]
           /\ Latest(name)' = Latest(name)
  BY DEF HeadersAreLatest
<1>1. Latest(name)' = Latest(name) BY LatestIsLatestIn
<1>2. /\ Latest(name) # 0
      /\ files[name] = Kernels(history[Latest(name)].module.functions)[
           IF Writing(name) THEN run.next - 1
                            ELSE Len(history[Latest(name)].module.functions)]
  BY DEF HeadersAreLatest
<1> QED BY <1>1, <1>2

LEMMA HeadersStep == HeadersInv /\ [Next]_vars => HeadersInv'
<1> SUFFICES ASSUME HeadersInv, [Next]_vars PROVE HeadersInv' OBVIOUS
<1>1. TypeOK /\ TypeOK' /\ CallInv /\ HeadersAreLatest BY TypeStep DEF HeadersInv
<1>2. ASSUME NEW o \in PassObject, AddPass(o) PROVE CallInv' /\ HeadersAreLatest'
  <2>1. UNCHANGED <<phase, run, files, history>> /\ phase = "idle" BY <1>2 DEF AddPass
  <2>2. CallInv' BY <2>1 DEF CallInv
  <2>3. HeadersAreLatest' BY <1>1, <2>1, HeadersKept DEF Writing
  <2> QED BY <2>2, <2>3
<1>3. ASSUME NEW o \in PassObject, NEW m \in Module, RunOnModule(o, m)
      PROVE  CallInv' /\ HeadersAreLatest'
  <2>1. CASE phase' = "crashed"
    <3>1. phase = "idle" /\ UNCHANGED <<run, files, history>> BY <1>3, <2>1 DEF RunOnModule
    <3>2. CallInv' BY <2>1 DEF CallInv
    <3>3. HeadersAreLatest' BY <1>1, <2>1, <3>1, HeadersKept DEF Writing
    <3> QED BY <3>2, <3>3
  <2>2. CASE phase' # "crashed"
    <3>1. PICK opened \in BOOLEAN :
            /\ phase = "idle" /\ phase' = "functions"
            /\ run' = [pass |-> o, module |-> m, name |-> HeaderName(m),
                       opened |-> opened, next |-> 1]
            /\ history' = Append(history, [module |-> m, opened |-> opened])
            /\ IF opened THEN Write(HeaderName(m), Open(HeaderName(m)))
               ELSE UNCHANGED files
      BY <1>3, <2>2 DEF RunOnModule
    <3> DEFINE call == [module |-> m, opened |-> opened]
    <3>2. call \in Call /\ history \in Seq(Call) /\ call.module = m /\ call.opened = opened
      BY <1>1 DEF Call, TypeOK
    <3>3. /\ Len(history) \in Nat /\ Len(history') = Len(history) + 1
          /\ history'[Len(history) + 1] = call
          /\ \A i \in 1..Len(history) : history'[i] = history[i]
      BY <3>1, <3>2
    <3>4. \A name : Latest(name)' = IF opened /\ HeaderName(m) = name
                                   THEN Len(history) + 1 ELSE Latest(name)
      <4> SUFFICES ASSUME NEW name
          PROVE Latest(name)' = IF opened /\ HeaderName(m) = name
                                THEN Len(history) + 1 ELSE Latest(name)
        OBVIOUS
      <4>1. LatestIn(Append(history, call), name) =
              IF Opens(call, name) THEN Len(history) + 1 ELSE LatestIn(history, name)
        BY <3>2, LatestAfter
      <4>2. Opens(call, name) <=> opened /\ HeaderName(m) = name BY <3>2 DEF Opens
      <4>3. Latest(name) = LatestIn(history, name) /\ Latest(name)' = LatestIn(history', name)
        BY LatestIsLatestIn
      <4> QED BY <3>1, <4>1, <4>2, <4>3
    <3>5. /\ run'.name = HeaderName(m) /\ run'.module = m /\ run'.opened = opened
          /\ run'.next = 1
      BY <3>1
    <3>6. CallInv' BY <3>1, <3>2, <3>3, <3>4, <3>5 DEF CallInv
    <3>7. \A name : Writing(name)' <=> opened /\ HeaderName(m) = name
      BY <3>1, <3>5 DEF Writing
    <3>8. ASSUME NEW name \in DOMAIN files'
          PROVE  /\ Latest(name)' # 0
                 /\ files'[name] = Kernels(history'[Latest(name)'].module.functions)[
                      IF Writing(name)' THEN run'.next - 1
                      ELSE Len(history'[Latest(name)'].module.functions)]
      <4>1. CASE opened /\ HeaderName(m) = name
        <5>1. files'[name] = <<>>
          <6>1. files' = [n \in DOMAIN files \cup {name} |->
                            IF n = name THEN Open(name) ELSE files[n]]
            BY <3>1, <4>1 DEF Write
          <6> QED BY <6>1 DEF Open
        <5>2. m.functions \in Seq(Symbol) BY HeaderNameType
        <5>3. Kernels(m.functions)[0] = <<>> BY <5>2, KernelsRecursion
        <5>4. Latest(name)' = Len(history) + 1 /\ Writing(name)' BY <3>4, <3>7, <4>1
        <5>5. history'[Latest(name)'].module = m /\ run'.next - 1 = 0 BY <3>2, <3>3, <3>5, <5>4
        <5> QED BY <3>3, <5>1, <5>3, <5>4, <5>5
      <4>2. CASE ~(opened /\ HeaderName(m) = name)
        <5>1. name \in DOMAIN files /\ files'[name] = files[name]
          <6>1. CASE opened
            <7>1. files' = [n \in DOMAIN files \cup {HeaderName(m)} |->
                     IF n = HeaderName(m) THEN Open(HeaderName(m)) ELSE files[n]]
              BY <3>1, <6>1 DEF Write
            <7> QED BY <3>8, <4>2, <6>1, <7>1
          <6>2. CASE ~opened BY <3>1, <3>8, <6>2
          <6> QED BY <6>1, <6>2
        <5>2. Latest(name)' = Latest(name) /\ ~Writing(name)' BY <3>4, <3>7, <4>2
        <5>3. ~Writing(name) BY <3>1 DEF Writing
        <5>4. Latest(name) # 0 /\
              files[name] = Kernels(history[Latest(name)].module.functions)[
                Len(history[Latest(name)].module.functions)]
          BY <1>1, <5>1, <5>3 DEF HeadersAreLatest
        <5>5. Latest(name) \in 0..Len(history)
          BY <3>2, LatestMeaning, LatestIsLatestIn
        <5>6. history'[Latest(name)] = history[Latest(name)]
          BY <3>3, <5>4, <5>5
        <5> QED BY <5>1, <5>2, <5>4, <5>6
      <4> QED BY <4>1, <4>2
    <3>9. HeadersAreLatest' BY <3>8 DEF HeadersAreLatest
    <3> QED BY <3>6, <3>9
  <2> QED BY <2>1, <2>2
<1>4. ASSUME RunOnFunction PROVE CallInv' /\ HeadersAreLatest'
  <2> DEFINE functions == run.module.functions
             kernel == KernelOf(functions[run.next])
  <2>1. /\ phase = "functions" /\ run \in RunRecord /\ run.next <= Len(functions)
        /\ run' = [run EXCEPT !.next = @ + 1]
        /\ UNCHANGED <<phase, history>>
        /\ IF kernel # None /\ run.opened
           THEN Write(run.name, Append(files[run.name], kernel))
           ELSE UNCHANGED files
        /\ run.opened => run.name \in DOMAIN files
    BY <1>1, <1>4 DEF RunOnFunction, RunRecord, TypeOK
  <2>2. /\ run'.module = run.module /\ run'.name = run.name /\ run'.opened = run.opened
        /\ run'.next = run.next + 1
    BY <2>1 DEF RunRecord
  <2>3. /\ run.module \in Module /\ run.next \in Nat \ {0} /\ functions \in Seq(Symbol)
        /\ Len(functions) \in Nat /\ run.next \in 1..Len(functions)
    <3>1. run.module \in Module /\ run.next \in Nat \ {0} BY <2>1 DEF RunRecord
    <3>2. functions \in Seq(Symbol) BY <3>1, HeaderNameType
    <3> QED BY <2>1, <3>1, <3>2
  <2>4. \A name : Latest(name)' = Latest(name) BY <2>1, LatestIsLatestIn
  <2>5. CallInv' BY <1>1, <2>1, <2>2, <2>4 DEF CallInv
  <2>6. \A name : Writing(name)' <=> Writing(name) BY <2>1, <2>2 DEF Writing
  <2>7. ASSUME NEW name \in DOMAIN files'
        PROVE  /\ Latest(name)' # 0
               /\ files'[name] = Kernels(history'[Latest(name)'].module.functions)[
                    IF Writing(name)' THEN run'.next - 1
                    ELSE Len(history'[Latest(name)'].module.functions)]
    <3>1. CASE Writing(name)
      <4>1. name = run.name /\ run.opened /\ name \in DOMAIN files BY <2>1, <3>1 DEF Writing
      <4>2. Latest(name) # 0 /\ history[Latest(name)].module = run.module
        BY <1>1, <2>1, <4>1 DEF CallInv
      <4>3. files[name] = Kernels(functions)[run.next - 1]
        BY <1>1, <3>1, <4>1, <4>2 DEF HeadersAreLatest
      <4>4. /\ kernel = IF functions[run.next].scheme = "none" THEN None
                        ELSE functions[run.next].kernel
            /\ kernel \in Kernel \cup {None}
        BY <2>3, KernelOfFunction
      <4>5. Kernels(functions)[run.next] =
              IF functions[run.next].scheme = "none" \/ functions[run.next].kernel = None
              THEN Kernels(functions)[run.next - 1]
              ELSE Append(Kernels(functions)[run.next - 1], functions[run.next].kernel)
        BY <2>3, KernelsRecursion
      <4>6. files'[name] = IF kernel = None THEN files[name] ELSE Append(files[name], kernel)
        <5> HIDE DEF kernel
        <5>1. CASE kernel = None BY <2>1, <5>1
        <5>2. CASE kernel # None
          <6>1. files' = [n \in DOMAIN files \cup {name} |->
                            IF n = name THEN Append(files[name], kernel) ELSE files[n]]
            BY <2>1, <4>1, <5>2 DEF Write
          <6> QED BY <5>2, <6>1
        <5> QED BY <5>1, <5>2
      <4>7. files'[name] = Kernels(functions)[run.next]
        <5> HIDE DEF kernel, functions
        <5> QED BY <4>3, <4>4, <4>5, <4>6
      <4>8. run'.next - 1 = run.next /\ Writing(name)' BY <2>2, <2>3, <2>6, <3>1
      <4>9. history'[Latest(name)'].module.functions = functions BY <2>1, <2>4, <4>2
      <4> HIDE DEF functions
      <4> QED BY <2>4, <4>2, <4>7, <4>8, <4>9
    <3>2. CASE ~Writing(name)
      <4>1. name \in DOMAIN files /\ files'[name] = files[name]
        <5> HIDE DEF kernel
        <5>1. CASE kernel # None /\ run.opened
          <6>1. run.name # name BY <2>1, <3>2, <5>1 DEF Writing
          <6>2. files' = [n \in DOMAIN files \cup {run.name} |->
                  IF n = run.name THEN Append(files[run.name], kernel) ELSE files[n]]
            BY <2>1, <5>1 DEF Write
          <6> QED BY <2>7, <6>1, <6>2
        <5>2. CASE ~(kernel # None /\ run.opened) BY <2>1, <2>7, <5>2
        <5> QED BY <5>1, <5>2
      <4>2. /\ Latest(name) # 0
            /\ files[name] = Kernels(history[Latest(name)].module.functions)[
                 Len(history[Latest(name)].module.functions)]
        BY <1>1, <3>2, <4>1 DEF HeadersAreLatest
      <4>3. ~Writing(name)' BY <2>6, <3>2
      <4> QED BY <2>1, <2>4, <4>1, <4>2, <4>3
    <3> QED BY <3>1, <3>2
  <2>8. HeadersAreLatest' BY <2>7 DEF HeadersAreLatest
  <2> QED BY <2>5, <2>8
<1>5. ASSUME Close PROVE CallInv' /\ HeadersAreLatest'
  <2>1. /\ phase = "functions" /\ phase' = "idle" /\ run \in RunRecord
        /\ run.next > Len(run.module.functions)
        /\ run.next <= Len(run.module.functions) + 1
        /\ UNCHANGED <<files, history>>
    BY <1>1, <1>5 DEF Close, TypeOK, RunRecord
  <2>2. CallInv' BY <2>1 DEF CallInv
  <2>3. run.next - 1 = Len(run.module.functions)
    <3>1. run.module \in Module /\ run.next \in Nat BY <2>1 DEF RunRecord
    <3>2. Len(run.module.functions) \in Nat BY <3>1, HeaderNameType
    <3> QED BY <2>1, <3>1, <3>2
  <2>4. \A name : Writing(name) => history[Latest(name)].module = run.module
    BY <1>1, <2>1 DEF Writing, CallInv
  <2>5. \A name : ~Writing(name)' BY <2>1 DEF Writing
  <2>6. HeadersAreLatest' BY <1>1, <2>1, <2>3, <2>4, <2>5, HeadersKept
  <2> QED BY <2>2, <2>6
<1>6. ASSUME UNCHANGED vars PROVE CallInv' /\ HeadersAreLatest'
  <2>1. UNCHANGED <<phase, run, files, history>> BY <1>6 DEF vars
  <2>2. \A name : Latest(name)' = Latest(name) BY <2>1, LatestIsLatestIn
  <2>3. CallInv' BY <1>1, <2>1, <2>2 DEF CallInv
  <2>4. HeadersAreLatest' BY <1>1, <2>1, HeadersKept DEF Writing
  <2> QED BY <2>3, <2>4
<1>7. CallInv' /\ HeadersAreLatest' BY <1>2, <1>3, <1>4, <1>5, <1>6 DEF Next
<1> QED BY <1>1, <1>7 DEF HeadersInv

(* The two calls of extractFileName name the header after the file for       *)
(* exactly the regular paths, whatever their length and characters.          *)
THEOREM NamesAreStems == Spec => []NamedAfterModule
<1>1. Init => HeadersInv BY HeadersInit
<1>2. HeadersInv /\ [Next]_vars => HeadersInv' BY HeadersStep
<1>3. HeadersInv => NamedAfterModule
  <2> SUFFICES ASSUME HeadersInv, phase = "functions"
      PROVE run.name = Stem(run.module.id) <=> Regular(run.module.id)
    BY DEF NamedAfterModule
  <2>1. run.name = HeaderName(run.module) /\ run.module \in Module
    BY DEF HeadersInv, CallInv, TypeOK
  <2>2. run.module.id \in Seq(STRING) BY <2>1, InterfaceAssumption
  <2> QED BY <2>1, <2>2, HeaderNames DEF HeaderName
<1> QED BY <1>1, <1>2, <1>3, PTL DEF Spec

(* However many modules and pass objects run, every header lists all the     *)
(* kernels of the latest module that opened it, in order, and nothing else.  *)
THEOREM HeadersLatest == Spec => []HeadersAreLatest
<1>1. Init => HeadersInv BY HeadersInit
<1>2. HeadersInv /\ [Next]_vars => HeadersInv' BY HeadersStep
<1>3. HeadersInv => HeadersAreLatest BY DEF HeadersInv
<1> QED BY <1>1, <1>2, <1>3, PTL DEF Spec

-----------------------------------------------------------------------------
(* feature_tool: what is left to do is prepared by what is left before it.   *)
Doing == {"register", "dispatch", "assert", "list", "parse", "check params", "load module", "load plugin", "run"}
Ops == [do : Doing, image : Image, key : SetName \cup {""}, analysis : AnalysisName \cup {""}]

IsOp(o) ==
  /\ o.do \in {"register", "dispatch"} => o.key \in SetName
  /\ o.do = "register" => o.analysis = ""
  /\ o.do \in {"dispatch", "assert", "list"} => o.analysis \in AnalysisName
  /\ o.do = "list" => o.image = "tool"
  /\ o.do \in {"parse", "check params", "load module", "load plugin", "run"} => o = Main(o.do)

Register(image, key) == Op("register", image, key, "")
Before(s, j) == {s[i] : i \in 1..(j - 1)}
All(s) == {s[i] : i \in 1..Len(s)}
HasSet(image, key) == IF image = "tool" THEN key \in DOMAIN toolSets ELSE key \in DOMAIN pluginSets
Holds(image, an, B) ==
  \/ <<image, an>> \in DOMAIN held
  \/ \E k \in SetName : Op("dispatch", image, k, an) \in B

Prepared(o, B) ==
  /\ o.do = "dispatch" => HasSet(o.image, o.key) \/ Register(o.image, o.key) \in B
  /\ o.do \in {"assert", "list"} => Holds(o.image, o.analysis, B)
  /\ o.do = "check params" => param # Null \/ Main("parse") \in B
  /\ o.do = "run" =>
       /\ Accepted \/ Main("parse") \in B
       /\ readable \/ Main("load module") \in B
       /\ Main("load plugin") \in B \/ \A an \in {"default", "kofler13"} : Holds("plugin", an, B)

\* s can follow B
Script(B, s) ==
  /\ s \in Seq(Ops)
  /\ \A j \in 1..Len(s) : IsOp(s[j]) /\ Prepared(s[j], B \cup Before(s, j))

Entries ==
  /\ \A k \in DOMAIN toolSets : k \in SetName /\ toolSets[k] = <<"tool", k>>
  /\ \A k \in DOMAIN pluginSets : k \in SetName /\ pluginSets[k] = <<"plugin", k>>
  /\ \A an \in DOMAIN analyses : /\ an \in AnalysisName /\ analyses[an] = <<"tool", an>>
                                 /\ <<"tool", an>> \in DOMAIN held
  /\ \A a \in DOMAIN held : /\ a \in Image \X AnalysisName
                            /\ \E k \in SetName : held[a] = <<a[1], k>>

ToolInv ==
  /\ Script({}, todo) /\ Entries
  /\ args \in Arguments
  /\ param # Null => param.feature_set \in FeatureSetOptions
  /\ process \in {"running", "exit 0", "exit 1"}
  /\ StatusIsOutcome

LEMMA NullIsNone ==
  Null \notin Object /\ \A a \in Arguments : Parsed(a) # Null
BY ToolAssumption

LEMMA Rest ==
  ASSUME NEW s \in Seq(Ops), s # <<>>
  PROVE  /\ Head(s) = s[1] /\ Head(s) \in Ops /\ 1 \in 1..Len(s) /\ Before(s, 1) = {}
         /\ Tail(s) \in Seq(Ops) /\ Len(Tail(s)) \in Nat
         /\ \A j \in 1..Len(Tail(s)) :
              /\ Tail(s)[j] = s[j + 1] /\ j + 1 \in 1..Len(s)
              /\ Before(s, j + 1) = {Head(s)} \cup Before(Tail(s), j)
<1> DEFINE t == Tail(s)
<1>1. /\ Head(s) = s[1] /\ Head(s) \in Ops /\ t \in Seq(Ops) /\ Len(t) = Len(s) - 1
      /\ Len(s) \in Nat \ {0}
      /\ \A j \in 1..Len(t) : t[j] = s[j + 1]
  BY HeadTailProperties, EmptySeq
<1> HIDE DEF t
<1>2. Before(s, 1) = {} BY DEF Before
<1>3. ASSUME NEW j \in 1..Len(t) PROVE Before(s, j + 1) = {Head(s)} \cup Before(t, j)
  <2>1. ASSUME NEW x \in Before(s, j + 1) PROVE x \in {Head(s)} \cup Before(t, j)
    <3>1. PICK i \in 1..j : x = s[i]
      <4>1. (j + 1) - 1 = j BY <1>1
      <4> QED BY <2>1, <4>1 DEF Before
    <3>2. CASE i = 1 BY <1>1, <3>1, <3>2
    <3>3. CASE i # 1
      <4>1. i - 1 \in 1..(j - 1) /\ i - 1 \in 1..Len(t) /\ (i - 1) + 1 = i BY <1>1, <3>3
      <4>2. t[i - 1] = x BY <1>1, <3>1, <4>1
      <4> QED BY <4>1, <4>2 DEF Before
    <3> QED BY <3>2, <3>3
  <2>2. Head(s) \in Before(s, j + 1)
    <3>1. 1 \in 1..((j + 1) - 1) BY <1>1
    <3> QED BY <1>1, <3>1 DEF Before
  <2>3. ASSUME NEW x \in Before(t, j) PROVE x \in Before(s, j + 1)
    <3>1. PICK i \in 1..(j - 1) : x = t[i] BY <2>3 DEF Before
    <3>2. i + 1 \in 1..((j + 1) - 1) /\ i \in 1..Len(t) BY <1>1
    <3>3. x = s[i + 1] BY <1>1, <3>1, <3>2
    <3> QED BY <3>2, <3>3 DEF Before
  <2> QED BY <2>1, <2>2, <2>3
<1> QED BY <1>1, <1>2, <1>3 DEF t

LEMMA Joined ==
  ASSUME NEW p \in Seq(Ops), NEW t \in Seq(Ops)
  PROVE  /\ p \o t \in Seq(Ops) /\ Len(p \o t) = Len(p) + Len(t)
         /\ \A j \in 1..Len(p) : (p \o t)[j] = p[j] /\ Before(p \o t, j) = Before(p, j)
         /\ \A j \in 1..Len(t) :
              /\ (p \o t)[Len(p) + j] = t[j]
              /\ Before(p \o t, Len(p) + j) = Before(p, Len(p) + 1) \cup Before(t, j)
<1> DEFINE s == p \o t
<1>1. /\ s \in Seq(Ops) /\ Len(s) = Len(p) + Len(t) /\ Len(p) \in Nat /\ Len(t) \in Nat
      /\ \A j \in 1..Len(p) : s[j] = p[j]
      /\ \A j \in 1..Len(t) : s[Len(p) + j] = t[j]
  <2>1. \A i \in 1..(Len(p) + Len(t)) : s[i] = IF i <= Len(p) THEN p[i] ELSE t[i - Len(p)]
    BY ConcatProperties
  <2>2. s \in Seq(Ops) /\ Len(s) = Len(p) + Len(t) BY ConcatProperties
  <2>3. Len(p) \in Nat /\ Len(t) \in Nat OBVIOUS
  <2>4. ASSUME NEW j \in 1..Len(t) PROVE s[Len(p) + j] = t[j]
    <3>1. /\ Len(p) + j \in 1..(Len(p) + Len(t))
          /\ ~(Len(p) + j <= Len(p))
          /\ (Len(p) + j) - Len(p) = j
      BY <2>3
    <3> HIDE DEF s
    <3> QED BY <2>1, <3>1
  <2>5. ASSUME NEW j \in 1..Len(p) PROVE s[j] = p[j]
    <3>1. j \in 1..(Len(p) + Len(t)) /\ j <= Len(p) BY <2>3
    <3> HIDE DEF s
    <3> QED BY <2>1, <3>1
  <2> QED BY <2>2, <2>3, <2>4, <2>5
<1> HIDE DEF s
<1>2. ASSUME NEW j \in 1..Len(p) PROVE Before(s, j) = Before(p, j)
  <2>1. \A i \in 1..(j - 1) : i \in 1..Len(p) BY <1>1
  <2>2. \A i \in 1..(j - 1) : s[i] = p[i] BY <1>1, <2>1
  <2> QED BY <2>2 DEF Before
<1>3. ASSUME NEW j \in 1..Len(t)
      PROVE Before(s, Len(p) + j) = Before(p, Len(p) + 1) \cup Before(t, j)
  <2> DEFINE n == Len(p)
  <2>1. ASSUME NEW x \in Before(s, n + j) PROVE x \in Before(p, n + 1) \cup Before(t, j)
    <3>1. PICK i \in 1..(n + j - 1) : x = s[i] BY <2>1 DEF Before
    <3>2. CASE i <= n
      <4>1. i \in 1..((n + 1) - 1) /\ i \in 1..n BY <1>1, <3>2
      <4> QED BY <1>1, <3>1, <4>1 DEF Before
    <3>3. CASE ~(i <= n)
      <4>1. i - n \in 1..(j - 1) /\ i - n \in 1..Len(t) /\ n + (i - n) = i BY <1>1, <3>3
      <4>2. s[i] = t[i - n] BY <1>1, <4>1
      <4> QED BY <3>1, <4>1, <4>2 DEF Before
    <3> QED BY <3>2, <3>3
  <2>2. ASSUME NEW x \in Before(p, n + 1) PROVE x \in Before(s, n + j)
    <3>1. PICK i \in 1..((n + 1) - 1) : x = p[i] BY <2>2 DEF Before
    <3>2. i \in 1..n /\ i \in 1..(n + j - 1) BY <1>1
    <3> QED BY <1>1, <3>1, <3>2 DEF Before
  <2>3. ASSUME NEW x \in Before(t, j) PROVE x \in Before(s, n + j)
    <3>1. PICK i \in 1..(j - 1) : x = t[i] BY <2>3 DEF Before
    <3>2. n + i \in 1..(n + j - 1) /\ i \in 1..Len(t) BY <1>1
    <3> QED BY <1>1, <3>1, <3>2 DEF Before
  <2> QED BY <2>1, <2>2, <2>3
<1> QED BY <1>1, <1>2, <1>3 DEF s

LEMMA PreparedMore ==
  ASSUME NEW o, NEW B, NEW C, B \subseteq C, Prepared(o, B)
  PROVE  Prepared(o, C)
BY DEF Prepared, Holds

LEMMA AllIsBefore ==
  ASSUME NEW s \in Seq(Ops)
  PROVE  All(s) = Before(s, Len(s) + 1)
<1>1. Len(s) \in Nat /\ (Len(s) + 1) - 1 = Len(s) OBVIOUS
<1> QED BY <1>1 DEF All, Before

LEMMA Composed ==
  ASSUME NEW B, NEW p, NEW t, Script(B, p), Script(B \cup All(p), t)
  PROVE  Script(B, p \o t) /\ All(p \o t) = All(p) \cup All(t)
<1> DEFINE s == p \o t
<1>1. p \in Seq(Ops) /\ t \in Seq(Ops) BY DEF Script
<1>2. /\ s \in Seq(Ops) /\ Len(s) = Len(p) + Len(t)
      /\ \A j \in 1..Len(p) : s[j] = p[j] /\ Before(s, j) = Before(p, j)
      /\ \A j \in 1..Len(t) : /\ s[Len(p) + j] = t[j]
                             /\ Before(s, Len(p) + j) = All(p) \cup Before(t, j)
  BY <1>1, Joined, AllIsBefore
<1>3. Len(p) \in Nat /\ Len(t) \in Nat BY <1>1
<1> HIDE DEF s
<1>4. \A j \in 1..Len(s) : j \in 1..Len(p) \/ \E i \in 1..Len(t) : j = Len(p) + i
  <2> SUFFICES ASSUME NEW j \in 1..Len(s), j \notin 1..Len(p)
      PROVE \E i \in 1..Len(t) : j = Len(p) + i
    OBVIOUS
  <2>1. j - Len(p) \in 1..Len(t) /\ j = Len(p) + (j - Len(p)) BY <1>2, <1>3
  <2> QED BY <2>1
<1>5. ASSUME NEW j \in 1..Len(s) PROVE IsOp(s[j]) /\ Prepared(s[j], B \cup Before(s, j))
  <2>1. CASE j \in 1..Len(p)
    BY <1>2, <2>1 DEF Script
  <2>2. CASE j \notin 1..Len(p)
    <3>1. PICK i \in 1..Len(t) : j = Len(p) + i BY <1>4, <2>2
    <3>2. IsOp(t[i]) /\ Prepared(t[i], (B \cup All(p)) \cup Before(t, i)) BY DEF Script
    <3>3. (B \cup All(p)) \cup Before(t, i) = B \cup (All(p) \cup Before(t, i)) OBVIOUS
    <3> QED BY <1>2, <3>1, <3>2, <3>3
  <2> QED BY <2>1, <2>2
<1>6. All(s) = All(p) \cup All(t)
  <2>1. \A j \in 1..Len(p) : j \in 1..Len(s) BY <1>2, <1>3
  <2>2. \A j \in 1..Len(t) : Len(p) + j \in 1..Len(s) BY <1>2, <1>3
  <2>3. ASSUME NEW x \in All(s) PROVE x \in All(p) \cup All(t)
    <3>1. PICK j \in 1..Len(s) : x = s[j] BY <2>3 DEF All
    <3>2. CASE j \in 1..Len(p) BY <1>2, <3>1, <3>2 DEF All
    <3>3. CASE j \notin 1..Len(p)
      <4>1. PICK i \in 1..Len(t) : j = Len(p) + i BY <1>4, <3>3
      <4> QED BY <1>2, <3>1, <4>1 DEF All
    <3> QED BY <3>2, <3>3
  <2>4. All(p) \subseteq All(s)
    <3>1. \A j \in 1..Len(p) : p[j] = s[j] BY <1>2
    <3> QED BY <2>1, <3>1 DEF All
  <2>5. All(t) \subseteq All(s)
    <3>1. \A j \in 1..Len(t) : t[j] = s[Len(p) + j] BY <1>2
    <3> QED BY <2>2, <3>1 DEF All
  <2> QED BY <2>3, <2>4, <2>5
<1> QED BY <1>2, <1>5, <1>6 DEF Script, s

(* The scripts of the program and of the plugin.                             *)
Registers(s, image) == \A k \in SetName : Register(image, k) \in All(s)
Serves(s, image, an) == Op("dispatch", image, "fan19", an) \in All(s)

LEMMA Extended ==
  ASSUME NEW B, NEW s, NEW o \in Ops, Script(B, s), IsOp(o), Prepared(o, B \cup All(s))
  PROVE  Script(B, Append(s, o)) /\ All(Append(s, o)) = All(s) \cup {o}
<1> DEFINE one == <<o>>
<1>1. one \in Seq(Ops) /\ Len(one) = 1 /\ one[1] = o OBVIOUS
<1>2. Append(s, o) = s \o one BY AppendIsConcat DEF Script
<1> HIDE DEF one
<1>3. \A j \in 1..1 : j = 1 OBVIOUS
<1>4. Prepared(o, (B \cup All(s)) \cup Before(one, 1)) BY PreparedMore
<1>5. Script(B \cup All(s), one) BY <1>1, <1>3, <1>4 DEF Script
<1>6. All(one) = {o} BY <1>1, <1>3 DEF All
<1>7. Script(B, s \o one) /\ All(s \o one) = All(s) \cup All(one) BY <1>5, Composed
<1> QED BY <1>2, <1>6, <1>7

LEMMA TwoOps ==
  ASSUME NEW B, NEW a \in Ops, NEW b \in Ops,
         IsOp(a), IsOp(b),
         Prepared(a, B), Prepared(b, B \cup {a})
  PROVE  Script(B, <<a, b>>) /\ All(<<a, b>>) = {a, b}
<1> DEFINE s == <<a, b>>
<1>1. s \in Seq(Ops) /\ Len(s) = 2 /\ s[1] = a /\ s[2] = b
  OBVIOUS
<1> HIDE DEF s
<1>2. \A j \in 1..2 : j = 1 \/ j = 2 OBVIOUS
<1>3. /\ {a} \subseteq Before(s, 2)
  <2>1. {a} \subseteq Before(s, 2)
    <3>1. 1 \in 1..(2 - 1) OBVIOUS
    <3> QED BY <1>1, <3>1 DEF Before
  <2> QED BY <2>1
<1>4. /\ Prepared(a, B \cup Before(s, 1))
      /\ Prepared(b, B \cup Before(s, 2))
  <2>1. Prepared(a, B \cup Before(s, 1)) BY PreparedMore
  <2>2. Prepared(b, B \cup Before(s, 2))
    <3>1. B \cup {a} \subseteq B \cup Before(s, 2) BY <1>3
    <3> QED BY <3>1, PreparedMore
  <2> QED BY <2>1, <2>2
<1>5. Script(B, s) BY <1>1, <1>2, <1>4 DEF Script
<1>6. All(s) = {a, b}
  <2>1. 1 \in 1..Len(s) /\ 2 \in 1..Len(s) BY <1>1
  <2> QED BY <1>1, <1>2, <2>1 DEF All
<1> QED BY <1>5, <1>6 DEF s

LEMMA ThreeOps ==
  ASSUME NEW B, NEW a \in Ops, NEW b \in Ops, NEW c \in Ops,
         IsOp(a), IsOp(b), IsOp(c),
         Prepared(a, B), Prepared(b, B \cup {a}), Prepared(c, B \cup {a, b})
  PROVE  Script(B, <<a, b, c>>) /\ All(<<a, b, c>>) = {a, b, c}
<1> DEFINE s == <<a, b, c>>
<1>1. s \in Seq(Ops) /\ Len(s) = 3 /\ s[1] = a /\ s[2] = b /\ s[3] = c
  OBVIOUS
<1> HIDE DEF s
<1>2. \A j \in 1..3 : j = 1 \/ j = 2 \/ j = 3 OBVIOUS
<1>3. /\ {a} \subseteq Before(s, 2)
      /\ {a, b} \subseteq Before(s, 3)
  <2>1. {a} \subseteq Before(s, 2)
    <3>1. 1 \in 1..(2 - 1) OBVIOUS
    <3> QED BY <1>1, <3>1 DEF Before
  <2>2. {a, b} \subseteq Before(s, 3)
    <3>1. 1 \in 1..(3 - 1) /\ 2 \in 1..(3 - 1) OBVIOUS
    <3> QED BY <1>1, <3>1 DEF Before
  <2> QED BY <2>1, <2>2
<1>4. /\ Prepared(a, B \cup Before(s, 1))
      /\ Prepared(b, B \cup Before(s, 2))
      /\ Prepared(c, B \cup Before(s, 3))
  <2>1. Prepared(a, B \cup Before(s, 1)) BY PreparedMore
  <2>2. Prepared(b, B \cup Before(s, 2))
    <3>1. B \cup {a} \subseteq B \cup Before(s, 2) BY <1>3
    <3> QED BY <3>1, PreparedMore
  <2>3. Prepared(c, B \cup Before(s, 3))
    <3>1. B \cup {a, b} \subseteq B \cup Before(s, 3) BY <1>3
    <3> QED BY <3>1, PreparedMore
  <2> QED BY <2>1, <2>2, <2>3
<1>5. Script(B, s) BY <1>1, <1>2, <1>4 DEF Script
<1>6. All(s) = {a, b, c}
  <2>1. 1 \in 1..Len(s) /\ 2 \in 1..Len(s) /\ 3 \in 1..Len(s) BY <1>1
  <2> QED BY <1>1, <1>2, <2>1 DEF All
<1> QED BY <1>5, <1>6 DEF s

LEMMA FourOps ==
  ASSUME NEW B, NEW a \in Ops, NEW b \in Ops, NEW c \in Ops, NEW d \in Ops,
         IsOp(a), IsOp(b), IsOp(c), IsOp(d),
         Prepared(a, B), Prepared(b, B \cup {a}), Prepared(c, B \cup {a, b}),
          Prepared(d, B \cup {a, b, c})
  PROVE  Script(B, <<a, b, c, d>>) /\ All(<<a, b, c, d>>) = {a, b, c, d}
<1> DEFINE s == <<a, b, c, d>>
<1>1. s \in Seq(Ops) /\ Len(s) = 4 /\ s[1] = a /\ s[2] = b /\ s[3] = c /\ s[4] = d
  OBVIOUS
<1> HIDE DEF s
<1>2. \A j \in 1..4 : j = 1 \/ j = 2 \/ j = 3 \/ j = 4 OBVIOUS
<1>3. /\ {a} \subseteq Before(s, 2)
      /\ {a, b} \subseteq Before(s, 3)
      /\ {a, b, c} \subseteq Before(s, 4)
  <2>1. {a} \subseteq Before(s, 2)
    <3>1. 1 \in 1..(2 - 1) OBVIOUS
    <3> QED BY <1>1, <3>1 DEF Before
  <2>2. {a, b} \subseteq Before(s, 3)
    <3>1. 1 \in 1..(3 - 1) /\ 2 \in 1..(3 - 1) OBVIOUS
    <3> QED BY <1>1, <3>1 DEF Before
  <2>3. {a, b, c} \subseteq Before(s, 4)
    <3>1. 1 \in 1..(4 - 1) /\ 2 \in 1..(4 - 1) /\ 3 \in 1..(4 - 1) OBVIOUS
    <3> QED BY <1>1, <3>1 DEF Before
  <2> QED BY <2>1, <2>2, <2>3
<1>4. /\ Prepared(a, B \cup Before(s, 1))
      /\ Prepared(b, B \cup Before(s, 2))
      /\ Prepared(c, B \cup Before(s, 3))
      /\ Prepared(d, B \cup Before(s, 4))
  <2>1. Prepared(a, B \cup Before(s, 1)) BY PreparedMore
  <2>2. Prepared(b, B \cup Before(s, 2))
    <3>1. B \cup {a} \subseteq B \cup Before(s, 2) BY <1>3
    <3> QED BY <3>1, PreparedMore
  <2>3. Prepared(c, B \cup Before(s, 3))
    <3>1. B \cup {a, b} \subseteq B \cup Before(s, 3) BY <1>3
    <3> QED BY <3>1, PreparedMore
  <2>4. Prepared(d, B \cup Before(s, 4))
    <3>1. B \cup {a, b, c} \subseteq B \cup Before(s, 4) BY <1>3
    <3> QED BY <3>1, PreparedMore
  <2> QED BY <2>1, <2>2, <2>3, <2>4
<1>5. Script(B, s) BY <1>1, <1>2, <1>4 DEF Script
<1>6. All(s) = {a, b, c, d}
  <2>1. 1 \in 1..Len(s) /\ 2 \in 1..Len(s) /\ 3 \in 1..Len(s) /\ 4 \in 1..Len(s) BY <1>1
  <2> QED BY <1>1, <1>2, <2>1 DEF All
<1> QED BY <1>5, <1>6 DEF s

LEMMA Fifth ==
  ASSUME NEW a, NEW b, NEW c, NEW d, NEW e
  PROVE  Append(<<a, b, c, d>>, e) = <<a, b, c, d, e>>
<1> DEFINE T == {a, b, c, d, e}
           s == <<a, b, c, d>>
           t == <<a, b, c, d, e>>
<1>1. s \in Seq(T) /\ Len(s) = 4 /\ s[1] = a /\ s[2] = b /\ s[3] = c /\ s[4] = d
  OBVIOUS
<1>2. t \in Seq(T) /\ Len(t) = 5 /\ t[1] = a /\ t[2] = b /\ t[3] = c /\ t[4] = d /\ t[5] = e
  OBVIOUS
<1>3. e \in T OBVIOUS
<1> HIDE DEF s, t, T
<1> DEFINE u == Append(s, e)
<1>4. u \in Seq(T) /\ Len(u) = 5 /\ u[5] = e /\ \A i \in 1..4 : u[i] = s[i]
  <2>1. /\ u \in Seq(T) /\ Len(u) = Len(s) + 1 /\ u[Len(s) + 1] = e
        /\ \A i \in 1..Len(s) : u[i] = s[i]
    <3>1. \A q \in Seq(T), x \in T :
            /\ Append(q, x) \in Seq(T) /\ Len(Append(q, x)) = Len(q) + 1
            /\ Append(q, x)[Len(q) + 1] = x /\ \A i \in 1..Len(q) : Append(q, x)[i] = q[i]
      BY AppendProperties
    <3>2. s \in Seq(T) BY <1>1
    <3> QED BY <1>3, <3>1, <3>2
  <2> HIDE DEF u
  <2> QED BY <1>1, <2>1
<1> HIDE DEF u
<1>5. \A i \in 1..5 : i = 1 \/ i = 2 \/ i = 3 \/ i = 4 \/ i = 5 OBVIOUS
<1>6. \A i \in 1..5 : u[i] = t[i] BY <1>1, <1>2, <1>4, <1>5
<1>7. u = t BY <1>2, <1>4, <1>6, SeqEqual
<1> QED BY <1>7 DEF s, t, u

LEMMA UnitScript ==
  ASSUME NEW image \in Image, NEW B
  PROVE  /\ Script(B, FeatureSetUnit(image))
         /\ Registers(FeatureSetUnit(image), image)
<1> DEFINE r(k) == Op("register", image, k, "")
<1>1. ASSUME NEW k \in SetName, NEW C PROVE r(k) \in Ops /\ IsOp(r(k)) /\ Prepared(r(k), C)
  <2>1. r(k) \in Ops /\ r(k).do = "register" /\ r(k).key = k /\ r(k).analysis = ""
    BY DEF Op, Ops, Doing
  <2> HIDE DEF r
  <2> QED BY <2>1 DEF IsOp, Prepared
<1> DEFINE a == r("fan19")
           b == r("grewe11")
           c == r("full")
<1>2. FeatureSetUnit(image) = <<a, b, c>> BY DEF FeatureSetUnit
<1>3. {"fan19", "grewe11", "full"} = SetName BY DEF SetName
<1>4. \A k \in SetName : r(k) \in {a, b, c} BY <1>3
<1>5. /\ a \in Ops /\ b \in Ops /\ c \in Ops /\ IsOp(a) /\ IsOp(b) /\ IsOp(c)
      /\ \A C : Prepared(a, C) /\ Prepared(b, C) /\ Prepared(c, C)
  BY <1>1, <1>3
<1> HIDE DEF r, a, b, c
<1>6. Script(B, <<a, b, c>>) /\ All(<<a, b, c>>) = {a, b, c} BY <1>5, ThreeOps
<1> QED BY <1>2, <1>4, <1>6 DEF r, Registers, Register
LEMMA DispatchesScript ==
  ASSUME NEW image \in Image, NEW an \in {"default", "kofler13"}, NEW set \in SetName, NEW B,
         \A k \in SetName : HasSet(image, k) \/ Register(image, k) \in B
  PROVE  /\ Script(B, Dispatches(image, an, set))
         /\ Serves(Dispatches(image, an, set), image, an)
<1> DEFINE d(k) == Op("dispatch", image, k, an)
<1>1. ASSUME NEW k \in SetName, NEW C, B \subseteq C
      PROVE d(k) \in Ops /\ IsOp(d(k)) /\ Prepared(d(k), C)
  <2>1. /\ d(k) \in Ops /\ d(k).do = "dispatch" /\ d(k).image = image /\ d(k).key = k
        /\ d(k).analysis = an /\ an \in AnalysisName
    BY DEF Op, Ops, Doing, AnalysisName
  <2> HIDE DEF d
  <2>2. HasSet(image, k) \/ Register(image, k) \in C BY <1>1
  <2> QED BY <2>1, <2>2 DEF IsOp, Prepared
<1> DEFINE a == d("fan19")
           b == d(set)
<1>2. Dispatches(image, an, set) = <<a, b>> BY DEF Dispatches
<1>3. "fan19" \in SetName BY DEF SetName
<1>4. B \subseteq B /\ B \subseteq B \cup {a} OBVIOUS
<1>5. a \in Ops /\ b \in Ops /\ IsOp(a) /\ IsOp(b) /\ Prepared(a, B) /\ Prepared(b, B \cup {a})
  <2> HIDE DEF d
  <2> QED BY <1>1, <1>3, <1>4
<1> HIDE DEF d, a, b
<1>6. Script(B, <<a, b>>) /\ All(<<a, b>>) = {a, b} BY <1>5, TwoOps
<1> QED BY <1>2, <1>6 DEF a, d, Serves

(* What follows the dispatches of an analysis.                               *)
LEMMA AssertOrList ==
  ASSUME NEW do \in {"assert", "list"}, NEW image \in Image, do = "list" => image = "tool",
         NEW key \in SetName \cup {""}, NEW an \in {"default", "kofler13"},
         NEW B, NEW s, Serves(s, image, an)
  PROVE  LET o == Op(do, image, key, an)
         IN  o \in Ops /\ IsOp(o) /\ Prepared(o, B \cup All(s))
<1> DEFINE op == Op(do, image, key, an)
<1>1. /\ op \in Ops /\ op.do = do /\ op.image = image /\ op.key = key
      /\ op.analysis = an /\ an \in AnalysisName /\ "fan19" \in SetName
  BY DEF Op, Ops, Doing, AnalysisName, SetName
<1> HIDE DEF op
<1>2. IsOp(op) BY <1>1 DEF IsOp
<1>3. Holds(image, an, B \cup All(s)) BY <1>1 DEF Holds, Serves
<1>4. Prepared(op, B \cup All(s)) BY <1>1, <1>3 DEF Prepared
<1> QED BY <1>1, <1>2, <1>4 DEF op

LEMMA DefaultScript ==
  ASSUME NEW image \in Image, NEW set \in SetName, NEW B,
         \A k \in SetName : HasSet(image, k) \/ Register(image, k) \in B
  PROVE  /\ Script(B, DefaultFeatureAnalysis(image, set))
         /\ Serves(DefaultFeatureAnalysis(image, set), image, "default")
<1> DEFINE s == Dispatches(image, "default", set)
           assert == Op("assert", image, set, "default")
<1>1. DefaultFeatureAnalysis(image, set) = Append(s, assert) BY DEF DefaultFeatureAnalysis
<1>2. Script(B, s) /\ Serves(s, image, "default")
  BY DispatchesScript
<1> HIDE DEF s
<1>3. assert \in Ops /\ IsOp(assert) /\ Prepared(assert, B \cup All(s)) BY <1>2, AssertOrList
<1> HIDE DEF assert
<1>4. Script(B, Append(s, assert)) /\ All(Append(s, assert)) = All(s) \cup {assert}
  BY <1>2, <1>3, Extended
<1>5. Serves(Append(s, assert), image, "default") BY <1>2, <1>4 DEF Serves
<1> QED BY <1>1, <1>4, <1>5

LEMMA PluginScript ==
  LET p == FeatureSetUnit("plugin") \o RegisterFunctionAnalyses
  IN  /\ Script({}, p)
      /\ \A an \in {"default", "kofler13"} : Serves(p, "plugin", an)
<1> DEFINE f == FeatureSetUnit("plugin")
           d == DefaultFeatureAnalysis("plugin", "grewe11")
           l == Kofler13Analysis("plugin", "fan19")
<1>1. "plugin" \in Image /\ "grewe11" \in SetName /\ "fan19" \in SetName
  BY DEF Image, SetName
<1>2. Script({}, f) /\ Registers(f, "plugin") BY <1>1, UnitScript
<1>3. /\ Script({} \cup All(f), d) /\ Serves(d, "plugin", "default")
  BY <1>1, <1>2, DefaultScript DEF Registers
<1>4. /\ Script(({} \cup All(f)) \cup All(d), l) /\ Serves(l, "plugin", "kofler13")
  <2>1. l = Dispatches("plugin", "kofler13", "fan19") BY DEF Kofler13Analysis
  <2> HIDE DEF l
  <2>2. \A k \in SetName : Register("plugin", k) \in ({} \cup All(f)) \cup All(d)
    BY <1>2 DEF Registers
  <2> QED BY <1>1, <2>1, <2>2, DispatchesScript
<1> HIDE DEF f, d, l
<1>5. Script({} \cup All(f), d \o l) /\ All(d \o l) = All(d) \cup All(l)
  BY <1>3, <1>4, Composed
<1>6. Script({}, f \o (d \o l)) /\ All(f \o (d \o l)) = All(f) \cup All(d \o l)
  BY <1>2, <1>5, Composed
<1>7. FeatureSetUnit("plugin") \o RegisterFunctionAnalyses = f \o (d \o l)
  BY DEF RegisterFunctionAnalyses, f, d, l
<1>8. Serves(f \o (d \o l), "plugin", "default") /\ Serves(f \o (d \o l), "plugin", "kofler13")
  BY <1>3, <1>4, <1>5, <1>6 DEF Serves
<1> QED BY <1>6, <1>7, <1>8
LEMMA ToolScript == Script({}, LinkOrder \o MainBody)
<1> DEFINE f == FeatureSetUnit("tool")
           d == DefaultFeatureAnalysis("tool", "fan19")
           l == Kofler13Analysis("tool", "fan19")
           ld == Op("list", "tool", "", "default")
           lk == Op("list", "tool", "", "kofler13")
           A == {} \cup All(f)
<1>1. "tool" \in Image /\ "fan19" \in SetName BY DEF Image, SetName
<1>2. Script({}, f) /\ Registers(f, "tool") BY <1>1, UnitScript
<1>3. Script(A, d) /\ Serves(d, "tool", "default")
  <2>1. \A k \in SetName : Register("tool", k) \in A BY <1>2 DEF Registers
  <2> HIDE DEF A, d
  <2>2. Script(A, DefaultFeatureAnalysis("tool", "fan19"))
        /\ Serves(DefaultFeatureAnalysis("tool", "fan19"), "tool", "default")
    BY <1>1, <2>1, DefaultScript
  <2> QED BY <2>2 DEF d
<1> HIDE DEF A, d
<1>4. Script(A, Append(d, ld)) /\ All(Append(d, ld)) = All(d) \cup {ld}
  <2>1. ld \in Ops /\ IsOp(ld) /\ Prepared(ld, A \cup All(d)) BY <1>1, <1>3, AssertOrList
  <2> HIDE DEF ld
  <2> QED BY <1>3, <2>1, Extended
<1> DEFINE e == Append(d, ld)
<1>5. Script(A \cup All(e), l) /\ Serves(l, "tool", "kofler13")
  <2> DEFINE C == A \cup All(e)
  <2>1. \A k \in SetName : Register("tool", k) \in C BY <1>2 DEF Registers, A
  <2>2. l = Dispatches("tool", "kofler13", "fan19") BY DEF Kofler13Analysis
  <2> HIDE DEF C, l
  <2>3. Script(C, Dispatches("tool", "kofler13", "fan19"))
        /\ Serves(Dispatches("tool", "kofler13", "fan19"), "tool", "kofler13")
    BY <1>1, <2>1, DispatchesScript
  <2> QED BY <2>2, <2>3 DEF C
<1>6. Script(A, e) BY <1>4
<1> HIDE DEF e, l
<1>7. Script(A, e \o l) /\ All(e \o l) = All(e) \cup All(l) BY <1>5, <1>6, Composed
<1> DEFINE el == e \o l
<1>8. Script(A, el) /\ Serves(el, "tool", "kofler13") BY <1>5, <1>7 DEF Serves
<1> HIDE DEF el
<1>9. Script(A, Append(el, lk))
  <2>1. lk \in Ops /\ IsOp(lk) /\ Prepared(lk, A \cup All(el)) BY <1>1, <1>8, AssertOrList
  <2> HIDE DEF lk
  <2> QED BY <1>8, <2>1, Extended
<1> DEFINE u == Append(el, lk)
<1>10. u = ToolUnit
  <2>1. ld \in Ops /\ lk \in Ops
    BY <1>1 DEF Op, Ops, Doing, AnalysisName
  <2>2. e = d \o <<ld>> BY <1>3, <2>1, AppendIsConcat DEF e, Script
  <2> HIDE DEF lk
  <2>3. u = el \o <<lk>> BY <1>8, <2>1, AppendIsConcat DEF Script
  <2> QED BY <2>2, <2>3 DEF ToolUnit, el, l, d, ld, lk
<1> HIDE DEF u
<1>11. Script({} \cup All(f), u) BY <1>9 DEF u, A
<1>12. Script({}, f \o u) BY <1>2, <1>11, Composed
<1> DEFINE link == f \o u
           p == Main("parse")
           ck == Main("check params")
           lm == Main("load module")
           lp == Main("load plugin")
           r == Main("run")
           C == {} \cup All(link)
<1>13. Script(C, Append(<<p, ck, lm, lp>>, r))
  <2>1. \A do \in {"parse", "check params", "load module", "load plugin", "run"} :
          /\ Main(do) \in Ops /\ Main(do).do = do
    BY DEF Main, Op, Ops, Doing, Image
  <2>2. p \in Ops /\ ck \in Ops /\ lm \in Ops /\ lp \in Ops /\ r \in Ops
        /\ p.do = "parse" /\ ck.do = "check params"
        /\ lm.do = "load module" /\ lp.do = "load plugin" /\ r.do = "run"
    <3> HIDE DEF Main
    <3> QED BY <2>1
  <2>3. IsOp(p) /\ IsOp(ck) /\ IsOp(lm) /\ IsOp(lp) /\ IsOp(r) BY <2>2 DEF IsOp
  <2> HIDE DEF p, ck, lm, lp, r, C
  <2>4. /\ Prepared(p, C) /\ Prepared(lm, C \cup {p, ck})
        /\ Prepared(lp, C \cup {p, ck, lm})
    BY <2>2 DEF Prepared
  <2>5. Prepared(ck, C \cup {p}) BY <2>2 DEF Prepared, p
  <2>6. /\ Script(C, <<p, ck, lm, lp>>)
        /\ All(<<p, ck, lm, lp>>) = {p, ck, lm, lp}
    <3>1. p \in Ops /\ ck \in Ops /\ lm \in Ops /\ lp \in Ops BY <2>2
    <3>2. IsOp(p) /\ IsOp(ck) /\ IsOp(lm) /\ IsOp(lp) BY <2>3
    <3> QED BY <2>4, <2>5, <3>1, <3>2, FourOps
  <2> DEFINE four == <<p, ck, lm, lp>>
  <2>7. Prepared(r, C \cup {p, ck, lm, lp}) BY <2>2 DEF Prepared, p, lm, lp
  <2> HIDE DEF four
  <2>8. Script(C, four) /\ Prepared(r, C \cup All(four)) BY <2>6, <2>7 DEF four
  <2>9. Script(C, Append(four, r)) BY <2>2, <2>3, <2>8, Extended
  <2> QED BY <2>9 DEF four
<1> DEFINE body == Append(<<p, ck, lm, lp>>, r)
<1>14. MainBody = body
  <2> HIDE DEF p, ck, lm, lp, r
  <2>1. body = <<p, ck, lm, lp, r>> BY Fifth
  <2> QED BY <2>1 DEF MainBody, p, ck, lm, lp, r
<1>15. Script({} \cup All(link), body) BY <1>13
<1>16. Script({}, link) BY <1>12
<1> HIDE DEF link, body
<1>17. Script({}, link \o body) BY <1>15, <1>16, Composed
<1> QED BY <1>10, <1>14, <1>17 DEF LinkOrder, link, body, f

-----------------------------------------------------------------------------
(* A step does what it takes off the script.                                 *)
LEMMA HeadIsReady ==
  ASSUME Script({}, todo), todo # <<>>
  PROVE  Head(todo) \in Ops /\ IsOp(Head(todo)) /\ Prepared(Head(todo), {})
<1>1. todo \in Seq(Ops) BY DEF Script
<1>2. Head(todo) = todo[1] /\ Head(todo) \in Ops /\ 1 \in 1..Len(todo) /\ Before(todo, 1) = {}
  BY <1>1, Rest
<1>3. {} \cup Before(todo, 1) = {} BY <1>2
<1>4. IsOp(todo[1]) /\ Prepared(todo[1], {} \cup Before(todo, 1)) BY <1>2 DEF Script
<1> QED BY <1>2, <1>3, <1>4

LEMMA OpFields ==
  /\ \A image, key : /\ Register(image, key).do = "register"
                     /\ Register(image, key).image = image /\ Register(image, key).key = key
  /\ \A image, key, an : /\ Op("dispatch", image, key, an).do = "dispatch"
                         /\ Op("dispatch", image, key, an).image = image
                         /\ Op("dispatch", image, key, an).analysis = an
  /\ \A do : Main(do).do = do
BY DEF Op, Main, Register

LEMMA NotOp ==
  ASSUME NEW h
  PROVE  /\ h.do # "dispatch" => \A image, key, an : h # Op("dispatch", image, key, an)
         /\ h.do # "register" => \A image, key : h # Register(image, key)
         /\ \A do : h.do # do => h # Main(do)
BY OpFields

\* what h has to have done
Did(h) ==
  /\ \A image, key : HasSet(image, key) \/ h = Register(image, key) => HasSet(image, key)'
  /\ \A image, k, an : <<image, an>> \in DOMAIN held \/ h = Op("dispatch", image, k, an)
                         => <<image, an>> \in DOMAIN held'
  /\ Accepted \/ h = Main("parse") => Accepted'
  /\ param # Null \/ h = Main("parse") => param' # Null
  /\ readable \/ h = Main("load module") => readable'
  /\ h # Main("load plugin")

LEMMA StillPrepared ==
  ASSUME NEW h, NEW o, NEW B, Did(h), Prepared(o, {h} \cup B)
  PROVE  Prepared(o, B)'
<1>1. \A image, an : Holds(image, an, {h} \cup B) => Holds(image, an, B)'
  BY DEF Did, Holds
<1>2. o.do = "dispatch" => HasSet(o.image, o.key)' \/ Register(o.image, o.key) \in B
  BY DEF Did, Prepared
<1>3. o.do \in {"assert", "list"} => Holds(o.image, o.analysis, B)'
  BY <1>1 DEF Prepared
<1>4. o.do = "check params" => param' # Null \/ Main("parse") \in B
  BY DEF Did, Prepared
<1>5. o.do = "run" => /\ Accepted' \/ Main("parse") \in B
                      /\ readable' \/ Main("load module") \in B
                      /\ Main("load plugin") \in B
                         \/ \A an \in {"default", "kofler13"} : Holds("plugin", an, B)'
  BY <1>1 DEF Did, Prepared
<1> QED BY <1>2, <1>3, <1>4, <1>5 DEF Prepared

LEMMA ScriptAfter ==
  ASSUME NEW s \in Seq(Ops), todo' = s,
         \A j \in 1..Len(s) : IsOp(s[j]) /\ Prepared(s[j], {} \cup Before(s, j))'
  PROVE  Script({}, todo)'
<1>1. \A j \in 1..Len(todo') :
        IsOp(todo'[j]) /\ (Prepared(todo[j], {} \cup Before(todo, j)))'
  <2> SUFFICES ASSUME NEW j \in 1..Len(s)
      PROVE IsOp(todo'[j]) /\ (Prepared(todo[j], {} \cup Before(todo, j)))'
    OBVIOUS
  <2>1. PICK o, B : o = s[j] /\ B = {} \cup Before(s, j) OBVIOUS
  <2>2. todo'[j] = o /\ ({} \cup Before(todo, j))' = B BY <2>1 DEF Before
  <2>3. IsOp(o) /\ Prepared(o, B)' BY <2>1
  <2>4. (Prepared(todo[j], {} \cup Before(todo, j)))'
    BY <2>2, <2>3 DEF Prepared, Holds, HasSet
  <2> QED BY <2>2, <2>3, <2>4
<1> QED BY <1>1 DEF Script

LEMMA Advance ==
  ASSUME Script({}, todo), todo # <<>>, todo' = <<>> \o Tail(todo), Did(Head(todo))
  PROVE  Script({}, todo)'
<1>1. PICK s, h : s = Tail(todo) /\ h = Head(todo) OBVIOUS
<1>2. todo \in Seq(Ops) BY DEF Script
<1>3. /\ s \in Seq(Ops) /\ Len(s) \in Nat
      /\ \A j \in 1..Len(s) : /\ s[j] = todo[j + 1] /\ j + 1 \in 1..Len(todo)
                             /\ Before(todo, j + 1) = {h} \cup Before(s, j)
  BY <1>1, <1>2, Rest
<1>4. todo' = s BY <1>1, <1>3
<1>5. Did(h) BY <1>1 DEF Did
<1>6. ASSUME NEW j \in 1..Len(s) PROVE IsOp(s[j]) /\ Prepared(s[j], {} \cup Before(s, j))'
  <2>1. IsOp(todo[j + 1]) /\ Prepared(todo[j + 1], {} \cup Before(todo, j + 1))
    BY <1>3 DEF Script
  <2>2. {} \cup Before(todo, j + 1) = {h} \cup ({} \cup Before(s, j)) BY <1>3
  <2>3. Prepared(s[j], {h} \cup ({} \cup Before(s, j))) BY <1>3, <2>1, <2>2
  <2> QED BY <1>3, <1>5, <2>1, <2>3, StillPrepared
<1> QED BY <1>3, <1>4, <1>6, ScriptAfter
LEMMA ToolInitial == ToolInit => ToolInv
<1> SUFFICES ASSUME ToolInit PROVE ToolInv OBVIOUS
<1>1. Script({}, todo) BY ToolScript DEF ToolInit
<1>2. /\ DOMAIN toolSets = {} /\ DOMAIN pluginSets = {} /\ DOMAIN analyses = {}
      /\ DOMAIN held = {} /\ process = "running" /\ param = Null
  BY DEF ToolInit
<1>3. Entries BY <1>2 DEF Entries
<1>4. StatusIsOutcome BY <1>2 DEF StatusIsOutcome
<1> QED BY <1>1, <1>2, <1>3, <1>4 DEF ToolInv, ToolInit

LEMMA RegisterSetStep ==
  ASSUME ToolInv, RegisterSet
  PROVE  ToolInv'
<1> DEFINE h == Head(todo)
<1>1. /\ process = "running" /\ todo # <<>> /\ h.do = "register"
      /\ todo' = <<>> \o Tail(todo) /\ UNCHANGED <<process, analyses, held, given, param>>
  BY DEF RegisterSet, Do, Continue
<1>2. h \in Ops /\ IsOp(h) BY <1>1, HeadIsReady DEF ToolInv
<1>3. h.key \in SetName /\ h.image \in Image BY <1>1, <1>2 DEF IsOp, Ops
<1>4. \/ /\ h.image = "tool" /\ UNCHANGED pluginSets
         /\ toolSets' = [x \in DOMAIN toolSets \cup {h.key} |->
                          IF x = h.key THEN <<"tool", h.key>> ELSE toolSets[x]]
      \/ /\ h.image = "plugin" /\ UNCHANGED toolSets
         /\ pluginSets' = [x \in DOMAIN pluginSets \cup {h.key} |->
                            IF x = h.key THEN <<"plugin", h.key>> ELSE pluginSets[x]]
  BY DEF RegisterSet, ToolSets!RegisterByKey, ToolSets!Put, PluginSets!RegisterByKey,
         PluginSets!Put
<1> HIDE DEF h
<1>5. Entries'
  <2>1. Entries BY DEF ToolInv
  <2>2. \A k \in DOMAIN toolSets' : k \in SetName /\ toolSets'[k] = <<"tool", k>>
    BY <1>3, <1>4, <2>1 DEF Entries
  <2>3. \A k \in DOMAIN pluginSets' : k \in SetName /\ pluginSets'[k] = <<"plugin", k>>
    BY <1>3, <1>4, <2>1 DEF Entries
  <2> QED BY <1>1, <2>1, <2>2, <2>3 DEF Entries
<1>6. Did(h)
  <2>0. h.do = "register" BY <1>1
  <2>1. ASSUME NEW image, NEW key, HasSet(image, key) \/ h = Register(image, key)
        PROVE HasSet(image, key)'
    <3>1. h = Register(image, key) => h.image = image /\ h.key = key BY OpFields
    <3> QED BY <1>3, <1>4, <2>1, <3>1 DEF HasSet, Image
  <2>2. \A image, k, an : h # Op("dispatch", image, k, an)
    BY <2>0, NotOp
  <2>3. h # Main("parse") /\ h # Main("load module") /\ h # Main("load plugin")
    BY <2>0, NotOp
  <2> QED BY <1>1, <2>1, <2>2, <2>3 DEF Did, Accepted, given
<1>7. Script({}, todo)' BY <1>1, <1>6, Advance DEF ToolInv, h
<1>8. StatusIsOutcome' BY <1>1 DEF StatusIsOutcome
<1> QED BY <1>1, <1>5, <1>7, <1>8 DEF ToolInv, given

LEMMA DispatchSetStep ==
  ASSUME ToolInv, DispatchSet
  PROVE  ToolInv'
<1> DEFINE h == Head(todo)
           a == <<h.image, h.analysis>>
<1>1. /\ process = "running" /\ todo # <<>> /\ h.do = "dispatch"
      /\ todo' = <<>> \o Tail(todo) /\ UNCHANGED <<process, analyses, given, param>>
      /\ held' = [x \in DOMAIN held \cup {a} |-> IF x = a THEN answer'.object ELSE held[x]]
  BY DEF DispatchSet, Do, Continue
<1>2. h \in Ops /\ IsOp(h) /\ Prepared(h, {}) BY <1>1, HeadIsReady DEF ToolInv
<1>3. h.key \in SetName /\ h.image \in Image /\ h.analysis \in AnalysisName
      /\ HasSet(h.image, h.key)
  BY <1>1, <1>2 DEF IsOp, Ops, Prepared
<1>4. Entries BY DEF ToolInv
<1>5. /\ answer'.object = <<h.image, h.key>>
      /\ DOMAIN toolSets' = DOMAIN toolSets /\ DOMAIN pluginSets' = DOMAIN pluginSets
      /\ \A k \in DOMAIN toolSets : toolSets'[k] = toolSets[k]
      /\ \A k \in DOMAIN pluginSets : pluginSets'[k] = pluginSets[k]
  <2>1. CASE h.image = "tool"
    <3>1. /\ toolSets' = [x \in DOMAIN toolSets \cup {h.key} |->
                            IF x = h.key THEN toolSets[h.key] ELSE toolSets[x]]
          /\ answer'.object = toolSets[h.key] /\ pluginSets' = pluginSets
          /\ h.key \in DOMAIN toolSets
      BY <1>3, <2>1 DEF DispatchSet, ToolSets!Dispatch, ToolSets!Put, ToolSets!At,
                        ToolSets!Answer, HasSet
    <3> QED BY <1>4, <2>1, <3>1 DEF Entries
  <2>2. CASE h.image = "plugin"
    <3>1. /\ pluginSets' = [x \in DOMAIN pluginSets \cup {h.key} |->
                              IF x = h.key THEN pluginSets[h.key] ELSE pluginSets[x]]
          /\ answer'.object = pluginSets[h.key] /\ toolSets' = toolSets
          /\ h.key \in DOMAIN pluginSets
      BY <1>3, <2>2 DEF DispatchSet, PluginSets!Dispatch, PluginSets!Put, PluginSets!At,
                        PluginSets!Answer, HasSet
    <3> QED BY <1>4, <2>2, <3>1 DEF Entries
  <2> QED BY <1>3, <2>1, <2>2 DEF Image
<1> HIDE DEF h
<1>6. Entries'
  <2>1. \A x \in DOMAIN held' : /\ x \in Image \X AnalysisName
                                /\ \E k \in SetName : held'[x] = <<x[1], k>>
    <3> SUFFICES ASSUME NEW x \in DOMAIN held'
        PROVE x \in Image \X AnalysisName /\ \E k \in SetName : held'[x] = <<x[1], k>>
      OBVIOUS
    <3>1. CASE x = a BY <1>1, <1>3, <1>5, <3>1
    <3>2. CASE x # a BY <1>1, <1>4, <3>2 DEF Entries
    <3> QED BY <3>1, <3>2
  <2>2. DOMAIN held \subseteq DOMAIN held' BY <1>1
  <2> QED BY <1>1, <1>4, <1>5, <2>1, <2>2 DEF Entries
<1>7. Did(h)
  <2>0. h.do = "dispatch" BY <1>1
  <2>1. ASSUME NEW image, NEW k, NEW an,
               <<image, an>> \in DOMAIN held \/ h = Op("dispatch", image, k, an)
        PROVE <<image, an>> \in DOMAIN held'
    <3>1. h = Op("dispatch", image, k, an) => h.image = image /\ h.analysis = an BY OpFields
    <3> QED BY <1>1, <2>1, <3>1
  <2>2. \A image, key : h # Register(image, key) BY <2>0, NotOp
  <2>3. h # Main("parse") /\ h # Main("load module") /\ h # Main("load plugin")
    BY <2>0, NotOp
  <2> QED BY <1>1, <1>5, <2>1, <2>2, <2>3 DEF Did, Accepted, given, HasSet
<1>8. Script({}, todo)' BY <1>1, <1>7, Advance DEF ToolInv, h
<1>9. StatusIsOutcome' BY <1>1 DEF StatusIsOutcome
<1> QED BY <1>1, <1>6, <1>8, <1>9 DEF ToolInv, given

(* Steps that write to no registry and to no analysis.                       *)
LEMMA EntriesKept ==
  ASSUME Entries, UNCHANGED <<toolSets, pluginSets, analyses, held>>
  PROVE  Entries'
BY DEF Entries

LEMMA AssertStep ==
  ASSUME ToolInv, AssertFeatures
  PROVE  ToolInv'
<1> DEFINE h == Head(todo)
           a == <<h.image, h.analysis>>
<1>1. /\ process = "running" /\ todo # <<>> /\ h.do = "assert"
      /\ UNCHANGED <<registries, held, given, param>>
      /\ IF held[a] = Null THEN Exit("aborted") ELSE Continue(<<>>)
  BY DEF AssertFeatures, Do
<1>2. h \in Ops /\ Prepared(h, {}) BY <1>1, HeadIsReady DEF ToolInv
<1> HIDE DEF h
<1>3. a \in DOMAIN held BY <1>1, <1>2 DEF Prepared, Holds
<1>4. Entries BY DEF ToolInv
<1>5. held[a] # Null
  <2>1. a \in Image \X AnalysisName /\ \E k \in SetName : held[a] = <<a[1], k>>
    BY <1>3, <1>4 DEF Entries
  <2> QED BY <2>1, NullIsNone DEF Object, Name
<1>6. todo' = <<>> \o Tail(todo) /\ process' = process BY <1>1, <1>5 DEF Continue
<1>7. Did(h)
  <2>0. h.do = "assert" BY <1>1
  <2>1. \A image, k, an : h # Op("dispatch", image, k, an) /\ h # Register(image, k)
    BY <2>0, NotOp
  <2>2. h # Main("parse") /\ h # Main("load module") /\ h # Main("load plugin")
    BY <2>0, NotOp
  <2> QED BY <1>1, <2>1, <2>2 DEF Did, Accepted, given, HasSet, registries
<1>8. Script({}, todo)' BY <1>1, <1>6, <1>7, Advance DEF ToolInv, h
<1>9. StatusIsOutcome' BY <1>1, <1>6 DEF StatusIsOutcome
<1>10. Entries' BY <1>1, <1>4, EntriesKept DEF registries
<1> QED BY <1>1, <1>6, <1>8, <1>9, <1>10 DEF ToolInv, given

LEMMA RegisterAnalysisStep ==
  ASSUME ToolInv, RegisterAnalysis
  PROVE  ToolInv'
<1> DEFINE h == Head(todo)
           an == h.analysis
<1>1. /\ process = "running" /\ todo # <<>> /\ h.do = "list"
      /\ todo' = <<>> \o Tail(todo)
      /\ UNCHANGED <<process, toolSets, pluginSets, held, given, param>>
      /\ analyses' = [x \in DOMAIN analyses \cup {an} |->
                        IF x = an THEN <<"tool", an>> ELSE analyses[x]]
  BY DEF RegisterAnalysis, Do, Continue, Analyses!RegisterByKey, Analyses!Put
<1>2. h \in Ops /\ IsOp(h) /\ Prepared(h, {}) BY <1>1, HeadIsReady DEF ToolInv
<1> HIDE DEF h
<1>3. an \in AnalysisName /\ <<"tool", an>> \in DOMAIN held
  BY <1>1, <1>2 DEF IsOp, Prepared, Holds
<1>4. Entries' BY <1>1, <1>3 DEF ToolInv, Entries
<1>5. Did(h)
  <2>0. h.do = "list" BY <1>1
  <2>1. \A image, k, x : h # Op("dispatch", image, k, x) /\ h # Register(image, k)
    BY <2>0, NotOp
  <2>2. h # Main("parse") /\ h # Main("load module") /\ h # Main("load plugin")
    BY <2>0, NotOp
  <2> QED BY <1>1, <2>1, <2>2 DEF Did, Accepted, given, HasSet
<1>6. Script({}, todo)' BY <1>1, <1>5, Advance DEF ToolInv, h
<1>7. StatusIsOutcome' BY <1>1 DEF StatusIsOutcome
<1> QED BY <1>1, <1>4, <1>6, <1>7 DEF ToolInv, given
LEMMA ScriptKept ==
  ASSUME NEW s, Script({}, s), todo' = s, 
         UNCHANGED <<toolSets, pluginSets, held, args, readable, param>>
  PROVE  Script({}, todo)'
<1>1. ASSUME NEW o, NEW B, Prepared(o, B) PROVE Prepared(o, B)'
  BY <1>1 DEF Prepared, Holds, HasSet, Accepted
<1>2. \A j \in 1..Len(s) : IsOp(s[j]) /\ Prepared(s[j], {} \cup Before(s, j)) BY DEF Script
<1>3. s \in Seq(Ops) BY DEF Script
<1>4. \A j \in 1..Len(s) : IsOp(s[j]) /\ Prepared(s[j], {} \cup Before(s, j))' BY <1>1, <1>2
<1> QED BY <1>3, <1>4, ScriptAfter

(* The process ends, and leaves its script where it was.                     *)
LEMMA ExitStep ==
  ASSUME ToolInv, UNCHANGED <<toolSets, pluginSets, analyses, held, given, param>>,
         NEW status \in {"exit 0", "exit 1"}, Exit(status), status = "exit 0" => StatusIsOutcome'
  PROVE  ToolInv'
<1>1. UNCHANGED <<toolSets, pluginSets, analyses, held, args, readable, plugin, param, todo>>
      /\ process' = status
  BY DEF given, Exit
<1>2. Script({}, todo)'
  <2>1. PICK s : s = todo OBVIOUS
  <2>2. Script({}, s) BY <2>1 DEF ToolInv, Script
  <2> QED BY <1>1, <2>1, <2>2, ScriptKept
<1>3. Entries' BY <1>1, EntriesKept DEF ToolInv
<1>4. StatusIsOutcome' BY <1>1 DEF StatusIsOutcome
<1> QED BY <1>1, <1>2, <1>3, <1>4 DEF ToolInv

LEMMA ParseStep ==
  ASSUME ToolInv, ParseAnalysisArguments
  PROVE  ToolInv'
<1>1. /\ process = "running" /\ todo # <<>> /\ Head(todo).do = "parse"
      /\ UNCHANGED <<toolSets, pluginSets, analyses, held, given>>
  BY DEF ParseAnalysisArguments, Do, Analyses!GetKeyList
<1>2. CASE args.builtin # "" /\ Exit("exit 0") /\ UNCHANGED param
  <2>1. StatusIsOutcome' BY <1>1, <1>2 DEF StatusIsOutcome, given
  <2> QED BY <1>1, <1>2, <2>1, ExitStep
<1>3. CASE Exit("exit 1") /\ UNCHANGED param
  BY <1>1, <1>3, ExitStep DEF registries
<1>4. CASE /\ Accepted /\ Continue(<<>>)
           /\ param' = Parsed(args)
  <2>1. /\ Accepted /\ todo' = <<>> \o Tail(todo) /\ process' = "running"
        /\ param' = Parsed(args)
    BY <1>1, <1>4 DEF Continue
  <2>2. param'.feature_set \in FeatureSetOptions /\ param' # Null
    <3>1. Default(args.fset, "fan19") \in FeatureSetOptions
      BY <2>1 DEF Accepted, Default, FeatureSetOptions
    <3>2. args \in Arguments BY DEF ToolInv
    <3>3. Parsed(args) # Null BY <3>2, NullIsNone
    <3>4. Parsed(args).feature_set = Default(args.fset, "fan19") BY DEF Parsed
    <3> QED BY <2>1, <3>1, <3>3, <3>4
  <2>3. Did(Head(todo))
    <3>1. Head(todo).do = "parse" BY <1>1
    <3>2. /\ \A image, k, an : Head(todo) # Op("dispatch", image, k, an)
          /\ \A image, k : Head(todo) # Register(image, k)
          /\ Head(todo) # Main("load module") /\ Head(todo) # Main("load plugin")
      BY <3>1, NotOp
    <3> QED BY <1>1, <2>1, <2>2, <3>2 DEF Did, Accepted, given, HasSet
  <2>4. Script({}, todo)' BY <1>1, <2>1, <2>3, Advance DEF ToolInv
  <2>5. StatusIsOutcome' BY <2>1 DEF StatusIsOutcome
  <2>6. Entries' BY <1>1, EntriesKept DEF ToolInv
  <2> QED BY <1>1, <2>1, <2>2, <2>4, <2>5, <2>6 DEF ToolInv, given
<1> QED BY <1>2, <1>3, <1>4 DEF ParseAnalysisArguments

LEMMA CheckParamsStep ==
  ASSUME ToolInv, CheckParams
  PROVE  ToolInv'
<1>1. /\ process = "running" /\ todo # <<>> /\ Head(todo).do = "check params"
      /\ UNCHANGED <<registries, held, given, param>>
      /\ IF param = Null THEN Exit("exit 0") ELSE Continue(<<>>)
  BY DEF CheckParams, Do
<1>2. Prepared(Head(todo), {}) BY <1>1, HeadIsReady DEF ToolInv
<1>3. param # Null BY <1>1, <1>2 DEF Prepared
<1>4. todo' = <<>> \o Tail(todo) /\ process' = process BY <1>1, <1>3 DEF Continue
<1>5. Did(Head(todo))
  <2>1. /\ \A image, k, an : Head(todo) # Op("dispatch", image, k, an)
        /\ \A image, k : Head(todo) # Register(image, k)
        /\ Head(todo) # Main("parse") /\ Head(todo) # Main("load module")
        /\ Head(todo) # Main("load plugin")
    BY <1>1, NotOp
  <2> QED BY <1>1, <2>1 DEF Did, Accepted, given, HasSet, registries
<1>6. Script({}, todo)' BY <1>1, <1>4, <1>5, Advance DEF ToolInv
<1>7. Entries' BY <1>1, EntriesKept DEF ToolInv, registries
<1>8. StatusIsOutcome' BY <1>1, <1>4 DEF StatusIsOutcome
<1> QED BY <1>1, <1>4, <1>6, <1>7, <1>8 DEF ToolInv, given

LEMMA LoadModuleStep ==
  ASSUME ToolInv, LoadModule
  PROVE  ToolInv'
<1>1. /\ process = "running" /\ todo # <<>> /\ Head(todo).do = "load module"
      /\ UNCHANGED <<registries, held, given, param>>
      /\ IF readable THEN Continue(<<>>) ELSE Exit("exit 1")
  BY DEF LoadModule, Do
<1>2. CASE readable
  <2>1. todo' = <<>> \o Tail(todo) /\ process' = process BY <1>1, <1>2 DEF Continue
  <2>2. Did(Head(todo))
    <3>1. Head(todo).do = "load module" BY <1>1
    <3>2. /\ \A image, k, an : Head(todo) # Op("dispatch", image, k, an)
          /\ \A image, k : Head(todo) # Register(image, k)
          /\ Head(todo) # Main("parse") /\ Head(todo) # Main("load plugin")
      BY <3>1, NotOp
    <3> QED BY <1>1, <1>2, <3>2 DEF Did, Accepted, given, HasSet, registries
  <2>3. Script({}, todo)' BY <1>1, <2>1, <2>2, Advance DEF ToolInv
  <2>4. Entries' BY <1>1, EntriesKept DEF ToolInv, registries
  <2>5. StatusIsOutcome' BY <1>1, <2>1 DEF StatusIsOutcome
  <2> QED BY <1>1, <2>1, <2>3, <2>4, <2>5 DEF ToolInv, given
<1>3. CASE ~readable BY <1>1, <1>3, ExitStep DEF registries
<1> QED BY <1>2, <1>3

LEMMA RunStep ==
  ASSUME ToolInv, Run
  PROVE  ToolInv'
<1>1. /\ process = "running" /\ todo # <<>> /\ Head(todo).do = "run"
      /\ UNCHANGED <<registries, held, given, param>> /\ Exit("exit 0")
  BY DEF Run, Do
<1>2. Prepared(Head(todo), {}) BY <1>1, HeadIsReady DEF ToolInv
<1>3. Accepted /\ readable /\ \A an \in {"default", "kofler13"} : <<"plugin", an>> \in DOMAIN held
  BY <1>1, <1>2 DEF Prepared, Holds
<1>4. StatusIsOutcome' BY <1>1, <1>3 DEF StatusIsOutcome, Accepted, given
<1> QED BY <1>1, <1>4, ExitStep DEF registries

LEMMA LoadPluginStep ==
  ASSUME ToolInv, LoadPlugin
  PROVE  ToolInv'
<1>1. /\ process = "running" /\ todo # <<>> /\ Head(todo).do = "load plugin"
      /\ UNCHANGED <<registries, held, given, param>>
      /\ IF plugin THEN Continue(FeatureSetUnit("plugin") \o RegisterFunctionAnalyses)
                    ELSE Exit("exit 1")
  BY DEF LoadPlugin, Do
<1>2. CASE plugin
  <2>1. PICK p, s, h : /\ p = FeatureSetUnit("plugin") \o RegisterFunctionAnalyses
                       /\ s = Tail(todo) /\ h = Head(todo)
    OBVIOUS
  <2>2. todo' = p \o s /\ process' = process BY <1>1, <1>2, <2>1 DEF Continue
  <2>3. Script({}, p) /\ \A an \in {"default", "kofler13"} : Serves(p, "plugin", an)
    BY <2>1, PluginScript
  <2>4. todo \in Seq(Ops) /\ \A j \in 1..Len(todo) :
          IsOp(todo[j]) /\ Prepared(todo[j], {} \cup Before(todo, j))
    BY DEF ToolInv, Script
  <2>5. /\ s \in Seq(Ops)
        /\ \A j \in 1..Len(s) : /\ s[j] = todo[j + 1] /\ j + 1 \in 1..Len(todo)
                               /\ Before(todo, j + 1) = {h} \cup Before(s, j)
    BY <1>1, <2>1, <2>4, Rest
  <2>6. ASSUME NEW o, NEW B, Prepared(o, {h} \cup B) PROVE Prepared(o, All(p) \cup B)
    <3>0. h.do = "load plugin" BY <1>1, <2>1
    <3>1. /\ \A image, k, an : h # Op("dispatch", image, k, an)
          /\ \A image, k : h # Register(image, k)
      BY <3>0, NotOp
    <3>2. h # Main("parse") /\ h # Main("load module") BY <3>0, NotOp
    <3>3. \A image, an : Holds(image, an, {h} \cup B) => Holds(image, an, All(p) \cup B)
      BY <3>1 DEF Holds
    <3>4. \A an \in {"default", "kofler13"} : Holds("plugin", an, All(p) \cup B)
      <4>1. "fan19" \in SetName BY DEF SetName
      <4> QED BY <2>3, <4>1 DEF Holds, Serves
    <3> QED BY <2>6, <3>1, <3>2, <3>3, <3>4 DEF Prepared
  <2>7. Script({} \cup All(p), s)
    <3> SUFFICES ASSUME NEW j \in 1..Len(s)
        PROVE IsOp(s[j]) /\ Prepared(s[j], ({} \cup All(p)) \cup Before(s, j))
      BY <2>5 DEF Script
    <3>1. IsOp(s[j]) /\ Prepared(s[j], {} \cup Before(todo, j + 1)) BY <2>4, <2>5
    <3>2. {} \cup Before(todo, j + 1) = {h} \cup Before(s, j) BY <2>5
    <3>3. Prepared(s[j], {h} \cup Before(s, j)) BY <3>1, <3>2
    <3>4. Prepared(s[j], All(p) \cup Before(s, j)) BY <2>6, <3>3
    <3>5. ({} \cup All(p)) \cup Before(s, j) = All(p) \cup Before(s, j) OBVIOUS
    <3> QED BY <3>1, <3>4, <3>5
  <2>8. Script({}, p \o s) BY <2>3, <2>7, Composed
  <2>9. Script({}, todo)'
    <3>1. PICK t : t = p \o s OBVIOUS
    <3>2. Script({}, t) BY <2>8, <3>1
    <3>3. UNCHANGED <<toolSets, pluginSets, held, args, readable, param>> /\ todo' = t
      BY <1>1, <2>2, <3>1 DEF registries, given
    <3> QED BY <3>2, <3>3, ScriptKept
  <2>10. Entries' BY <1>1, EntriesKept DEF ToolInv, registries
  <2>11. StatusIsOutcome' BY <1>1, <2>2 DEF StatusIsOutcome
  <2> QED BY <1>1, <2>2, <2>9, <2>10, <2>11 DEF ToolInv, given
<1>3. CASE ~plugin BY <1>1, <1>3, ExitStep DEF registries
<1> QED BY <1>2, <1>3

LEMMA ToolStep == ToolInv /\ [ToolNext]_toolvars => ToolInv'
<1> SUFFICES ASSUME ToolInv, [ToolNext]_toolvars PROVE ToolInv' OBVIOUS
<1>1. ASSUME UNCHANGED toolvars PROVE ToolInv'
  <2>1. UNCHANGED <<toolSets, pluginSets, analyses, held, args, readable, plugin, param,
                    todo, process>>
    BY <1>1 DEF toolvars, registries, given
  <2>2. Script({}, todo)'
    <3>1. PICK s : s = todo OBVIOUS
    <3>2. Script({}, s) BY <3>1 DEF ToolInv, Script
    <3> QED BY <2>1, <3>1, <3>2, ScriptKept
  <2>3. Entries' BY <2>1, EntriesKept DEF ToolInv
  <2>4. StatusIsOutcome' BY <2>1 DEF ToolInv, StatusIsOutcome, Accepted
  <2> QED BY <2>1, <2>2, <2>3, <2>4 DEF ToolInv
<1> QED BY <1>1, RegisterSetStep, DispatchSetStep, AssertStep, RegisterAnalysisStep,
           ParseStep, CheckParamsStep, LoadModuleStep, LoadPluginStep, RunStep DEF ToolNext

THEOREM ToolInvariance == ToolSpec => []ToolInv
BY ToolInitial, ToolStep, PTL DEF ToolSpec

(* The registries map names to their objects, and the parameters are what    *)
(* the options accept.                                                       *)
THEOREM ToolTypeCorrect == ToolSpec => []ToolTypeOK
<1>1. ToolInv => ToolTypeOK
  <2> SUFFICES ASSUME ToolInv PROVE ToolTypeOK OBVIOUS
  <2>1. SetName \subseteq Name /\ AnalysisName \subseteq Name BY DEF Name
  <2>2. \A k \in Name : <<"tool", k>> \in Object /\ <<"plugin", k>> \in Object
    BY DEF Object, Image
  <2>3. /\ DOMAIN toolSets \subseteq Name
        /\ \A k \in DOMAIN toolSets : toolSets[k] \in Object \cup {Null}
    BY <2>1, <2>2 DEF ToolInv, Entries
  <2>4. DOMAIN pluginSets \subseteq Name
        /\ \A k \in DOMAIN pluginSets : pluginSets[k] \in Object \cup {Null}
    BY <2>1, <2>2 DEF ToolInv, Entries
  <2>5. /\ DOMAIN analyses \subseteq Name
        /\ \A k \in DOMAIN analyses : analyses[k] \in Object \cup {Null}
    BY <2>1, <2>2 DEF ToolInv, Entries
  <2>6. DOMAIN held \subseteq Image \X AnalysisName BY DEF ToolInv, Entries
  <2> QED BY <2>3, <2>4, <2>5, <2>6 DEF ToolInv, ToolTypeOK
<1> QED BY <1>1, ToolInvariance, PTL

(* No analysis ever holds a null feature set or one of the other image, no   *)
(* name is left mapped to null, and the assertion never fails.               *)
THEOREM AnalysesServed == ToolSpec => []AnalysesHaveSets
<1>1. ToolInv => AnalysesHaveSets
  <2> SUFFICES ASSUME ToolInv PROVE AnalysesHaveSets OBVIOUS
  <2>1. Entries /\ process # "aborted" BY DEF ToolInv
  <2>2. \A k \in Name : <<"tool", k>> # Null /\ <<"plugin", k>> # Null
    BY NullIsNone DEF Object, Image
  <2>3. SetName \subseteq Name /\ AnalysisName \subseteq Name BY DEF Name
  <2>4. \A a \in DOMAIN held : held[a] # Null /\ held[a][1] = a[1]
    <3> SUFFICES ASSUME NEW a \in DOMAIN held PROVE held[a] # Null /\ held[a][1] = a[1]
      OBVIOUS
    <3>1. PICK k \in SetName : held[a] = <<a[1], k>> BY <2>1 DEF Entries
    <3>2. a[1] \in Image BY <2>1 DEF Entries
    <3> QED BY <2>2, <2>3, <3>1, <3>2 DEF Image
  <2>5. \A k \in DOMAIN toolSets : toolSets[k] # Null BY <2>1, <2>2, <2>3 DEF Entries
  <2>6. \A k \in DOMAIN pluginSets : pluginSets[k] # Null BY <2>1, <2>2, <2>3 DEF Entries
  <2>7. \A an \in DOMAIN analyses : analyses[an] \in DOMAIN held BY <2>1 DEF Entries
  <2> QED BY <2>1, <2>4, <2>5, <2>6, <2>7 DEF AnalysesHaveSets
<1> QED BY <1>1, ToolInvariance, PTL

(* Exit status 0 means -help or -version, or that the command line was       *)
(* accepted, the module read and both analyses of the plugin constructed.    *)
THEOREM StatusTellsOutcome == ToolSpec => []StatusIsOutcome
<1>1. ToolInv => StatusIsOutcome BY DEF ToolInv
<1> QED BY <1>1, ToolInvariance, PTL
=============================================================================
