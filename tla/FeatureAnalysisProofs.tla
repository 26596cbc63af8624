----------------------- MODULE FeatureAnalysisProofs -----------------------
(***************************************************************************)
(* Theorems about FeatureAnalysis, for every set of analyses, functions    *)
(* and bodies and every width of int.                                      *)
(***************************************************************************)
EXTENDS FeatureAnalysis, FiniteSetTheorems, TLAPS

-----------------------------------------------------------------------------
(* Arithmetic on int, for every width.                                       *)

(* The unsigneds are counted by Turn.                                        *)
LEMMA TurnType == Turn \in Nat \ {0}
  BY IntMaxAssumption DEF Turn

(* Wrapping an integer gives an int.                                         *)
LEMMA ToIntType == ASSUME NEW x \in Int PROVE ToInt(x) \in Ints
  BY IntMaxAssumption DEF ToInt, IsInt, IntMin, Ints, Turn

(* Wrapping adds a whole number of turns.                                    *)
LEMMA ToIntCongruent ==
  ASSUME NEW x \in Int
  PROVE  \E q \in Int : ToInt(x) = x - q * Turn
<1> DEFINE M == Turn
<1>1. M \in Nat \ {0} BY TurnType
<1>2. CASE IsInt(x)
  <2>1. ToInt(x) = x - 0 * M BY <1>2, <1>1 DEF ToInt
  <2> QED BY <2>1
<1>3. CASE ~IsInt(x)
  <2>1. PICK y \in Int : y = x - IntMin BY IntMaxAssumption DEF IntMin
  <2>2. PICK d \in Int, r \in Int : y = M * d + r /\ r = y % M
    <3> HIDE DEF M
    <3>1. y = M * (y \div M) + (y % M) /\ y \div M \in Int /\ y % M \in Int
      BY <1>1
    <3> QED BY <3>1
  <2>3. ToInt(x) = r + IntMin BY <1>3, <2>1, <2>2 DEF ToInt
  <2>4. IntMin \in Int BY IntMaxAssumption DEF IntMin
  <2>5. M * d = d * M /\ d * M \in Int BY <1>1
  <2>6. ToInt(x) = x - d * M
    <3> HIDE DEF M
    <3> QED BY <2>1, <2>2, <2>3, <2>4, <2>5
  <2> QED BY <2>6
<1> QED BY <1>2, <1>3

(* Two ints a whole number of turns apart are the same int.                  *)
LEMMA IntUnique ==
  ASSUME NEW x \in Ints, NEW y \in Ints, NEW q \in Int,
         x = y - q * Turn
  PROVE  x = y
<1> DEFINE M == Turn
<1>1. M \in Nat \ {0} /\ x \in Int /\ y \in Int /\ x - y < M /\ y - x < M
  BY IntMaxAssumption DEF Ints, IntMin, Turn
<1>2. x = y - q * M OBVIOUS
<1> HIDE DEF M
<1>3. CASE q >= 1
  <2>1. q * M >= M BY <1>1, <1>3
  <2> QED BY <1>1, <1>2, <2>1
<1>4. CASE q <= -1
  <2>1. q * M <= -M BY <1>1, <1>4
  <2> QED BY <1>1, <1>2, <2>1
<1>5. CASE q = 0
  BY <1>1, <1>2, <1>5
<1> QED BY <1>3, <1>4, <1>5

(* An addition to a wrapped sum gives the wrapped sum.                       *)
LEMMA ToIntAdd ==
  ASSUME NEW x \in Int, NEW c \in Int
  PROVE  ToInt(ToInt(x) + c) = ToInt(x + c)
<1> DEFINE M == Turn
<1>0. M \in Int BY TurnType
<1>1. ToInt(x) \in Int BY ToIntType, IntMaxAssumption DEF Ints, IntMin
<1>2. PICK p \in Int : ToInt(x) = x - p * M BY ToIntCongruent
<1>3. PICK q \in Int : ToInt(ToInt(x) + c) = (ToInt(x) + c) - q * M
  BY <1>1, ToIntCongruent
<1>4. PICK r \in Int : ToInt(x + c) = (x + c) - r * M BY ToIntCongruent
<1>5. ToInt(ToInt(x) + c) \in Ints /\ ToInt(x + c) \in Ints
  BY <1>1, ToIntType
<1>6. ToInt(ToInt(x) + c) = ToInt(x + c) - (p + q - r) * M
  <2> DEFINE a == ToInt(x)  b == ToInt(ToInt(x) + c)  d == ToInt(x + c)
  <2>1. (p + q - r) * M = p * M + q * M - r * M BY <1>0
  <2>2. p * M \in Int /\ q * M \in Int /\ r * M \in Int BY <1>0
  <2>3. a \in Int BY <1>1
  <2>4. a = x - p * M /\ b = (a + c) - q * M /\ d = (x + c) - r * M
    BY <1>2, <1>3, <1>4
  <2> HIDE DEF a, b, d, M
  <2>5. b = d - (p + q - r) * M BY <2>1, <2>2, <2>3, <2>4
  <2> QED BY <2>5 DEF a, b, d, M
<1>7. p + q - r \in Int OBVIOUS
<1> QED BY <1>5, <1>6, <1>7, IntUnique

LEMMA ToIntZero == ToInt(0) = 0
  BY IntMaxAssumption DEF ToInt, IsInt, IntMin

-----------------------------------------------------------------------------
(* The feature sets.                                                         *)

(* An instruction counts for exactly the features it is expected to, except  *)
(* for those that depend on a callee's name.                                 *)
LEMMA HitsExpected ==
  ASSUME NEW s \in SetName, NEW f \in Function, NEW n \in 1..Len(Body[f]),
         NEW name, NEW k \in Exact(s)
  PROVE  k \in Hits(s, Body[f][n], name) <=> k \in Expected(s, Body[f][n])
<1> DEFINE inst == Body[f][n]
<1>1. inst \in Instruction BY ConstantsAssumption
<1>2. /\ isLocalMemoryAccess(inst.space) <=> inst.space = GlobalSpace
      /\ isGlobalMemoryAccess(inst.space) <=> inst.space = LocalSpace
  <2>1. inst.space \in Nat BY <1>1 DEF Instruction
  <2> QED BY <2>1 DEF isLocalMemoryAccess, isGlobalMemoryAccess, GlobalSpace, LocalSpace,
                      get_cl_address_space_type, SpaceTypes
<1> HIDE DEF inst
<1>3. CASE s = "fan19"
  <2>1. k \in Hits(s, inst, name) <=>
          \/ k \in DOMAIN Fan19Opcodes /\ inst.op \in Fan19Opcodes[k]
          \/ k = "sp_fun" /\ IsMathCall(inst, name)
          \/ k = "mem_gl" /\ IsMemOp(inst) /\ inst.space = GlobalSpace
          \/ k = "mem_loc" /\ IsMemOp(inst) /\ inst.space = LocalSpace
    <3>1. Hits(s, inst, name) = Fan19Hits(inst, name) BY <1>3 DEF Hits
    <3> QED BY <1>2, <3>1 DEF Fan19Hits
  <2>2. k \in Expected(s, inst) <=>
          \/ k \in DOMAIN Fan19Opcodes /\ inst.op \in Fan19Opcodes[k]
          \/ k = "sp_fun" /\ inst.call = "intrinsic" /\ inst.known
          \/ k = "mem_gl" /\ IsMemOp(inst) /\ inst.space = GlobalSpace
          \/ k = "mem_loc" /\ IsMemOp(inst) /\ inst.space = LocalSpace
    BY <1>3 DEF Expected
  <2>3. k # "sp_fun" BY <1>3 DEF Exact, CallFeatures
  <2> QED BY <2>1, <2>2, <2>3 DEF inst
<1>4. CASE s = "grewe11"
  <2>1. k \in Hits(s, inst, name) <=>
          \/ k \in DOMAIN Grewe11Opcodes /\ inst.op \in Grewe11Opcodes[k]
          \/ k = "math" /\ IsMathCall(inst, name)
          \/ /\ k = "barrier"
             /\ inst.call = "direct" /\ "FNAME_SPECIAL" \notin name /\ "BARRIER" \in name
          \/ k = "mem_acc" /\ IsMemOp(inst)
          \/ k = "mem_loc" /\ IsMemOp(inst) /\ inst.space = GlobalSpace
    <3>1. Hits(s, inst, name) = Grewe11Hits(inst, name) BY <1>4 DEF Hits
    <3> QED BY <1>2, <3>1 DEF Grewe11Hits
  <2>2. k \in Expected(s, inst) <=>
          \/ k \in DOMAIN Grewe11Opcodes /\ inst.op \in Grewe11Opcodes[k]
          \/ k = "math" /\ inst.call = "intrinsic" /\ inst.known
          \/ k = "mem_acc" /\ IsMemOp(inst)
          \/ k = "mem_loc" /\ IsMemOp(inst) /\ inst.space = GlobalSpace
    BY <1>4 DEF Expected
  <2>3. k # "math" /\ k # "barrier" BY <1>4 DEF Exact, CallFeatures
  <2> QED BY <2>1, <2>2, <2>3 DEF inst
<1>5. CASE s = "full"
  BY <1>5 DEF Hits, Expected, inst
<1> QED BY <1>3, <1>4, <1>5 DEF SetName

(* What depends on a name: an intrinsic counts as expected, a call by name   *)
(* for at most one feature, anything else for none.                          *)
LEMMA CallHits ==
  ASSUME NEW s \in SetName, s # "full", NEW inst, NEW name
  PROVE  LET m == MathFeature(s)
             hits == Hits(s, inst, name)
         IN  /\ m \in Feature(s)
             /\ m \in Expected(s, inst) <=> inst.call = "intrinsic" /\ inst.known
             /\ m \in hits <=> IsMathCall(inst, name)
             /\ "barrier" \in hits => inst.call = "direct" /\ m \notin hits
<1>1. CASE s = "fan19"
  <2>1. Hits(s, inst, name) = Fan19Hits(inst, name) /\ MathFeature(s) = "sp_fun"
        /\ Feature(s) = Fan19Features
    BY <1>1 DEF Hits, MathFeature, Feature
  <2>2. "sp_fun" \in Fan19Features BY DEF Fan19Features
  <2>3. "sp_fun" \in Expected(s, inst) <=> inst.call = "intrinsic" /\ inst.known
    BY <1>1 DEF Expected, Fan19Opcodes
  <2>4. "sp_fun" \in Fan19Hits(inst, name) <=> IsMathCall(inst, name)
    BY DEF Fan19Hits, Fan19Opcodes
  <2>5. "barrier" \notin Fan19Hits(inst, name) BY DEF Fan19Hits, Fan19Opcodes
  <2> QED BY <2>1, <2>2, <2>3, <2>4, <2>5
<1>2. CASE s = "grewe11"
  <2>1. Hits(s, inst, name) = Grewe11Hits(inst, name) /\ MathFeature(s) = "math"
        /\ Feature(s) = Grewe11Features
    BY <1>2 DEF Hits, MathFeature, Feature
  <2>2. "math" \in Grewe11Features BY DEF Grewe11Features
  <2>3. "math" \in Expected(s, inst) <=> inst.call = "intrinsic" /\ inst.known
    BY <1>2 DEF Expected, Grewe11Opcodes
  <2>4. "math" \in Grewe11Hits(inst, name) <=> IsMathCall(inst, name)
    BY DEF Grewe11Hits, Grewe11Opcodes
  <2>5. "barrier" \in Grewe11Hits(inst, name)
          => inst.call = "direct" /\ "FNAME_SPECIAL" \notin name
    BY DEF Grewe11Hits, Grewe11Opcodes
  <2> QED BY <2>1, <2>2, <2>3, <2>4, <2>5 DEF IsMathCall
<1> QED BY <1>1, <1>2 DEF SetName

LEMMA FiniteFive ==
  ASSUME NEW a, NEW b, NEW c, NEW d, NEW e
  PROVE  IsFiniteSet({a, b, c, d, e})
<1>1. IsFiniteSet({a}) BY FS_Singleton
<1>2. IsFiniteSet({a, b})
  <2>1. IsFiniteSet({a} \cup {b}) BY <1>1, FS_AddElement
  <2>2. {a} \cup {b} = {a, b} OBVIOUS
  <2> QED BY <2>1, <2>2
<1>3. IsFiniteSet({a, b, c})
  <2>1. IsFiniteSet({a, b} \cup {c}) BY <1>2, FS_AddElement
  <2>2. {a, b} \cup {c} = {a, b, c} OBVIOUS
  <2> QED BY <2>1, <2>2
<1>4. IsFiniteSet({a, b, c, d})
  <2>1. IsFiniteSet({a, b, c} \cup {d}) BY <1>3, FS_AddElement
  <2>2. {a, b, c} \cup {d} = {a, b, c, d} OBVIOUS
  <2> QED BY <2>1, <2>2
<1>5. IsFiniteSet({a, b, c, d} \cup {e}) BY <1>4, FS_AddElement
<1>6. {a, b, c, d} \cup {e} = {a, b, c, d, e} OBVIOUS
<1> QED BY <1>5, <1>6

(* It counts for finitely many features, all of its set.                     *)
LEMMA HitsType ==
  ASSUME NEW s \in SetName, NEW f \in Function, NEW n \in 1..Len(Body[f]),
         NEW name
  PROVE  /\ Hits(s, Body[f][n], name) \subseteq Feature(s)
         /\ IsFiniteSet(Hits(s, Body[f][n], name))
         /\ s = "full" => Cardinality(Hits(s, Body[f][n], name)) = 1
<1> DEFINE inst == Body[f][n]
<1> HIDE DEF inst
<1>1. CASE s = "fan19"
  <2>1. Hits(s, inst, name) = Fan19Hits(inst, name) BY <1>1 DEF Hits
  <2>2. Hits(s, inst, name) \subseteq Fan19Features
    BY <2>1 DEF Fan19Hits, Fan19Opcodes, Fan19Features
  <2>3. IsFiniteSet(Fan19Features)
    <3> DEFINE A == {"int_add", "int_mul", "int_div", "int_bw", "flt_add"}
               B == {"flt_mul", "flt_div", "sp_fun", "mem_gl", "mem_loc"}
    <3>1. IsFiniteSet(A \cup B) BY FiniteFive, FS_Union
    <3>2. Fan19Features = A \cup B BY DEF Fan19Features
    <3> QED BY <3>1, <3>2
  <2> QED BY <1>1, <2>2, <2>3, FS_Subset DEF inst, Feature
<1>2. CASE s = "grewe11"
  <2>1. Hits(s, inst, name) = Grewe11Hits(inst, name) BY <1>2 DEF Hits
  <2>2. Hits(s, inst, name) \subseteq Grewe11Features
    BY <2>1 DEF Grewe11Hits, Grewe11Opcodes, Grewe11Features
  <2>3. IsFiniteSet(Grewe11Features)
    <3> DEFINE A == {"int", "int4", "float", "float4", "math"}
               B == {"barrier", "mem_acc", "mem_loc", "mem_coal", "mem_coal"}
    <3>1. IsFiniteSet(A \cup B) BY FiniteFive, FS_Union
    <3>2. Grewe11Features = A \cup B BY DEF Grewe11Features
    <3> QED BY <3>1, <3>2
  <2> QED BY <1>2, <2>2, <2>3, FS_Subset DEF inst, Feature
<1>3. CASE s = "full"
  <2>1. Hits(s, inst, name) = {inst.op} BY <1>3 DEF Hits
  <2>2. IsFiniteSet({inst.op}) /\ Cardinality({inst.op}) = 1 BY FS_Singleton
  <2>3. inst.op \in {Body[f][i].op : i \in 1..Len(Body[f])} BY DEF inst
  <2>4. Feature(s) = UNION {{Body[g][i].op : i \in 1..Len(Body[g])} : g \in Function}
    BY <1>3 DEF Feature, FullFeatures
  <2> QED BY <2>1, <2>2, <2>3, <2>4 DEF inst
<1> QED BY <1>1, <1>2, <1>3 DEF SetName

-----------------------------------------------------------------------------
(* What the operations on an object do to its counters and its type.         *)

LEMMA UpdateMap ==
  ASSUME NEW keys, NEW values, NEW map, NEW new,
         IsMap(map, keys, values), IsMap(new, keys, values)
  PROVE  IsMap(Update(map, new), keys, values)
BY DEF IsMap, Update

LEMMA LookupInt ==
  ASSUME NEW keys, NEW map, IsMap(map, keys, Ints), NEW k
  PROVE  Lookup(map, k) \in Ints /\ Lookup(map, k) \in Int
BY IntMaxAssumption DEF IsMap, Lookup, Ints, IntMin

(* add increases the counters of hits by the contribution, wrapped.          *)
LEMMA AddEffect ==
  ASSUME NEW s \in SetName, NEW obj, IsObject(s, obj), NEW c \in Ints,
         NEW hits, hits \subseteq Feature(s), IsFiniteSet(hits)
  PROVE  /\ IsObject(s, Add(obj, hits, c))
         /\ \A k : Lookup(Add(obj, hits, c).raw, k) =
                    IF k \in hits THEN ToInt(Lookup(obj.raw, k) + c)
                                  ELSE Lookup(obj.raw, k)
         /\ Add(obj, hits, c).feat = obj.feat
         /\ DOMAIN Add(obj, hits, c).raw = DOMAIN obj.raw \cup hits
         /\ Add(obj, hits, c).instruction_tot_contrib =
              ToInt(obj.instruction_tot_contrib + Cardinality(hits) * c)
<1> DEFINE new == [k \in hits |-> ToInt(Lookup(obj.raw, k) + c)]
           total == ToInt(obj.instruction_tot_contrib + Cardinality(hits) * c)
<1>1. Add(obj, hits, c) = [raw |-> Update(obj.raw, new), feat |-> obj.feat,
                           instruction_tot_contrib |-> total]
  <2>1. Add(obj, hits, c) = [obj EXCEPT !.raw = Update(obj.raw, new),
                                        !.instruction_tot_contrib = total]
    BY DEF Add
  <2>2. obj = [raw |-> obj.raw, feat |-> obj.feat,
               instruction_tot_contrib |-> obj.instruction_tot_contrib]
    BY DEF IsObject
  <2> HIDE DEF new, total
  <2> QED BY <2>1, <2>2
<1>2. IsMap(obj.raw, Feature(s), Ints) BY DEF IsObject
<1>3. c \in Int BY IntMaxAssumption DEF Ints, IntMin
<1>4. IsMap(new, Feature(s), Ints)
  <2>1. \A k \in hits : ToInt(Lookup(obj.raw, k) + c) \in Ints
    BY <1>2, <1>3, LookupInt, ToIntType
  <2> QED BY <2>1 DEF IsMap
<1>5. total \in Ints
  <2>1. Cardinality(hits) \in Nat BY FS_CardinalityType
  <2>2. obj.instruction_tot_contrib \in Int
    BY IntMaxAssumption DEF IsObject, Ints, IntMin
  <2>3. Cardinality(hits) * c \in Int BY <2>1, <1>3
  <2> QED BY <2>2, <2>3, ToIntType
<1>6. \A k : Lookup(Update(obj.raw, new), k) =
              IF k \in hits THEN new[k] ELSE Lookup(obj.raw, k)
  BY DEF Lookup, Update
<1>7. DOMAIN Update(obj.raw, new) = DOMAIN obj.raw \cup hits BY DEF Update
<1>8. IsMap(Update(obj.raw, new), Feature(s), Ints) BY <1>2, <1>4, UpdateMap
<1>9. IsObject(s, Add(obj, hits, c))
  <2> HIDE DEF new, total
  <2> QED BY <1>1, <1>5, <1>8 DEF IsObject
<1>10. \A k \in hits : new[k] = ToInt(Lookup(obj.raw, k) + c) OBVIOUS
<1> HIDE DEF new
<1> QED BY <1>1, <1>6, <1>7, <1>9, <1>10

(* reset leaves every counter of the set at zero; only the base class's      *)
(* zeroes the total and the values too.                                      *)
LEMMA ResetEffect ==
  ASSUME NEW s \in SetName, NEW obj, IsObject(s, obj)
  PROVE  /\ IsObject(s, Reset(s, obj))
         /\ \A k \in Feature(s) : Lookup(Reset(s, obj).raw, k) = 0
         /\ DOMAIN Reset(s, obj).feat = DOMAIN obj.feat
         /\ s = "full" =>
              /\ DOMAIN Reset(s, obj).raw = DOMAIN obj.raw
              /\ Reset(s, obj).instruction_tot_contrib = 0
              /\ \A k \in DOMAIN Reset(s, obj).feat : Reset(s, obj).feat[k] = Ratio(0, 0)
<1>1. 0 \in Ints BY IntMaxAssumption DEF Ints, IntMin
<1>2. CASE s \in {"fan19", "grewe11"}
  <2> DEFINE raw == Update(obj.raw, Zeros(Feature(s)))
  <2>1. Reset(s, obj) = [obj EXCEPT !.raw = raw]
    BY <1>2 DEF Reset, Feature, Fan19Reset, Grewe11Reset
  <2>2. IsMap(Zeros(Feature(s)), Feature(s), Ints) BY <1>1 DEF IsMap, Zeros
  <2>3. IsMap(raw, Feature(s), Ints) BY <2>2, UpdateMap DEF IsObject
  <2>4. \A k \in Feature(s) : Lookup(raw, k) = 0 BY DEF Lookup, Update, Zeros
  <2>5. Reset(s, obj) = [raw |-> raw, feat |-> obj.feat,
                         instruction_tot_contrib |-> obj.instruction_tot_contrib]
    BY <2>1 DEF IsObject
  <2>6. IsObject(s, Reset(s, obj))
    <3> HIDE DEF raw
    <3> QED BY <2>3, <2>5 DEF IsObject
  <2> HIDE DEF raw
  <2> QED BY <1>2, <2>4, <2>5, <2>6
<1>3. CASE s = "full"
  <2> DEFINE feat == [k \in DOMAIN obj.feat |-> Ratio(0, 0)]
  <2>1. Reset(s, obj) = [raw |-> Zeros(DOMAIN obj.raw), feat |-> feat,
                         instruction_tot_contrib |-> 0]
    BY <1>3 DEF Reset, BaseReset
  <2>2. IsMap(Zeros(DOMAIN obj.raw), Feature(s), Ints)
    BY <1>1 DEF IsMap, Zeros, IsObject
  <2>3. IsMap(feat, Feature(s), Quotient)
    BY DEF IsMap, Ratio, Quotient, IsObject
  <2>4. IsObject(s, Reset(s, obj))
    <3> HIDE DEF feat
    <3> QED BY <1>1, <2>1, <2>2, <2>3 DEF IsObject
  <2>5. \A k : Lookup(Zeros(DOMAIN obj.raw), k) = 0 BY DEF Lookup, Zeros
  <2>6. DOMAIN Zeros(DOMAIN obj.raw) = DOMAIN obj.raw BY DEF Zeros
  <2>7. DOMAIN feat = DOMAIN obj.feat /\ \A k \in DOMAIN feat : feat[k] = Ratio(0, 0)
    OBVIOUS
  <2> HIDE DEF feat
  <2> QED BY <2>1, <2>4, <2>5, <2>6, <2>7
<1> QED BY <1>2, <1>3 DEF SetName

(* normalize writes values only.                                             *)
LEMMA NormalizeEffect ==
  ASSUME NEW s \in SetName, NEW obj, IsObject(s, obj),
         NEW cma \in [mem_access : Nat, mem_coalesced : Nat]
  PROVE  /\ IsObject(s, Normalize(s, obj, cma))
         /\ Normalize(s, obj, cma).raw = obj.raw
         /\ s = "full" =>
              /\ DOMAIN Normalize(s, obj, cma).feat = DOMAIN obj.feat \cup DOMAIN obj.raw
              /\ \A k \in DOMAIN obj.raw : Normalize(s, obj, cma).feat[k] =
                    Ratio(obj.raw[k], obj.instruction_tot_contrib)
<1> DEFINE value(k) == Ratio(obj.raw[k], obj.instruction_tot_contrib)
           coal == Ratio(cma.mem_coalesced, cma.mem_access)
           new == IF s = "grewe11" THEN [k \in {"mem_coal"} |-> coal]
                                   ELSE [k \in DOMAIN obj.raw |-> value(k)]
<1>0. Ints \subseteq Int BY IntMaxAssumption DEF Ints, IntMin
<1>1. Normalize(s, obj, cma) = [obj EXCEPT !.feat = Update(obj.feat, new)]
  BY DEF Normalize, Grewe11Normalize, BaseNormalize
<1>2. IsMap(new, Feature(s), Quotient)
  <2>1. CASE s = "grewe11"
    <3>1. coal \in Quotient BY DEF Ratio, Quotient
    <3>2. "mem_coal" \in Feature(s) BY <2>1 DEF Feature, Grewe11Features
    <3> HIDE DEF coal
    <3> QED BY <2>1, <3>1, <3>2 DEF IsMap
  <2>2. CASE s # "grewe11"
    <3>1. \A k \in DOMAIN obj.raw : value(k) \in Quotient
      BY <1>0 DEF Ratio, Quotient, IsObject, IsMap
    <3>2. DOMAIN obj.raw \subseteq Feature(s) BY DEF IsObject, IsMap
    <3> HIDE DEF value
    <3> QED BY <2>2, <3>1, <3>2 DEF IsMap
  <2> QED BY <2>1, <2>2
<1>3. IsMap(Update(obj.feat, new), Feature(s), Quotient)
  <2> HIDE DEF new
  <2> QED BY <1>2, UpdateMap DEF IsObject
<1>4. Normalize(s, obj, cma) =
        [raw |-> obj.raw, feat |-> Update(obj.feat, new),
         instruction_tot_contrib |-> obj.instruction_tot_contrib]
  <2> HIDE DEF new
  <2> QED BY <1>1 DEF IsObject
<1>5. IsObject(s, Normalize(s, obj, cma))
  <2> HIDE DEF new
  <2> QED BY <1>3, <1>4 DEF IsObject
<1>6. ASSUME s = "full"
      PROVE  /\ DOMAIN Update(obj.feat, new) = DOMAIN obj.feat \cup DOMAIN obj.raw
             /\ \A k \in DOMAIN obj.raw : Update(obj.feat, new)[k] = value(k)
  BY <1>6 DEF Update
<1> HIDE DEF new
<1> QED BY <1>4, <1>5, <1>6

-----------------------------------------------------------------------------
(* The reference counts as recurrences.                                      *)

LEMMA TallyStep ==
  ASSUME NEW a \in Analysis, NEW f \in Function, NEW s \in SetName, NEW k \in Feature(s)
  PROVE  /\ Tally[a][f][s][k] \in [0..Len(Body[f]) -> Int]
         /\ Tally[a][f][s][k][0] = 0
         /\ \A n \in 1..Len(Body[f]) :
              Tally[a][f][s][k][n] =
                Tally[a][f][s][k][n - 1] + IF k \in Expected(s, Body[f][n])
                                           THEN Contribution[a][f][n] ELSE 0
BY TallyAssumption DEF RunningSum

LEMMA TotalStep ==
  ASSUME NEW a \in Analysis, NEW f \in Function
  PROVE  /\ Total[a][f] \in [0..Len(Body[f]) -> Int]
         /\ Total[a][f][0] = 0
         /\ \A n \in 1..Len(Body[f]) :
              Total[a][f][n] = Total[a][f][n - 1] + Contribution[a][f][n]
BY TallyAssumption DEF RunningSum

LEMMA CallTallyStep ==
  ASSUME NEW a \in Analysis, NEW f \in Function
  PROVE  /\ CallTally[a][f] \in [0..Len(Body[f]) -> Int]
         /\ CallTally[a][f][0] = 0
         /\ \A n \in 1..Len(Body[f]) :
              CallTally[a][f][n] =
                CallTally[a][f][n - 1] + IF Body[f][n].call = "direct"
                                         THEN Contribution[a][f][n] ELSE 0
BY TallyAssumption DEF RunningSum

-----------------------------------------------------------------------------
(* Effect of one run's steps on what it has counted.                         *)

(* A reset object has counted nothing.                                       *)
LEMMA ResetTally ==
  ASSUME NEW a \in Analysis, NEW f \in Function, NEW s \in SetName,
         NEW obj, IsObject(s, obj), NEW run,
         run.an = a, run.fun = f, run.set = s, run.raw = Reset(s, obj).raw
  PROVE  TallyAt(run, 0)
<1>1. \A k \in Feature(s) : Lookup(run.raw, k) = 0 BY ResetEffect
<1>2. \A k \in Feature(s) : TallyOf(run, k)[0] = 0 BY TallyStep DEF TallyOf
<1>3. Exact(s) \subseteq Feature(s) BY DEF Exact
<1>4. ASSUME s # "full" PROVE CountedOnce(run, 0)
  <2>1. MathFeature(s) \in Feature(s) BY <1>4, CallHits
  <2>2. Lookup(run.raw, "barrier") = 0
    <3>1. IsMap(run.raw, Feature(s), Ints) BY ResetEffect DEF IsObject
    <3>2. CASE s = "fan19"
      BY <3>1, <3>2 DEF IsMap, Lookup, Feature, Fan19Features
    <3>3. CASE s = "grewe11"
      BY <1>1, <3>3 DEF Feature, Grewe11Features
    <3> QED BY <1>4, <3>2, <3>3 DEF SetName
  <2>3. CallTally[a][f][0] = 0 BY CallTallyStep
  <2> QED BY <1>1, <1>2, <2>1, <2>2, <2>3 DEF CountedOnce
<1> QED BY <1>1, <1>2, <1>3, <1>4, ToIntZero DEF TallyAt

(* An object that has counted n - 1 instructions has, after eval, counted n. *)
LEMMA AddTally ==
  ASSUME NEW a \in Analysis, NEW f \in Function, NEW s \in SetName,
         NEW n \in 1..Len(Body[f]), NEW obj, IsObject(s, obj),
         NEW name \in NameReads(Body[f][n]), NEW run, NEW next,
         run.an = a, run.fun = f, run.set = s, run.raw = obj.raw,
         next.an = a, next.fun = f, next.set = s,
         next.raw = Add(obj, Hits(s, Body[f][n], name), Contribution[a][f][n]).raw,
         TallyAt(run, n - 1)
  PROVE  TallyAt(next, n)
<1> DEFINE hits == Hits(s, Body[f][n], name)  c == Contribution[a][f][n]
           t(k) == Tally[a][f][s][k]
<1>1. c \in Ints /\ c \in Int BY ConstantsAssumption, IntMaxAssumption DEF Ints, IntMin
<1>2. \A k : Lookup(next.raw, k) = IF k \in hits THEN ToInt(Lookup(obj.raw, k) + c)
                                                ELSE Lookup(obj.raw, k)
  <2>1. hits \subseteq Feature(s) /\ IsFiniteSet(hits) BY HitsType
  <2>2. next.raw = Add(obj, hits, c).raw OBVIOUS
  <2> HIDE DEF hits, c
  <2> QED BY <1>1, <2>1, <2>2, AddEffect
<1>3. \A k : TallyOf(run, k) = t(k) /\ TallyOf(next, k) = t(k) BY DEF TallyOf
<1>4. ASSUME NEW k \in Feature(s)
      PROVE  /\ t(k)[n - 1] \in Int /\ t(k)[n] \in Int
             /\ t(k)[n] = t(k)[n - 1] + IF k \in Expected(s, Body[f][n]) THEN c ELSE 0
  <2>1. n - 1 \in 0..Len(Body[f]) /\ n \in 0..Len(Body[f])
    <3>1. Len(Body[f]) \in Nat BY ConstantsAssumption
    <3> QED BY <3>1
  <2>2. /\ t(k) \in [0..Len(Body[f]) -> Int]
        /\ \A m \in 1..Len(Body[f]) : t(k)[m] = t(k)[m - 1] +
             IF k \in Expected(s, Body[f][m]) THEN Contribution[a][f][m] ELSE 0
    BY TallyStep
  <2> HIDE DEF t
  <2> QED BY <2>1, <2>2
<1>5. \A k : Lookup(obj.raw, k) \in Int BY LookupInt DEF IsObject
<1> HIDE DEF hits, c, t
<1>6. ASSUME NEW k \in Exact(s)
      PROVE  Lookup(next.raw, k) = ToInt(TallyOf(next, k)[n])
  <2>1. k \in Feature(s) BY DEF Exact
  <2>2. k \in hits <=> k \in Expected(s, Body[f][n]) BY HitsExpected DEF hits
  <2>3. Lookup(obj.raw, k) = ToInt(t(k)[n - 1]) BY <1>3 DEF TallyAt
  <2>4. CASE k \in hits
    <3>1. ToInt(ToInt(t(k)[n - 1]) + c) = ToInt(t(k)[n - 1] + c)
      BY <1>1, <1>4, <2>1, ToIntAdd
    <3> QED BY <1>2, <1>3, <1>4, <2>1, <2>2, <2>3, <2>4, <3>1
  <2>5. CASE k \notin hits
    BY <1>2, <1>3, <1>4, <2>1, <2>2, <2>3, <2>5
  <2> QED BY <2>4, <2>5
<1>7. ASSUME s # "full" PROVE CountedOnce(next, n)
  <2> DEFINE m == MathFeature(s)  i == t(m)  d == CallTally[a][f]
             x == Lookup(obj.raw, m)  y == Lookup(obj.raw, "barrier")
             x1 == Lookup(next.raw, m)  y1 == Lookup(next.raw, "barrier")
             inst == Body[f][n]
  <2>1. /\ m \in Feature(s)
        /\ m \in Expected(s, inst) <=> inst.call = "intrinsic" /\ inst.known
        /\ m \in hits <=> IsMathCall(inst, name)
        /\ "barrier" \in hits => inst.call = "direct" /\ m \notin hits
    BY <1>7, CallHits DEF hits
  <2>2. TallyOf(run, m) = i /\ TallyOf(next, m) = i BY <1>3
  <2>3. SUFFICES ASSUME Fits(i, d, a, f)
                 PROVE  0 <= y1 /\ 0 <= i[n] /\ i[n] <= x1 /\ x1 + y1 <= i[n] + d[n]
    BY <2>2 DEF CountedOnce
  <2>4. 0 <= y /\ 0 <= i[n - 1] /\ i[n - 1] <= x /\ x + y <= i[n - 1] + d[n - 1]
    <3>1. CountedOnce(run, n - 1) BY <1>7 DEF TallyAt
    <3> QED BY <2>2, <2>3, <3>1 DEF CountedOnce
  <2>5. c >= 0 /\ i[n] + d[n] <= IntMax BY <2>3 DEF Fits, c
  <2>6. /\ i[n - 1] \in Int /\ i[n] \in Int
        /\ i[n] = i[n - 1] + IF m \in Expected(s, inst) THEN c ELSE 0
    BY <1>4, <2>1
  <2>7. /\ d[n - 1] \in Int /\ d[n] \in Int
        /\ d[n] = d[n - 1] + IF inst.call = "direct" THEN c ELSE 0
    <3>1. n - 1 \in 0..Len(Body[f]) /\ n \in 0..Len(Body[f])
      <4>1. Len(Body[f]) \in Nat BY ConstantsAssumption
      <4> QED BY <4>1
    <3> QED BY <3>1, CallTallyStep DEF c
  <2>8. x \in Int /\ y \in Int BY <1>5
  <2>9. /\ x1 = IF m \in hits THEN ToInt(x + c) ELSE x
        /\ y1 = IF "barrier" \in hits THEN ToInt(y + c) ELSE y
    BY <1>2
  <2> DEFINE i0 == i[n - 1]  i1 == i[n]  d0 == d[n - 1]  d1 == d[n]
  <2>10. /\ 0 <= y /\ 0 <= i0 /\ i0 <= x /\ x + y <= i0 + d0
         /\ i1 + d1 <= IntMax /\ c >= 0 /\ c \in Int
         /\ i0 \in Int /\ i1 \in Int /\ d0 \in Int /\ d1 \in Int
         /\ i1 = i0 + (IF m \in Expected(s, inst) THEN c ELSE 0)
         /\ d1 = d0 + (IF inst.call = "direct" THEN c ELSE 0)
    BY <1>1, <2>4, <2>5, <2>6, <2>7
  <2> HIDE DEF m, i, d, x, y, x1, y1, inst, i0, i1, d0, d1
  <2>11. ASSUME NEW z \in Int, 0 <= z, z <= IntMax PROVE ToInt(z) = z
    BY <2>11, IntMaxAssumption DEF ToInt, IsInt, IntMin
  <2>12. ASSUME m \in hits
         PROVE  0 <= y1 /\ 0 <= i1 /\ i1 <= x1 /\ x1 + y1 <= i1 + d1
    <3>1. "barrier" \notin hits BY <2>1, <2>12
    <3>2. \/ m \in Expected(s, inst) /\ inst.call # "direct"
          \/ inst.call = "direct" /\ m \notin Expected(s, inst)
      BY <2>1, <2>12 DEF IsMathCall
    <3>3. i1 + d1 = i0 + d0 + c /\ i1 <= i0 + c
      <4>1. \/ i1 = i0 + c /\ d1 = d0
            \/ i1 = i0 /\ d1 = d0 + c
        BY <2>10, <3>2
      <4> QED BY <2>10, <4>1
    <3>4. 0 <= x + c /\ x + c <= IntMax
      BY <2>8, <2>10, <3>3, IntMaxAssumption
    <3>5. x1 = x + c /\ y1 = y BY <2>8, <2>9, <2>10, <2>11, <2>12, <3>1, <3>4
    <3> QED BY <2>8, <2>10, <3>3, <3>5
  <2>13. ASSUME m \notin hits, "barrier" \in hits
         PROVE  0 <= y1 /\ 0 <= i1 /\ i1 <= x1 /\ x1 + y1 <= i1 + d1
    <3>1. inst.call = "direct" /\ m \notin Expected(s, inst) BY <2>1, <2>13
    <3>2. i1 = i0 /\ d1 = d0 + c BY <2>10, <3>1
    <3>3. 0 <= y + c /\ y + c <= IntMax
      BY <2>8, <2>10, <3>2, IntMaxAssumption
    <3>4. x1 = x /\ y1 = y + c BY <2>8, <2>9, <2>10, <2>11, <2>13, <3>3
    <3> QED BY <2>8, <2>10, <3>2, <3>4
  <2>14. ASSUME m \notin hits, "barrier" \notin hits
         PROVE  0 <= y1 /\ 0 <= i1 /\ i1 <= x1 /\ x1 + y1 <= i1 + d1
    <3>1. m \notin Expected(s, inst) BY <2>1, <2>14 DEF IsMathCall
    <3>2. i1 = i0 /\ d1 >= d0
      <4>1. i1 = i0 BY <2>10, <3>1
      <4>2. CASE inst.call = "direct" BY <2>10, <4>1, <4>2
      <4>3. CASE inst.call # "direct" BY <2>10, <4>1, <4>3
      <4> QED BY <4>2, <4>3
    <3>3. x1 = x /\ y1 = y BY <2>9, <2>14
    <3>4. /\ 0 <= y /\ 0 <= i0 /\ i0 <= x /\ x + y <= i0 + d0
          /\ i0 \in Int /\ d0 \in Int /\ d1 \in Int
      BY <2>10
    <3>5. x + y <= i0 + d1 BY <2>8, <3>2, <3>4
    <3> QED BY <3>2, <3>3, <3>4, <3>5
  <2>15. 0 <= y1 /\ 0 <= i1 /\ i1 <= x1 /\ x1 + y1 <= i1 + d1
    BY <2>12, <2>13, <2>14
  <2> QED BY <2>15 DEF i1, d1
<1> QED BY <1>6, <1>7 DEF TallyAt

-----------------------------------------------------------------------------
(* The invariant.                                                            *)

(* What a returned run has to satisfy for the three properties.              *)
ResultOK(r) ==
  /\ r.an \in Analysis /\ r.fun \in Function /\ r.set \in SetName
  /\ IsMap(r.raw, Feature(r.set), Ints)
  /\ IsMap(r.feat, Feature(r.set), Quotient)
  /\ TallyAt(r, Len(Body[r.fun]))
  /\ r.set = "full" =>
       \A k \in DOMAIN r.feat :
         r.feat[k] = Ratio(ToInt(TallyOf(r, k)[Len(Body[r.fun])]),
                           ToInt(Total[r.an][r.fun][Len(Body[r.fun])]))

LEMMA InitInv == Init => Inv
<1> SUFFICES ASSUME Init PROVE Inv OBVIOUS
<1>1. ASSUME NEW s \in SetName, NEW total \in Ints PROVE IsObject(s, NewObject(total))
  BY DEF IsObject, NewObject, NoFeatures, IsMap
<1>2. PICK total \in [SetName -> InitialTotal] : objs = [s \in SetName |-> NewObject(total[s])]
  BY DEF Init
<1>3. \A s \in SetName : IsObject(s, objs[s]) BY <1>1, <1>2, ConstantsAssumption
<1>4. features \in [Analysis -> SetName \cup {Null}] BY ConstantsAssumption DEF Init
<1>5. phase = "idle" /\ result = Null BY DEF Init
<1>6. TypeOK BY <1>2, <1>3, <1>4, <1>5 DEF TypeOK
<1>7. FullNamesValues BY <1>2 DEF FullNamesValues, NewObject, NoFeatures, SetName
<1>8. InProgress BY <1>5 DEF InProgress
<1>9. RawIsOwnTally /\ CallsCountOnce /\ FullFeatIsOwnShare
  BY <1>5 DEF RawIsOwnTally, OwnTally, CallsCountOnce, FullFeatIsOwnShare
<1> QED BY <1>6, <1>7, <1>8, <1>9 DEF Inv

LEMMA SetFeatureSetInv ==
  ASSUME Inv, NEW a \in Analysis, NEW key \in SelectableKey, SetFeatureSet(a, key)
  PROVE  Inv'
<1>1. phase' = "idle" /\ UNCHANGED <<objs, call, result>> BY DEF SetFeatureSet
<1>2. features' \in [Analysis -> SetName \cup {Null}]
  BY DEF Inv, TypeOK, SetFeatureSet
<1>3. TypeOK' BY <1>1, <1>2 DEF Inv, TypeOK
<1>4. InProgress' BY <1>1 DEF InProgress
<1>5. FullNamesValues' BY <1>1 DEF Inv, FullNamesValues
<1>6. RawIsOwnTally' /\ CallsCountOnce' /\ FullFeatIsOwnShare'
  BY <1>1 DEF Inv, RawIsOwnTally, OwnTally, CallsCountOnce, FullFeatIsOwnShare
<1> QED BY <1>3, <1>4, <1>5, <1>6 DEF Inv

LEMMA CrashInv == ASSUME Inv, Crash PROVE Inv'
<1>1. phase' = "crashed" /\ UNCHANGED <<objs, features, call, result>> BY DEF Crash
<1>2. TypeOK' BY <1>1 DEF Inv, TypeOK
<1>3. InProgress' BY <1>1 DEF InProgress
<1>4. FullNamesValues' BY <1>1 DEF Inv, FullNamesValues
<1>5. RawIsOwnTally' /\ CallsCountOnce' /\ FullFeatIsOwnShare'
  BY <1>1 DEF Inv, RawIsOwnTally, OwnTally, CallsCountOnce, FullFeatIsOwnShare
<1> QED BY <1>2, <1>3, <1>4, <1>5 DEF Inv

(* A change to one object keeps the objects well typed.                      *)
LEMMA ObjsType ==
  ASSUME TypeOK, NEW s \in SetName, NEW obj, IsObject(s, obj),
         objs' = [objs EXCEPT ![s] = obj]
  PROVE  /\ objs' = [t \in SetName |-> objs'[t]]
         /\ \A t \in SetName : IsObject(t, objs'[t])
         /\ objs'[s] = obj
         /\ s # "full" => objs'["full"] = objs["full"]
<1>1. objs = [t \in SetName |-> objs[t]] /\ \A t \in SetName : IsObject(t, objs[t])
  BY DEF TypeOK
<1>2. objs' = [t \in SetName |-> IF t = s THEN obj ELSE objs[t]] BY <1>1
<1>3. "full" \in SetName BY DEF SetName
<1> HIDE DEF SetName
<1> QED BY <1>1, <1>2, <1>3

LEMMA RunInv ==
  ASSUME Inv, NEW a \in Analysis, NEW f \in Function, Run(a, f)
  PROVE  Inv'
<1>1. CASE Crash BY <1>1, CrashInv
<1>2. CASE ~Crash
  <2> DEFINE s == features[a]  obj == Reset(s, objs[s])
  <2>1. /\ s # Null
        /\ objs' = [objs EXCEPT ![s] = obj]
        /\ features' = features
        /\ IF f \in Declaration
           THEN result' = Return(a, f, obj) /\ phase' = phase /\ call' = call
           ELSE /\ phase' = "extract"
                /\ call' = [an |-> a, fun |-> f, pos |-> 1]
                /\ result' = result
    BY <1>2 DEF Run
  <2>2. s \in SetName BY <2>1 DEF Inv, TypeOK
  <2>3. IsObject(s, objs[s]) BY <2>2 DEF Inv, TypeOK
  <2>4. IsObject(s, obj) BY <2>2, <2>3, ResetEffect
  <2>5. /\ objs' = [t \in SetName |-> objs'[t]]
        /\ \A t \in SetName : IsObject(t, objs'[t])
        /\ objs'[s] = obj
        /\ s # "full" => objs'["full"] = objs["full"]
    <3> HIDE DEF s, obj
    <3> QED BY <2>1, <2>2, <2>4, ObjsType DEF Inv
  <2>6. Len(Body[f]) \in Nat BY ConstantsAssumption
  <2>7. FullNamesValues'
    <3>1. CASE s = "full"
      BY <2>2, <2>3, <2>5, <3>1, ResetEffect DEF Inv, FullNamesValues
    <3>2. CASE s # "full"
      BY <2>5, <3>2 DEF Inv, FullNamesValues
    <3> QED BY <3>1, <3>2
  <2>8. ASSUME NEW run, run = Return(a, f, obj)
        PROVE  TallyAt(run, 0)
    <3>1. run.an = a /\ run.fun = f /\ run.set = s /\ run.raw = Reset(s, objs[s]).raw
      BY <2>8 DEF Return
    <3> HIDE DEF s
    <3> QED BY <2>2, <2>3, <3>1, ResetTally
  <2>9. CASE f \in Declaration
    <3>1. phase' = "idle" BY <2>1, <2>9 DEF Run
    <3>2. result' = Return(a, f, obj) BY <2>1, <2>9
    <3>3. Len(Body[f]) = 0 BY <2>9, ConstantsAssumption
    <3>4. /\ result'.an = a /\ result'.fun = f /\ result'.set = s
          /\ result'.raw = obj.raw /\ result'.feat = obj.feat
      BY <3>2 DEF Return
    <3>5. TallyAt(result', 0) BY <2>8, <3>2
    <3>6. ASSUME s = "full", NEW k \in DOMAIN obj.feat
          PROVE  obj.feat[k] = Ratio(ToInt(TallyOf(result', k)[0]), ToInt(Total[a][f][0]))
      <4>1. obj.feat[k] = Ratio(0, 0) BY <2>2, <2>3, <3>6, ResetEffect
      <4>2. k \in Feature(s) BY <2>4, <3>6 DEF IsObject, IsMap
      <4>3. TallyOf(result', k)[0] = 0 BY <2>2, <3>4, <4>2, TallyStep DEF TallyOf
      <4>4. Total[a][f][0] = 0 BY TotalStep
      <4> QED BY <4>1, <4>3, <4>4, ToIntZero
    <3>7. ResultOK(result')
      <4>1. IsMap(obj.raw, Feature(s), Ints) /\ IsMap(obj.feat, Feature(s), Quotient)
        BY <2>4 DEF IsObject
      <4> HIDE DEF s, obj
      <4> QED BY <2>2, <3>3, <3>4, <3>5, <3>6, <4>1 DEF ResultOK
    <3>8. RawIsOwnTally' /\ CallsCountOnce' /\ FullFeatIsOwnShare'
      BY <3>7 DEF RawIsOwnTally, OwnTally, CallsCountOnce, FullFeatIsOwnShare, ResultOK, TallyAt
    <3>9. TypeOK' BY <2>1, <2>5, <3>1, <3>7 DEF Inv, TypeOK, ResultOK
    <3> QED BY <2>7, <3>1, <3>8, <3>9 DEF Inv, InProgress
  <2>10. CASE f \notin Declaration
    <3>1. /\ phase' = "extract" /\ result' = result
          /\ call' = [an |-> a, fun |-> f, pos |-> 1]
      BY <2>1, <2>10
    <3>2. IsCall(call)' BY <2>1, <2>6, <2>10, <3>1 DEF IsCall
    <3>3. TypeOK' BY <2>1, <2>5, <3>1, <3>2 DEF Inv, TypeOK
    <3>4. InProgress'
      <4>1. Set' = s /\ Target' = obj BY <2>1, <2>5, <3>1 DEF Set, Target
      <4>2. Return(call.an, call.fun, Target)' = Return(a, f, obj)
        BY <2>1, <3>1, <4>1 DEF Return
      <4>3. TallyAt(Return(call.an, call.fun, Target), call.pos - 1)'
        BY <2>8, <3>1, <4>2
      <4>4. s = "full" => obj.instruction_tot_contrib = ToInt(Total[a][f][0])
        BY <2>2, <2>3, ResetEffect, TotalStep, ToIntZero
      <4> HIDE DEF s, obj
      <4> QED BY <3>1, <4>1, <4>3, <4>4 DEF InProgress
    <3>5. RawIsOwnTally' /\ CallsCountOnce' /\ FullFeatIsOwnShare'
      BY <3>1 DEF Inv, RawIsOwnTally, OwnTally, CallsCountOnce, FullFeatIsOwnShare
    <3> QED BY <2>7, <3>3, <3>4, <3>5 DEF Inv
  <2> QED BY <2>9, <2>10
<1> QED BY <1>1, <1>2

LEMMA EvalInv == ASSUME Inv, Eval PROVE Inv'
<1>1. CASE Crash BY <1>1, CrashInv
<1>2. CASE ~Crash
  <2> DEFINE a == call.an  f == call.fun  n == call.pos  s == features[a]
  <2>1. /\ IsCall(call) /\ phase = "extract" /\ n <= Len(Body[f]) BY DEF Inv, TypeOK, Eval
  <2>2. /\ a \in Analysis /\ f \in Function /\ f \notin Declaration
        /\ n \in Nat \ {0} /\ s \in SetName
        /\ call = [an |-> a, fun |-> f, pos |-> n]
    BY <2>1 DEF IsCall, Inv, TypeOK
  <2>3. Len(Body[f]) \in Nat BY <2>2, ConstantsAssumption
  <2>4. n \in 1..Len(Body[f]) BY <2>1, <2>2, <2>3
  <2>5. PICK name \in NameReads(Body[f][n]) :
          objs' = [objs EXCEPT ![s] = Add(@, Hits(s, Body[f][n], name), Contribution[a][f][n])]
    BY <1>2 DEF Eval, Set, Inst
  <2>6. /\ call' = [call EXCEPT !.pos = @ + 1]
        /\ UNCHANGED <<features, phase, result>>
    BY <1>2 DEF Eval
  <2>7. call' = [an |-> a, fun |-> f, pos |-> n + 1] BY <2>2, <2>6
  <2> DEFINE hits == Hits(s, Body[f][n], name)  c == Contribution[a][f][n]
             obj == Add(objs[s], hits, c)
  <2>8. IsObject(s, objs[s]) BY <2>2 DEF Inv, TypeOK
  <2>9. hits \subseteq Feature(s) /\ IsFiniteSet(hits) /\ (s = "full" => Cardinality(hits) = 1)
    BY <2>2, <2>4, HitsType
  <2>10. c \in Ints /\ c \in Int
    BY <2>2, <2>4, ConstantsAssumption, IntMaxAssumption DEF Ints, IntMin
  <2>11. /\ IsObject(s, obj)
         /\ obj.feat = objs[s].feat
         /\ DOMAIN obj.raw = DOMAIN objs[s].raw \cup hits
         /\ obj.instruction_tot_contrib =
              ToInt(objs[s].instruction_tot_contrib + Cardinality(hits) * c)
    <3> HIDE DEF hits, c, s
    <3> QED BY <2>2, <2>8, <2>9, <2>10, AddEffect
  <2>12. objs' = [objs EXCEPT ![s] = obj] BY <2>2, <2>5 DEF Inv, TypeOK
  <2>13. /\ objs' = [t \in SetName |-> objs'[t]]
         /\ \A t \in SetName : IsObject(t, objs'[t])
         /\ objs'[s] = obj
         /\ s # "full" => objs'["full"] = objs["full"]
    <3> HIDE DEF obj, s
    <3> QED BY <2>2, <2>11, <2>12, ObjsType DEF Inv
  <2>14. IsCall(call)' BY <2>1, <2>2, <2>3, <2>4, <2>6, <2>7 DEF IsCall
  <2>15. TypeOK' BY <2>6, <2>13, <2>14 DEF Inv, TypeOK
  <2>16. FullNamesValues'
    <3>1. CASE s = "full" BY <2>11, <2>13, <3>1 DEF Inv, FullNamesValues
    <3>2. CASE s # "full" BY <2>13, <3>2 DEF Inv, FullNamesValues
    <3> QED BY <3>1, <3>2
  <2>17. RawIsOwnTally' /\ CallsCountOnce' /\ FullFeatIsOwnShare'
    BY <2>6 DEF Inv, RawIsOwnTally, OwnTally, CallsCountOnce, FullFeatIsOwnShare
  <2>18. Set' = s /\ Target' = obj BY <2>6, <2>7, <2>13 DEF Set, Target
  <2>19. TallyAt(Return(call.an, call.fun, Target), call.pos - 1)'
    <3> DEFINE run == Return(a, f, objs[s])
               next == [an |-> a, fun |-> f, set |-> s, raw |-> obj.raw,
                        feat |-> obj.feat]
    <3>1. TallyAt(run, n - 1) BY <2>1 DEF Inv, InProgress, Target, Set
    <3>2. Return(call.an, call.fun, Target)' = next
      BY <2>6, <2>7, <2>18 DEF Return
    <3>3. /\ run.an = a /\ run.fun = f /\ run.set = s /\ run.raw = objs[s].raw
          /\ next.an = a /\ next.fun = f /\ next.set = s /\ next.raw = obj.raw
      BY DEF Return
    <3>4. TallyAt(next, n)
      <4> HIDE DEF run, next, a, f, n, s
      <4> QED BY <2>2, <2>4, <2>8, <3>1, <3>3, AddTally
    <3>5. call'.pos - 1 = n BY <2>2, <2>7
    <3> QED BY <3>2, <3>4, <3>5
  <2>20. ASSUME s = "full"
         PROVE  obj.instruction_tot_contrib = ToInt(Total[a][f][n])
    <3>1. objs[s].instruction_tot_contrib = ToInt(Total[a][f][n - 1])
      BY <2>1, <2>20 DEF Inv, InProgress, Target, Set
    <3>2. /\ Total[a][f] \in [0..Len(Body[f]) -> Int]
          /\ Total[a][f][n] = Total[a][f][n - 1] + c
      BY <2>2, <2>4, TotalStep
    <3>3. Total[a][f][n - 1] \in Int
      <4>1. n - 1 \in 0..Len(Body[f]) BY <2>3, <2>4
      <4> QED BY <3>2, <4>1
    <3>4. Cardinality(hits) * c = c BY <2>9, <2>10, <2>20
    <3>5. ToInt(ToInt(Total[a][f][n - 1]) + c) = ToInt(Total[a][f][n - 1] + c)
      BY <2>10, <3>3, ToIntAdd
    <3> QED BY <2>11, <3>1, <3>2, <3>4, <3>5
  <2>21. InProgress'
    <3>1. call'.an = a /\ call'.fun = f /\ call'.pos - 1 = n BY <2>2, <2>7
    <3> HIDE DEF a, f, n, s, obj
    <3> QED BY <2>18, <2>19, <2>20, <3>1 DEF InProgress
  <2> QED BY <2>15, <2>16, <2>17, <2>21 DEF Inv
<1> QED BY <1>1, <1>2

LEMMA FinalizeInv == ASSUME Inv, Finalize PROVE Inv'
<1>1. CASE Crash BY <1>1, CrashInv
<1>2. CASE ~Crash
  <2> DEFINE a == call.an  f == call.fun  s == features[a]  last == Len(Body[f])
             obj == Normalize(s, objs[s], Coalesced[f])
  <2>1. IsCall(call) /\ phase = "extract" /\ call.pos > last BY DEF Inv, TypeOK, Finalize
  <2>2. /\ a \in Analysis /\ f \in Function /\ s \in SetName
        /\ call.pos \in Nat /\ call.pos <= last + 1
    BY <2>1 DEF IsCall, Inv, TypeOK
  <2>3. last \in Nat BY <2>2, ConstantsAssumption
  <2>4. call.pos - 1 = last BY <2>1, <2>2, <2>3
  <2>5. /\ objs' = [objs EXCEPT ![s] = obj]
        /\ result' = Return(a, f, obj)
        /\ phase' = "idle" /\ call' = Null /\ features' = features
    BY <1>2 DEF Finalize, Set, Target
  <2>6. IsObject(s, objs[s]) BY <2>2 DEF Inv, TypeOK
  <2>7. /\ IsObject(s, obj)
        /\ obj.raw = objs[s].raw
        /\ s = "full" =>
             /\ DOMAIN obj.feat = DOMAIN objs[s].feat \cup DOMAIN objs[s].raw
             /\ \A k \in DOMAIN objs[s].raw : obj.feat[k] =
                  Ratio(objs[s].raw[k], objs[s].instruction_tot_contrib)
    <3>1. Coalesced[f] \in [mem_access : Nat, mem_coalesced : Nat]
      BY <2>2, ConstantsAssumption
    <3> HIDE DEF s
    <3> QED BY <2>2, <2>6, <3>1, NormalizeEffect
  <2>8. /\ objs' = [t \in SetName |-> objs'[t]]
        /\ \A t \in SetName : IsObject(t, objs'[t])
        /\ objs'[s] = obj
        /\ s # "full" => objs'["full"] = objs["full"]
    <3> HIDE DEF obj, s
    <3> QED BY <2>2, <2>5, <2>7, ObjsType DEF Inv
  <2>9. FullNamesValues'
    <3>1. CASE s = "full" BY <2>7, <2>8, <3>1 DEF Inv, FullNamesValues
    <3>2. CASE s # "full" BY <2>8, <3>2 DEF Inv, FullNamesValues
    <3> QED BY <3>1, <3>2
  <2>10. /\ result'.an = a /\ result'.fun = f /\ result'.set = s
         /\ result'.raw = obj.raw /\ result'.feat = obj.feat
    BY <2>5 DEF Return
  <2>11. TallyAt(result', last)
    <3>1. TallyAt(Return(a, f, objs[s]), last)
      BY <2>1, <2>4 DEF Inv, InProgress, Target, Set
    <3> DEFINE run == Return(a, f, objs[s])
    <3>2. /\ result'.an = run.an /\ result'.fun = run.fun /\ result'.set = run.set
          /\ result'.raw = run.raw
      BY <2>7, <2>10 DEF Return
    <3> HIDE DEF run
    <3>3. \A k : TallyOf(result', k) = TallyOf(run, k) BY <3>2 DEF TallyOf
    <3>4. run.set # "full" /\ CountedOnce(run, last) => CountedOnce(result', last)
      BY <3>2, <3>3 DEF CountedOnce
    <3> QED BY <3>1, <3>2, <3>3, <3>4 DEF TallyAt, run
  <2>12. ASSUME s = "full", NEW k \in DOMAIN obj.feat
         PROVE  obj.feat[k] = Ratio(ToInt(TallyOf(result', k)[last]), ToInt(Total[a][f][last]))
    <3>1. k \in DOMAIN objs[s].raw BY <2>7, <2>12 DEF Inv, FullNamesValues
    <3>2. obj.feat[k] = Ratio(objs[s].raw[k], objs[s].instruction_tot_contrib)
      BY <2>7, <2>12, <3>1
    <3>3. objs[s].instruction_tot_contrib = ToInt(Total[a][f][last])
      BY <2>1, <2>4, <2>12 DEF Inv, InProgress, Target, Set
    <3>4. objs[s].raw[k] = ToInt(TallyOf(result', k)[last])
      <4>1. k \in Feature(s) BY <2>6, <3>1 DEF IsObject, IsMap
      <4>2. k \in Exact(s) BY <2>12, <4>1 DEF Exact, CallFeatures
      <4>3. Lookup(obj.raw, k) = ToInt(TallyOf(result', k)[last])
        BY <2>10, <2>11, <4>2 DEF TallyAt
      <4> QED BY <2>7, <3>1, <4>3 DEF Lookup
    <3> QED BY <3>2, <3>3, <3>4
  <2>13. ResultOK(result')
    <3>1. IsMap(obj.raw, Feature(s), Ints) /\ IsMap(obj.feat, Feature(s), Quotient)
      BY <2>7 DEF IsObject
    <3> HIDE DEF s, obj
    <3> QED BY <2>2, <2>10, <2>11, <2>12, <3>1 DEF ResultOK
  <2>14. RawIsOwnTally' /\ CallsCountOnce' /\ FullFeatIsOwnShare'
    BY <2>13 DEF RawIsOwnTally, OwnTally, CallsCountOnce, FullFeatIsOwnShare, ResultOK, TallyAt
  <2>15. TypeOK' BY <2>5, <2>8, <2>13 DEF Inv, TypeOK, ResultOK
  <2> QED BY <2>5, <2>9, <2>14, <2>15 DEF Inv, InProgress
<1> QED BY <1>1, <1>2

(* No step falsifies the invariant.                                          *)
LEMMA NextInv == ASSUME Inv, [Next]_vars PROVE Inv'
<1>1. CASE \E a \in Analysis, key \in SelectableKey : SetFeatureSet(a, key)
    BY <1>1, SetFeatureSetInv
<1>2. CASE \E a \in Analysis, f \in Function : Run(a, f)
    BY <1>2, RunInv
<1>3. CASE Eval BY <1>3, EvalInv
<1>4. CASE Finalize BY <1>4, FinalizeInv
<1>5. CASE UNCHANGED vars
  <2>1. UNCHANGED <<objs, features, phase, call, result>> BY <1>5 DEF vars
  <2>2. TypeOK' BY <2>1 DEF Inv, TypeOK, IsCall
  <2>3. InProgress' BY <2>1 DEF Inv, InProgress, Return, Set, Target
  <2>4. FullNamesValues' BY <2>1 DEF Inv, FullNamesValues
  <2>5. RawIsOwnTally' /\ CallsCountOnce' /\ FullFeatIsOwnShare'
      BY <2>1 DEF Inv, RawIsOwnTally, OwnTally, CallsCountOnce, FullFeatIsOwnShare
  <2> QED BY <2>2, <2>3, <2>4, <2>5 DEF Inv
<1> QED BY <1>1, <1>2, <1>3, <1>4, <1>5 DEF Next, Dead

(* Every behaviour satisfies the invariant.                                  *)
THEOREM Invariance == Spec => []Inv
<1>1. Inv /\ [Next]_vars => Inv' BY NextInv
<1> QED BY <1>1, InitInv, PTL DEF Spec

(* The objects keep int counters and defined quotients of their own set's    *)
(* features, and a run in progress has a feature set and a body.             *)
THEOREM TypeCorrect == Spec => []TypeOK
<1>1. Inv => TypeOK BY DEF Inv
<1> QED BY <1>1, Invariance, PTL

(* FeatureAnalysis::run returns the counts of its own function, whatever     *)
(* analyses and functions used the shared object before.                     *)
THEOREM CountsAreOwn == Spec => []RawIsOwnTally
<1>1. Inv => RawIsOwnTally BY DEF Inv
<1> QED BY <1>1, Invariance, PTL

(* Whatever is read through the dangling StringRef, intrinsics count as they *)
(* should and a call by name counts at most once.                            *)
THEOREM CallsBounded == Spec => []CallsCountOnce
<1>1. Inv => CallsCountOnce BY DEF Inv
<1> QED BY <1>1, Invariance, PTL

(* The values of the full set are shares of this run's own total.            *)
THEOREM SharesAreOwn == Spec => []FullFeatIsOwnShare
<1>1. Inv => FullFeatIsOwnShare BY DEF Inv
<1> QED BY <1>1, Invariance, PTL
=============================================================================
