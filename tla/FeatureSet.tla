----------------------------- MODULE FeatureSet -----------------------------
(***************************************************************************)
(* The feature sets of src/FeatureSet.cpp: what Fan19FeatureSet,           *)
(* Grewe11FeatureSet and FullFeatureSet do to the counters of one object,  *)
(* as operators on the object.  FeatureAnalysis calls them on the objects  *)
(* the registry holds.                                                     *)
(*                                                                         *)
(* An instruction is a record                                              *)
(*   op      the opcode name LLVM gives it ("add", "load", "call", ...)    *)
(*   call    "none", or for a call "intrinsic", "direct" or "indirect"     *)
(*   known   for an intrinsic, an entry of INTRINSIC is a substring of its *)
(*           name                                                          *)
(*   space   for a load or a store, the LLVM address space of its pointer  *)
(***************************************************************************)
EXTENDS MachineInt, FiniteSets

SetName == {"fan19", "grewe11", "full"}
MemOp == {"load", "store"}

(***************************************************************************)
(* The tables and the features.                                            *)
(***************************************************************************)
INT_ADDSUB == {"add", "sub"}
INT_MUL == {"mul"}
INT_DIV == {"udiv", "sdiv", "sdivrem"}
FLOAT_ADDSUB == {"fadd", "fsub"}
FLOAT_MUL == {"fmul"}
FLOAT_DIV == {"fdiv"}
BITWISE == {"shl", "lshr", "ashr", "and", "or", "xor"}

Fan19Opcodes ==
  [int_add |-> INT_ADDSUB, int_mul |-> INT_MUL, int_div |-> INT_DIV,
   int_bw |-> BITWISE, flt_add |-> FLOAT_ADDSUB, flt_mul |-> FLOAT_MUL,
   flt_div |-> FLOAT_DIV]

Grewe11Opcodes ==
  [int |-> INT_ADDSUB \cup INT_MUL \cup INT_DIV \cup BITWISE,
   float |-> FLOAT_ADDSUB \cup FLOAT_MUL \cup FLOAT_DIV]

Fan19Features == {"int_add", "int_mul", "int_div", "int_bw", "flt_add",
                  "flt_mul", "flt_div", "sp_fun", "mem_gl", "mem_loc"}
Grewe11Features == {"int", "int4", "float", "float4", "math", "barrier",
                    "mem_acc", "mem_loc", "mem_coal"}

(***************************************************************************)
(* include/MemAccessFeature.hpp.  The predicates are named the wrong way   *)
(* round in the source; Fan19FeatureSet swaps them back, Grewe11 does not. *)
(***************************************************************************)
SpaceTypes == <<"Global", "Region", "Local", "Constant", "Private">>
get_cl_address_space_type(id) ==
  IF id \in DOMAIN SpaceTypes THEN SpaceTypes[id] ELSE "Generic"
isGlobalMemoryAccess(id) == get_cl_address_space_type(id) = "Local"
isLocalMemoryAccess(id) == get_cl_address_space_type(id) = "Global"

(***************************************************************************)
(* eval: the features an instruction counts for.  name is the set of the   *)
(* name tables FNAME_SPECIAL and BARRIER that hold a substring of the      *)
(* callee name that was READ: get_demangled_name reads through a StringRef *)
(* to a string that is already destroyed, so whatever the callee is called *)
(* the bytes may match any of them (an earlier callee's name) or none.     *)
(* The name of an intrinsic is taken from LLVM's table and never misread.  *)
(***************************************************************************)
NameTable == {"FNAME_SPECIAL", "BARRIER"}
NameReads(inst) == IF inst.call = "direct" THEN SUBSET NameTable ELSE {{}}

IsMemOp(inst) == inst.op \in MemOp

IsMathCall(inst, name) ==
  \/ inst.call = "intrinsic" /\ inst.known
  \/ inst.call = "direct" /\ "FNAME_SPECIAL" \in name

Fan19Hits(inst, name) ==
  {k \in DOMAIN Fan19Opcodes : inst.op \in Fan19Opcodes[k]}
    \cup {k \in {"sp_fun"} : IsMathCall(inst, name)}
    \cup {k \in {"mem_gl"} : IsMemOp(inst) /\ isLocalMemoryAccess(inst.space)}
    \cup {k \in {"mem_loc"} : IsMemOp(inst) /\ isGlobalMemoryAccess(inst.space)}

\* mutant: "if" for "else if", a name in both tables counts for both features
Grewe11HitsTwice(inst, name) ==
  {k \in DOMAIN Grewe11Opcodes : inst.op \in Grewe11Opcodes[k]}
    \cup {k \in {"math"} : IsMathCall(inst, name)}
    \cup {k \in {"barrier"} : inst.call = "direct" /\ "BARRIER" \in name}
    \cup {k \in {"mem_acc"} : IsMemOp(inst)}
    \cup {k \in {"mem_loc"} : IsMemOp(inst) /\ isLocalMemoryAccess(inst.space)}

Grewe11Hits(inst, name) ==
  {k \in DOMAIN Grewe11Opcodes : inst.op \in Grewe11Opcodes[k]}
    \cup {k \in {"math"} : IsMathCall(inst, name)}
    \cup {k \in {"barrier"} : /\ inst.call = "direct"
                              /\ "FNAME_SPECIAL" \notin name
                              /\ "BARRIER" \in name}
    \cup {k \in {"mem_acc"} : IsMemOp(inst)}
    \cup {k \in {"mem_loc"} : IsMemOp(inst) /\ isLocalMemoryAccess(inst.space)}

Hits(set, inst, name) == CASE set = "fan19" -> Fan19Hits(inst, name)
                           [] set = "grewe11" -> Grewe11Hits(inst, name)
                           [] set = "full" -> {inst.op}

(***************************************************************************)
(* The object.  instruction_num is written and never read: it is left out. *)
(***************************************************************************)
NoFeatures == [k \in {} |-> 0]
NewObject(total) ==
  [raw |-> NoFeatures, feat |-> NoFeatures, instruction_tot_contrib |-> total]

\* the StringMap map after map[k] = new[k] for every key of new
Update(map, new) ==
  [k \in DOMAIN map \cup DOMAIN new |-> IF k \in DOMAIN new THEN new[k] ELSE map[k]]

Lookup(map, k) == IF k \in DOMAIN map THEN map[k] ELSE 0  \* StringMap::operator[]

(***************************************************************************)
(* FeatureSet::add, once for every feature of hits.                        *)
(***************************************************************************)
Add(obj, hits, contribution) ==
  [obj EXCEPT
     !.raw = Update(@, [k \in hits |-> ToInt(Lookup(obj.raw, k) + contribution)]),
     !.instruction_tot_contrib = ToInt(@ + Cardinality(hits) * contribution)]

(***************************************************************************)
(* reset.  Fan19FeatureSet and Grewe11FeatureSet override the base class   *)
(* method: they zero the counters they name and nothing else.              *)
(***************************************************************************)
\* mutant: divides without looking at the denominator
RatioUnguarded(n, d) == [num |-> n, den |-> d]
Ratio(n, d) == IF d = 0 THEN [num |-> 0, den |-> 1] ELSE [num |-> n, den |-> d]
Zeros(keys) == [k \in keys |-> 0]

\* mutants: a reset that leaves the total or a counter alone
BaseResetKeepsTotal(obj) == [obj EXCEPT !.raw = Zeros(DOMAIN obj.raw)]
Fan19ResetKeepsBitwise(obj) ==
  [obj EXCEPT !.raw = Update(@, Zeros(Fan19Features \ {"int_bw"}))]

BaseReset(obj) == [raw |-> Zeros(DOMAIN obj.raw),
                   feat |-> [k \in DOMAIN obj.feat |-> Ratio(0, 0)],
                   instruction_tot_contrib |-> 0]
Fan19Reset(obj) == [obj EXCEPT !.raw = Update(@, Zeros(Fan19Features))]
Grewe11Reset(obj) == [obj EXCEPT !.raw = Update(@, Zeros(Grewe11Features))]

Reset(set, obj) == CASE set = "fan19" -> Fan19Reset(obj)
                     [] set = "grewe11" -> Grewe11Reset(obj)
                     [] set = "full" -> BaseReset(obj)

(***************************************************************************)
(* normalize.  A float is the exact quotient it rounds, 0/1 where the code *)
(* stores 0.f instead of dividing by zero.                                 *)
(***************************************************************************)
BaseNormalize(obj) ==
  LET value(k) == Ratio(obj.raw[k], obj.instruction_tot_contrib)
  IN  [obj EXCEPT !.feat = Update(@, [k \in DOMAIN obj.raw |-> value(k)])]
Grewe11Normalize(obj, cma) ==
  LET value == Ratio(cma.mem_coalesced, cma.mem_access)
  IN  [obj EXCEPT !.feat = Update(@, [k \in {"mem_coal"} |-> value])]

Normalize(set, obj, cma) ==
  IF set = "grewe11" THEN Grewe11Normalize(obj, cma) ELSE BaseNormalize(obj)
=============================================================================
