-------------------------- MODULE FeatureAnalysis --------------------------
(***************************************************************************)
(* FeatureAnalysis::run (src/FeatureAnalysis.cpp): the analyses and the    *)
(* feature-set objects they share.  FSRegistry hands out pointers to one   *)
(* object per feature set, so every analysis with the same feature set     *)
(* resets, fills and normalizes the same counters, run after run.          *)
(* A run is reset, one eval per instruction, normalize, copy of the maps.  *)
(***************************************************************************)
EXTENDS FeatureSet, Sequences

CONSTANTS
  Analysis,       \* analysis objects
  BaseExtract,    \* those that use FeatureAnalysis::extract, not Kofler13's
  Function,       \* functions of the module under analysis
  Declaration,    \* the functions without a body
  Body,           \* Body[f]: the instructions of f, block after block
  Contribution,   \* Contribution[a][f][i]: what a passes to eval for Body[f][i]
  Coalesced,      \* Coalesced[f]: what getCoalescedMemAccess(f) returns
  InitialSets,    \* assignments of feature sets the constructors dispatch
  SelectableKey,  \* keys setFeatureSet is called with
  InitialTotal,   \* values of the uninitialized instruction_tot_contrib
  Tally, Total, CallTally,  \* reference counts, see TallyAssumption
  Null            \* null pointer, and "no call", "no result"

VARIABLES
  objs,           \* the registered FeatureSet objects
  features,       \* features[a]: the object analysis a points to
  phase,          \* "idle", "extract", or "crashed": the process has died
  call,           \* the run in progress: analysis, function, next instruction
  result          \* what the latest run returned

vars == <<objs, features, phase, call, result>>

Instruction == [op : STRING,
                call : {"none", "intrinsic", "direct", "indirect"},
                known : BOOLEAN, space : Nat]

ASSUME ConstantsAssumption ==
  /\ BaseExtract \subseteq Analysis
  /\ Declaration \subseteq Function
  /\ \A f \in Function :
       /\ Body[f] \in Seq(Instruction)
       /\ f \in Declaration => Len(Body[f]) = 0
       /\ Coalesced[f] \in [mem_access : Nat, mem_coalesced : Nat]
  /\ \A a \in Analysis, f \in Function : \A n \in 1..Len(Body[f]) :
       /\ Contribution[a][f][n] \in Ints
       /\ a \in BaseExtract => Contribution[a][f][n] = 1
  /\ InitialSets \subseteq [Analysis -> SetName]
  /\ InitialTotal \subseteq Ints
  /\ Null \notin SetName

(***************************************************************************)
(* The reference counts.  Expected is the set of features an instruction   *)
(* counts for whatever is read of a callee's name: for a call through a    *)
(* pointer or by name none but its opcode's, for an intrinsic the special  *)
(* functions.  Tally[a][f][s][k][n] is what the first n instructions of f  *)
(* add up to for feature k, CallTally[a][f][n] the contributions of the    *)
(* calls by name among them and Total[a][f][n] of all of them: running     *)
(* sums, as TallyAssumption says.                                          *)
(***************************************************************************)
FullFeatures == UNION {{Body[f][i].op : i \in 1..Len(Body[f])} : f \in Function}
Feature(set) ==
  CASE set = "fan19" -> Fan19Features
    [] set = "grewe11" -> Grewe11Features
    [] set = "full" -> FullFeatures

GlobalSpace == 1        \* AMDGPU address spaces, MemAccessFeature.hpp
LocalSpace == 3

Expected(set, inst) ==
  CASE set = "fan19" ->
         {k \in DOMAIN Fan19Opcodes : inst.op \in Fan19Opcodes[k]}
           \cup {k \in {"sp_fun"} : inst.call = "intrinsic" /\ inst.known}
           \cup {k \in {"mem_gl"} : IsMemOp(inst) /\ inst.space = GlobalSpace}
           \cup {k \in {"mem_loc"} : IsMemOp(inst) /\ inst.space = LocalSpace}
    [] set = "grewe11" ->
         {k \in DOMAIN Grewe11Opcodes : inst.op \in Grewe11Opcodes[k]}
           \cup {k \in {"math"} : inst.call = "intrinsic" /\ inst.known}
           \cup {k \in {"mem_acc"} : IsMemOp(inst)}
           \cup {k \in {"mem_loc"} : IsMemOp(inst) /\ inst.space = GlobalSpace}
    [] set = "full" -> {inst.op}

RunningSum(sum, f, term(_)) ==
  /\ sum \in [0..Len(Body[f]) -> Int]
  /\ sum[0] = 0
  /\ \A n \in 1..Len(Body[f]) : sum[n] = sum[n - 1] + term(n)

ASSUME TallyAssumption ==
  \A a \in Analysis, f \in Function :
    /\ RunningSum(Total[a][f], f, LAMBDA n : Contribution[a][f][n])
    /\ RunningSum(CallTally[a][f], f,
         LAMBDA n : IF Body[f][n].call = "direct" THEN Contribution[a][f][n] ELSE 0)
    /\ \A s \in SetName : \A k \in Feature(s) :
         RunningSum(Tally[a][f][s][k], f,
           LAMBDA n : IF k \in Expected(s, Body[f][n])
                      THEN Contribution[a][f][n] ELSE 0)

-----------------------------------------------------------------------------
Set == features[call.an]
Target == objs[Set]
Inst == Body[call.fun][call.pos]

Return(an, fun, obj) ==    \* ResultFeatureAnalysis: copies of both maps
  [an |-> an, fun |-> fun, set |-> features[an],
   raw |-> obj.raw, feat |-> obj.feat]

Init ==
  /\ \E total \in [SetName -> InitialTotal] :
       objs = [s \in SetName |-> NewObject(total[s])]
  /\ features \in InitialSets
  /\ phase = "idle"
  /\ call = Null
  /\ result = Null

(* setFeatureSet: an unknown key dispatches to a null pointer. *)
SetFeatureSet(a, key) ==
  /\ phase = "idle"
  /\ features' = [features EXCEPT ![a] = IF key \in SetName THEN key ELSE Null]
  /\ UNCHANGED <<objs, phase, call, result>>

(* A null feature set is dereferenced; so is the callee of an indirect call, *)
(* by the KernelInvariant that FeatureAnalysis::extract builds first.        *)
HasIndirectCall(f) == \E i \in 1..Len(Body[f]) : Body[f][i].call = "indirect"

Crash ==
  /\ phase' = "crashed"
  /\ UNCHANGED <<objs, features, call, result>>

(* run, up to the first eval: reset, and return at once for a declaration. *)
Run(a, f) ==
  /\ phase = "idle"
  /\ IF features[a] = Null \/ (a \in BaseExtract /\ f \notin Declaration
                                                 /\ HasIndirectCall(f))
     THEN Crash
     ELSE LET obj == Reset(features[a], objs[features[a]])
          IN  /\ objs' = [objs EXCEPT ![features[a]] = obj]
              /\ IF f \in Declaration
                 THEN /\ result' = Return(a, f, obj)
                      /\ UNCHANGED <<phase, call>>
                 ELSE /\ phase' = "extract"
                      /\ call' = [an |-> a, fun |-> f, pos |-> 1]
                      /\ UNCHANGED result
              /\ UNCHANGED features

(* eval of one instruction; only the full set never asks for the callee. *)
Eval ==
  /\ phase = "extract"
  /\ call.pos <= Len(Body[call.fun])
  /\ IF Set # "full" /\ Inst.call = "indirect"
     THEN Crash
     ELSE /\ \E name \in NameReads(Inst) :
               objs' = [objs EXCEPT ![Set] =
                          Add(@, Hits(Set, Inst, name),
                              Contribution[call.an][call.fun][call.pos])]
          /\ call' = [call EXCEPT !.pos = @ + 1]
          /\ UNCHANGED <<features, phase, result>>

(* finalize and return.  grewe11 runs the coalescing heuristic, whose        *)
(* assertion ends the process when it counts more accesses than it collected. *)
Finalize ==
  /\ phase = "extract"
  /\ call.pos > Len(Body[call.fun])
  /\ LET cma == Coalesced[call.fun]
         obj == Normalize(Set, Target, cma)
     IN  IF Set = "grewe11" /\ cma.mem_coalesced > cma.mem_access
         THEN Crash
         ELSE /\ objs' = [objs EXCEPT ![Set] = obj]
              /\ result' = Return(call.an, call.fun, obj)
              /\ phase' = "idle"
              /\ call' = Null
              /\ UNCHANGED features

Dead == phase = "crashed" /\ UNCHANGED vars

Next ==
  \/ \E a \in Analysis, key \in SelectableKey : SetFeatureSet(a, key)
  \/ \E a \in Analysis, f \in Function : Run(a, f)
  \/ Eval
  \/ Finalize
  \/ Dead

Spec == Init /\ [][Next]_vars

-----------------------------------------------------------------------------
(* Type invariant: every object keeps int counters and quotients with a      *)
(* nonzero denominator for features of its own set, and a run in progress    *)
(* has a feature set and a function with a body.                             *)
Quotient == [num : Int, den : Int \ {0}]
IsMap(map, keys, values) == DOMAIN map \subseteq keys /\ map \in [DOMAIN map -> values]
IsCall(c) ==
  /\ c \in [an : Analysis, fun : Function \ Declaration, pos : Nat \ {0}]
  /\ c.pos <= Len(Body[c.fun]) + 1
  /\ features[c.an] # Null

IsObject(s, obj) ==
  /\ obj = [raw |-> obj.raw, feat |-> obj.feat,
            instruction_tot_contrib |-> obj.instruction_tot_contrib]
  /\ IsMap(obj.raw, Feature(s), Ints)
  /\ IsMap(obj.feat, Feature(s), Quotient)
  /\ obj.instruction_tot_contrib \in Ints

TypeOK ==
  /\ objs = [s \in SetName |-> objs[s]]
  /\ \A s \in SetName : IsObject(s, objs[s])
  /\ features \in [Analysis -> SetName \cup {Null}]
  /\ phase \in {"idle", "extract", "crashed"}
  /\ phase = "extract" => IsCall(call)
  /\ result # Null =>
       /\ result.an \in Analysis /\ result.fun \in Function /\ result.set \in SetName
       /\ IsMap(result.raw, Feature(result.set), Ints)
       /\ IsMap(result.feat, Feature(result.set), Quotient)

(* The counts a run returns are those of the function it was asked about,    *)
(* whatever ran before on the shared object and whatever was left in it: the *)
(* contributions of the instructions that count for the feature, modulo the  *)
(* width of int; grewe11's mem_loc is the number of accesses to the GLOBAL   *)
(* address space, although FeatureSet.cpp:241 says "local mem access".  Not  *)
(* for the features that depend on a callee's name.                          *)
CallFeatures(set) == CASE set = "fan19" -> {"sp_fun"}
                       [] set = "grewe11" -> {"math", "barrier"}
                       [] set = "full" -> {}
Exact(set) == Feature(set) \ CallFeatures(set)
TallyOf(run, k) == Tally[run.an][run.fun][run.set][k]

OwnTally(run) ==
  \A k \in Exact(run.set) :
    Lookup(run.raw, k) = ToInt(TallyOf(run, k)[Len(Body[run.fun])])

RawIsOwnTally == result # Null => OwnTally(result)

(* Whatever is read through the dangling name, a call counts once: every     *)
(* intrinsic special function counts for sp_fun (fan19) or math (grewe11),   *)
(* and what is counted beyond those, for math and barrier together, is at    *)
(* most the calls by name, none of them twice.  For contributions that are   *)
(* not negative and sums that stay in int.                                   *)
MathFeature(set) == IF set = "fan19" THEN "sp_fun" ELSE "math"

Fits(sum, calls, a, f) ==
  \A n \in 1..Len(Body[f]) : Contribution[a][f][n] >= 0 /\ sum[n] + calls[n] <= IntMax

CountedOnce(run, n) ==
  LET intrinsics == TallyOf(run, MathFeature(run.set))
      calls == CallTally[run.an][run.fun]
      math == Lookup(run.raw, MathFeature(run.set))
      barrier == Lookup(run.raw, "barrier")     \* not a feature of fan19: 0
  IN  Fits(intrinsics, calls, run.an, run.fun) =>
        /\ 0 <= barrier /\ 0 <= intrinsics[n]
        /\ intrinsics[n] <= math
        /\ math + barrier <= intrinsics[n] + calls[n]

CallsCountOnce ==
  result # Null /\ result.set # "full" => CountedOnce(result, Len(Body[result.fun]))

(* The values of the full set are shares of this function's own total: the   *)
(* denominator normalize divides by is the sum of the contributions of this  *)
(* run, and no value of an earlier run survives.                             *)
FullFeatIsOwnShare ==
  result # Null /\ result.set = "full" =>
    LET last == Len(Body[result.fun])
    IN  \A k \in DOMAIN result.feat :
          result.feat[k] = Ratio(ToInt(TallyOf(result, k)[last]),
                                 ToInt(Total[result.an][result.fun][last]))

(* The inductive invariant: what the three properties above say of a run     *)
(* that has returned holds, up to the next instruction, of the object a run  *)
(* in progress is filling.                                                   *)
TallyAt(run, n) ==
  /\ \A k \in Exact(run.set) : Lookup(run.raw, k) = ToInt(TallyOf(run, k)[n])
  /\ run.set # "full" => CountedOnce(run, n)

InProgress ==
  phase = "extract" =>
    /\ TallyAt(Return(call.an, call.fun, Target), call.pos - 1)
    /\ Set = "full" => Target.instruction_tot_contrib =
                         ToInt(Total[call.an][call.fun][call.pos - 1])

FullNamesValues == DOMAIN objs["full"].feat \subseteq DOMAIN objs["full"].raw

Inv ==
  /\ TypeOK /\ InProgress /\ FullNamesValues
  /\ RawIsOwnTally /\ CallsCountOnce /\ FullFeatIsOwnShare

(* FeatureAnalysis.cpp:64 says of the reset that opens a run "reset all      *)
(* feature values", so a declaration, which returns right after it, would    *)
(* have no nonzero value.                                                    *)
DeclarationHasNoValues ==
  result # Null /\ result.fun \in Declaration =>
    \A k \in DOMAIN result.feat : result.feat[k].num = 0
=============================================================================
