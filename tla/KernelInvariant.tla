-------------------------- MODULE KernelInvariant --------------------------
(***************************************************************************)
(* KernelInvariant (src/KernelInvariant.cpp): the map from invariant types *)
(* to the values of a kernel that do not change while it runs.  The        *)
(* constructor takes the arguments that are not pointers, then the calls   *)
(* that ask for sizes; isInvariant looks a value up.                       *)
(*                                                                         *)
(* A kernel is a record                                                    *)
(*   args   for every argument "pointer" or "scalar"                       *)
(*   calls  the call instructions in order, each a record                  *)
(*     name      the OpenCL function called, or "" for a call without a    *)
(*               callee                                                    *)
(*     mangled   whether getGlobalIdentifier gives its C++ encoding        *)
(*     operands  number of operands, the callee among them                 *)
(*     dim       the first operand if it is a constant of at most 32 bits, *)
(*               NoDim otherwise                                           *)
(***************************************************************************)
EXTENDS Integers, Sequences, Functions

CONSTANTS
  Kernels,
  Name,           \* function names
  NoDim

(***************************************************************************)
(* enum InvariantType.  Arguments are cast to it by their position.        *)
(***************************************************************************)
NumArgTypes == 10
InvariantTypeName ==
  <<"a0", "a1", "a2", "a3", "a4", "a5", "a6", "a7", "a8", "a9",
    "gs0", "gs1", "gs2", "ng0", "ng1", "ng2", "ls0", "ls1", "ls2",
    "nsg", "sgs", "msgs", "none">>
none == 22

\* the first type of each function with a dimension, and those without
SizeType == [get_global_size |-> 10, get_num_groups |-> 13, get_local_size |-> 16]
SubGroupType == [get_num_sub_groups |-> 19, get_sub_group_size |-> 20,
                 get_max_sub_group_size |-> 21]

Call == [name : Name \cup {""}, mangled : BOOLEAN, operands : Nat \ {0}, dim : Int \cup {NoDim}]
IsKernel(k) ==
  /\ k = [args |-> k.args, calls |-> k.calls]
  /\ k.args \in Seq({"pointer", "scalar"})
  /\ k.calls \in Seq(Call)

ASSUME KernelAssumption ==
  /\ \A k \in Kernels : IsKernel(k)
  /\ NoDim \notin Int
  /\ "" \notin Name

VARIABLES
  fun,            \* the kernel
  step,           \* "arguments", "calls", "done" or "crashed"
  pos,            \* position of the next argument or call, from 0
  invariants,     \* std::map<InvariantType, Value*>
  misread         \* history: positions of the calls whose name was misread

vars == <<fun, step, pos, invariants, misread>>

Argument(i) == [kind |-> "argument", at |-> i]
CallAt(i) == [kind |-> "call", at |-> i]
Bind(types, value) ==
  [x \in DOMAIN invariants \cup types |-> IF x \in types THEN value ELSE invariants[x]]

Init ==
  /\ fun \in Kernels
  /\ step = "arguments"
  /\ pos = 0
  /\ invariants = [it \in {} |-> Argument(0)]
  /\ misread = {}

\* mutant: does not skip pointers
CheckEveryArgument ==
  /\ step = "arguments" /\ pos < Len(fun.args)
  /\ invariants' = Bind({pos}, Argument(pos))
  /\ pos' = pos + 1
  /\ UNCHANGED <<fun, step, misread>>

CheckArgument ==
  /\ step = "arguments" /\ pos < Len(fun.args)
  /\ invariants' = IF fun.args[pos + 1] = "pointer" THEN invariants
                   ELSE Bind({pos}, Argument(pos))
  /\ pos' = pos + 1
  /\ UNCHANGED <<fun, step, misread>>

\* mutants: the first loop stops one early; its index is reused; its result
\* is cleared
StartCallsEarly ==
  /\ step = "arguments" /\ pos \in {Len(fun.args) - 1, Len(fun.args)}
  /\ step' = "calls"
  /\ pos' = 0
  /\ UNCHANGED <<fun, invariants, misread>>

StartCallsKeepsPos ==
  /\ step = "arguments" /\ pos = Len(fun.args)
  /\ step' = "calls"
  /\ UNCHANGED <<fun, pos, invariants, misread>>

StartCallsClears ==
  /\ step = "arguments" /\ pos = Len(fun.args)
  /\ step' = "calls"
  /\ pos' = 0
  /\ invariants' = [it \in {} |-> Argument(0)]
  /\ UNCHANGED <<fun, misread>>

StartCalls ==
  /\ step = "arguments" /\ pos = Len(fun.args)
  /\ step' = "calls"
  /\ pos' = 0
  /\ UNCHANGED <<fun, invariants, misread>>

(* The types a call is entered under: at most one.  Names are compared with  *)
(* what get_demangled_name returns, which returns before it demangles.       *)
Dims == 0..2

\* mutant: the switch falls through to the dimensions that follow
TypesOfFallThrough(call) ==
  {SizeType[f] + d : f \in {g \in DOMAIN SizeType : g = call.name /\ call.operands = 2},
                     d \in {e \in Dims : call.dim \in 0..e}}
    \cup {SubGroupType[f] : f \in {g \in DOMAIN SubGroupType :
                                     g = call.name /\ call.operands = 1}}
TypesOf(call) ==
  {SizeType[f] + d : f \in {g \in DOMAIN SizeType : g = call.name /\ call.operands = 2},
                     d \in Dims \cap {call.dim}}
    \cup {SubGroupType[f] : f \in {g \in DOMAIN SubGroupType :
                                     g = call.name /\ call.operands = 1}}
Matched(call) == IF call.mangled THEN {} ELSE TypesOf(call)

\* what is read of the name may be any other, of one function at a time
SizeName == DOMAIN SizeType \cup DOMAIN SubGroupType
ReadAs(call) == {TypesOf([call EXCEPT !.name = f]) : f \in SizeName \cup {""}}

\* mutant: insert, which leaves a type that is bound already
CheckCallInserts ==
  /\ step = "calls" /\ pos < Len(fun.calls)
  /\ fun.calls[pos + 1].name # ""
  /\ invariants' = Bind(Matched(fun.calls[pos + 1]) \ DOMAIN invariants, CallAt(pos))
  /\ pos' = pos + 1
  /\ UNCHANGED <<fun, step, misread>>

(* get_demangled_name dereferences the callee, and reads its name through a  *)
(* StringRef to a string that is gone: what it reads may match nothing, or   *)
(* the name of another function.  The operands are not misread.              *)
CheckCall ==
  /\ step = "calls" /\ pos < Len(fun.calls)
  /\ LET call == fun.calls[pos + 1]
     IN  IF call.name = ""
         THEN step' = "crashed" /\ UNCHANGED <<pos, invariants, misread>>
         ELSE /\ \E read \in ReadAs(call) :
                   /\ invariants' = Bind(read, CallAt(pos))
                   /\ misread' = misread \cup {i \in {pos} : read # Matched(call)}
              /\ pos' = pos + 1
              /\ UNCHANGED step
  /\ UNCHANGED fun

Finish ==
  /\ step = "calls" /\ pos = Len(fun.calls)
  /\ step' = "done"
  /\ UNCHANGED <<fun, pos, invariants, misread>>

Next == CheckArgument \/ StartCalls \/ CheckCall \/ Finish

Spec == Init /\ [][Next]_vars

(* isInvariant: the first type whose value it is.  The loop over the uses    *)
(* compares the used value, which is the invariant again.                    *)
isInvariant(value) ==
  LET found == {it \in DOMAIN invariants : invariants[it] = value}
  IN  IF found = {} THEN none ELSE CHOOSE it \in found : \A x \in found : it <= x

-----------------------------------------------------------------------------
Values == [kind : {"argument", "call"}, at : Nat]
TypeOK ==
  /\ IsKernel(fun)
  /\ step \in {"arguments", "calls", "done", "crashed"}
  /\ pos \in Nat
  /\ step = "arguments" => pos <= Len(fun.args)
  /\ step = "calls" => pos <= Len(fun.calls)
  /\ \A it \in DOMAIN invariants :
       /\ it \in Nat
       /\ invariants[it] \in Values
  /\ misread \subseteq Nat

(* The limit KernelInvariant.hpp:25 states.                                  *)
FitsTypes == Len(fun.args) <= NumArgTypes

(* A type is only ever bound to a value it can be the name of: a0.. to the   *)
(* argument at that place, which is no pointer, the others to a call with    *)
(* the operands and the dimension of their function, and, unless that very   *)
(* call's name was misread, to a call of their function.  For kernels within *)
(* the limit on arguments: the casts and the calls share one map.            *)
Names(it, value) ==
  IF it < NumArgTypes
  THEN value = Argument(it) /\ it < Len(fun.args) /\ fun.args[it + 1] = "scalar"
  ELSE /\ value.kind = "call" /\ value.at < Len(fun.calls)
       /\ it \in UNION ReadAs(fun.calls[value.at + 1])
       /\ value.at \notin misread => it \in Matched(fun.calls[value.at + 1])

BoundToItsName ==
  FitsTypes => \A it \in DOMAIN invariants : Names(it, invariants[it])

(* isInvariant tells invariants from other values, with the one type they    *)
(* are bound to: no value is bound twice, and none is found under "none".    *)
RecognisedOnce ==
  FitsTypes =>
    \A it \in DOMAIN invariants : it # none /\ isInvariant(invariants[it]) = it

(* Nothing a later step does loses an invariant: a type, once bound, stays   *)
(* bound, to the same argument or to a call at least as late.                *)
BindingsStay ==
  [][\A it \in DOMAIN invariants :
       /\ it \in DOMAIN invariants'
       /\ FitsTypes /\ invariants'[it] # invariants[it] =>
            /\ invariants[it].kind = "call" /\ invariants'[it].kind = "call"
            /\ invariants[it].at < invariants'[it].at]_vars

(* Every scalar argument is bound and recognised, whatever the calls are, in *)
(* a kernel within the limit.                                                *)
ArgumentsCollected ==
  step = "done" /\ FitsTypes =>
    \A i \in 0..(Len(fun.args) - 1) :
      fun.args[i + 1] = "scalar" => isInvariant(Argument(i)) = i

(* A size is bound at the end exactly if a call asks for it by a name that   *)
(* is not mangled (get_demangled_name, FeatureSet.cpp:73, returns before it  *)
(* demangles), and then to the latest such call: unless a name was misread.  *)
Asking(it) == {i \in 0..Len(fun.calls) - 1 : it \in Matched(fun.calls[i + 1])}

LatestCallBound ==
  step = "done" /\ misread = {} /\ FitsTypes =>
    \A it \in NumArgTypes..none - 1 :
      /\ it \in DOMAIN invariants <=> Asking(it) # {}
      /\ \A i \in Asking(it) : invariants[it].at >= i
=============================================================================
