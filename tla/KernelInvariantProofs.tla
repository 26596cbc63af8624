----------------------- MODULE KernelInvariantProofs -----------------------
(***************************************************************************)
(* Theorems about KernelInvariant, for every kernel.                       *)
(***************************************************************************)
EXTENDS KernelInvariant, TLAPS

(* A call is entered under types of calls only, and under one type at most:  *)
(* the tables of names do not overlap.                                       *)
LEMMA SizeTypes ==
  /\ DOMAIN SizeType = {"get_global_size", "get_num_groups", "get_local_size"}
  /\ SizeType["get_global_size"] = 10
  /\ SizeType["get_num_groups"] = 13
  /\ SizeType["get_local_size"] = 16
BY DEF SizeType

LEMMA SubGroupTypes ==
  /\ DOMAIN SubGroupType = {"get_num_sub_groups", "get_sub_group_size",
                            "get_max_sub_group_size"}
  /\ SubGroupType["get_num_sub_groups"] = 19
  /\ SubGroupType["get_sub_group_size"] = 20
  /\ SubGroupType["get_max_sub_group_size"] = 21
BY DEF SubGroupType

LEMMA TypeOfCall ==
  ASSUME NEW call, NEW it \in TypesOf(call)
  PROVE  \/ /\ call.operands = 2 /\ call.name \in DOMAIN SizeType
            /\ call.dim \in Dims /\ it = SizeType[call.name] + call.dim
         \/ /\ call.operands = 1 /\ call.name \in DOMAIN SubGroupType
            /\ it = SubGroupType[call.name]
BY DEF TypesOf

LEMMA TypesAboveArguments ==
  ASSUME NEW call, NEW it \in TypesOf(call)
  PROVE  it \in 10..21
<1>1. CASE /\ call.operands = 2 /\ call.name \in DOMAIN SizeType
           /\ call.dim \in Dims /\ it = SizeType[call.name] + call.dim
  <2>1. SizeType[call.name] \in {10, 13, 16} BY <1>1, SizeTypes
  <2>2. call.dim \in 0..2 BY <1>1 DEF Dims
  <2> QED BY <1>1, <2>1, <2>2
<1>2. CASE /\ call.operands = 1 /\ call.name \in DOMAIN SubGroupType
           /\ it = SubGroupType[call.name]
  BY <1>2, SubGroupTypes
<1> QED BY <1>1, <1>2, TypeOfCall

LEMMA OneType ==
  ASSUME NEW call, NEW x \in TypesOf(call), NEW y \in TypesOf(call)
  PROVE  x = y
<1>1. CASE call.operands = 1 BY <1>1, TypeOfCall
<1>2. CASE call.operands # 1 BY <1>2, TypeOfCall
<1> QED BY <1>1, <1>2

(* Whatever name is read, a call is entered under one type of calls at most, *)
(* and what it asks for is among what may be read.                           *)
LEMMA OneRead ==
  ASSUME NEW call \in Call, NEW read \in ReadAs(call)
  PROVE  /\ read \subseteq UNION ReadAs(call)
         /\ read \subseteq 10..21
         /\ \A x, y \in read : x = y
<1>1. PICK f : read = TypesOf([call EXCEPT !.name = f]) BY DEF ReadAs
<1>2. read \subseteq 10..21 BY <1>1, TypesAboveArguments
<1>3. \A x, y \in read : x = y BY <1>1, OneType
<1> QED BY <1>2, <1>3

LEMMA ReadAbove ==
  ASSUME NEW call \in Call, NEW it \in UNION ReadAs(call)
  PROVE  it \in 10..21
BY OneRead

(* isInvariant answers with the type of a value bound once, and none for a   *)
(* value that is not bound.                                                  *)
LEMMA Recognised ==
  ASSUME NEW it \in DOMAIN invariants, it \in Int,
         \A x \in DOMAIN invariants : invariants[x] = invariants[it] => x = it
  PROVE  isInvariant(invariants[it]) = it
<1> DEFINE found == {x \in DOMAIN invariants : invariants[x] = invariants[it]}
<1>1. found = {it} OBVIOUS
<1>2. (CHOOSE y \in found : \A x \in found : y <= x) = it BY <1>1
<1> QED BY <1>1, <1>2 DEF isInvariant

(* Names, of any kernel and history.                                         *)
NamesIn(f, bad, it, value) ==
  IF it < NumArgTypes
  THEN value = Argument(it) /\ it < Len(f.args) /\ f.args[it + 1] = "scalar"
  ELSE /\ value.kind = "call" /\ value.at < Len(f.calls)
       /\ it \in UNION ReadAs(f.calls[value.at + 1])
       /\ value.at \notin bad => it \in Matched(f.calls[value.at + 1])

(* The inductive invariant: the bindings name their values and bind no value *)
(* twice, arguments are bound in order, and calls, misread ones too, behind  *)
(* the one that comes next.                                                  *)
Bound(n) == \A i \in 0..(n - 1) : fun.args[i + 1] = "scalar" => i \in DOMAIN invariants

Progress ==
  /\ step = "arguments" =>
       /\ \A it \in DOMAIN invariants : it < pos /\ invariants[it].kind = "argument"
       /\ Bound(pos)
  /\ step # "arguments" => Bound(Len(fun.args))
  /\ step = "calls" =>
       /\ \A it \in DOMAIN invariants : invariants[it].kind = "call" => invariants[it].at < pos
       /\ \A i \in misread : i < pos
  /\ step = "arguments" => misread = {}

BoundOnce ==
  FitsTypes => \A x, y \in DOMAIN invariants : invariants[x] = invariants[y] => x = y

Inv == TypeOK /\ BoundToItsName /\ BoundOnce /\ Progress

LEMMA InitInv == Init => Inv
<1> SUFFICES ASSUME Init PROVE Inv OBVIOUS
<1>1. IsKernel(fun) BY KernelAssumption DEF Init
<1>2. DOMAIN invariants = {} BY DEF Init
<1>3. Len(fun.args) \in Nat BY <1>1 DEF IsKernel
<1>4. TypeOK
  <2>1. misread \subseteq Nat BY DEF Init
  <2> QED BY <1>1, <1>2, <1>3, <2>1 DEF Init, TypeOK
<1>5. Progress BY <1>2 DEF Init, Progress, Bound
<1> QED BY <1>2, <1>4, <1>5 DEF Inv, BoundToItsName, BoundOnce

(* What the conjuncts say of a kernel and its lists.                         *)
LEMMA KernelFacts ==
  ASSUME TypeOK
  PROVE  /\ Len(fun.args) \in Nat /\ Len(fun.calls) \in Nat /\ pos \in Nat
         /\ \A i \in 0..(Len(fun.calls) - 1) : fun.calls[i + 1] \in Call
<1>1. fun.args \in Seq({"pointer", "scalar"}) /\ fun.calls \in Seq(Call)
  BY DEF TypeOK, IsKernel
<1> QED BY <1>1 DEF TypeOK

LEMMA ArgumentStep == Inv /\ CheckArgument => Inv'
<1> SUFFICES ASSUME Inv, CheckArgument PROVE Inv' OBVIOUS
<1>1. TypeOK /\ BoundToItsName /\ BoundOnce /\ Progress BY DEF Inv
<1>2. Len(fun.args) \in Nat /\ pos \in Nat /\ pos < Len(fun.args)
  BY <1>1, KernelFacts DEF CheckArgument
<1>3. /\ fun' = fun /\ step' = step /\ step = "arguments" /\ pos' = pos + 1
      /\ misread' = misread
  BY DEF CheckArgument
<1>4. \A it \in DOMAIN invariants :
         it < pos /\ it \in Nat /\ invariants[it].kind = "argument"
  BY <1>1, <1>3 DEF Progress, TypeOK
<1>5. CASE fun.args[pos + 1] = "pointer"
  <2>1. invariants' = invariants BY <1>5 DEF CheckArgument
  <2>2. TypeOK' BY <1>1, <1>2, <1>3, <2>1 DEF TypeOK, CheckArgument
  <2>3. BoundToItsName' BY <1>1, <1>3, <2>1 DEF BoundToItsName, FitsTypes, Names
  <2>4. Bound(pos)' BY <1>1, <1>2, <1>3, <1>5, <2>1 DEF Progress, Bound
  <2>5. Progress' BY <1>1, <1>2, <1>3, <1>4, <2>1, <2>4 DEF Progress
  <2>6. BoundOnce' BY <1>1, <1>3, <2>1 DEF BoundOnce, FitsTypes
  <2> QED BY <2>2, <2>3, <2>5, <2>6 DEF Inv
<1>6. CASE fun.args[pos + 1] # "pointer"
  <2>1. /\ DOMAIN invariants' = DOMAIN invariants \cup {pos}
        /\ invariants'[pos] = Argument(pos)
        /\ \A x \in DOMAIN invariants : invariants'[x] = invariants[x]
    BY <1>2, <1>4, <1>6 DEF CheckArgument, Bind
  <2>2. Argument(pos) \in Values /\ Argument(pos).kind = "argument"
    BY <1>2 DEF Argument, Values
  <2>3. TypeOK'
    <3>1. \A it \in DOMAIN invariants' : it \in Nat /\ invariants'[it] \in Values
      BY <1>1, <1>2, <2>1, <2>2 DEF TypeOK
    <3>2. misread' \subseteq Nat BY <1>1, <1>3 DEF TypeOK
    <3> QED BY <1>1, <1>2, <1>3, <3>1, <3>2 DEF TypeOK
  <2>4. fun.args[pos + 1] = "scalar"
    <3>1. fun.args \in Seq({"pointer", "scalar"}) BY <1>1 DEF TypeOK, IsKernel
    <3> QED BY <1>2, <1>6, <3>1
  <2>5. FitsTypes => Names(pos, Argument(pos))
    BY <1>2, <2>4 DEF FitsTypes, Names, NumArgTypes
  <2>6. BoundToItsName'
    BY <1>1, <1>3, <2>1, <2>5 DEF BoundToItsName, FitsTypes, Names
  <2>7. Bound(pos)' BY <1>1, <1>2, <1>3, <2>1 DEF Progress, Bound
  <2>8. Progress' BY <1>1, <1>2, <1>3, <1>4, <2>1, <2>2, <2>7 DEF Progress
  <2>9. BoundOnce'
    <3> SUFFICES ASSUME FitsTypes, NEW x \in DOMAIN invariants', NEW y \in DOMAIN invariants',
                        invariants'[x] = invariants'[y]
                 PROVE  x = y
      BY <1>3 DEF BoundOnce, FitsTypes
    <3>1. \A z \in DOMAIN invariants : z < NumArgTypes /\ invariants[z] = Argument(z)
      BY <1>1, <1>2, <1>4 DEF BoundToItsName, Names, FitsTypes, NumArgTypes
    <3>2. \A z \in DOMAIN invariants' : invariants'[z] = Argument(z)
      BY <2>1, <3>1
    <3> QED BY <3>2 DEF Argument
  <2> QED BY <2>3, <2>6, <2>8, <2>9 DEF Inv
<1> QED BY <1>5, <1>6

LEMMA CallStep == Inv /\ CheckCall => Inv'
<1> SUFFICES ASSUME Inv, CheckCall PROVE Inv' OBVIOUS
<1> DEFINE call == fun.calls[pos + 1]
<1>1. TypeOK /\ BoundToItsName /\ BoundOnce /\ Progress BY DEF Inv
<1>2. Len(fun.calls) \in Nat /\ pos \in Nat /\ pos < Len(fun.calls)
  BY <1>1, KernelFacts DEF CheckCall
<1>3. fun' = fun /\ step = "calls" BY DEF CheckCall
<1>4. CASE call.name = ""
  <2>1. invariants' = invariants /\ pos' = pos /\ step' = "crashed" /\ misread' = misread
    BY <1>4 DEF CheckCall
  <2>2. TypeOK' BY <1>1, <1>3, <2>1 DEF TypeOK
  <2>3. BoundToItsName' BY <1>1, <1>3, <2>1 DEF BoundToItsName, FitsTypes, Names
  <2>4. Progress' BY <1>1, <1>3, <2>1 DEF Progress, Bound
  <2>5. BoundOnce' BY <1>1, <1>3, <2>1 DEF BoundOnce, FitsTypes
  <2> QED BY <2>2, <2>3, <2>4, <2>5 DEF Inv
<1>5. CASE call.name # ""
  <2>1. PICK read \in ReadAs(call) :
          /\ invariants' = Bind(read, CallAt(pos))
          /\ misread' = misread \cup {i \in {pos} : read # Matched(call)}
    BY <1>5 DEF CheckCall
  <2>2. pos' = pos + 1 /\ step' = step BY <1>5 DEF CheckCall
  <2>3. call \in Call BY <1>1, <1>2, KernelFacts
  <2>4. /\ read \subseteq UNION ReadAs(call) /\ read \subseteq 10..21
        /\ \A x, y \in read : x = y
    BY <2>3, OneRead
  <2>5. /\ DOMAIN invariants' = DOMAIN invariants \cup read
        /\ \A x \in read : invariants'[x] = CallAt(pos)
        /\ \A x \in DOMAIN invariants \ read : invariants'[x] = invariants[x]
    BY <2>1 DEF Bind
  <2>6. CallAt(pos) \in Values /\ CallAt(pos).kind = "call" /\ CallAt(pos).at = pos
    BY <1>2 DEF CallAt, Values
  <2>7. TypeOK'
    <3>1. \A it \in DOMAIN invariants' : it \in Nat /\ invariants'[it] \in Values
      <4> SUFFICES ASSUME NEW it \in DOMAIN invariants'
                   PROVE  it \in Nat /\ invariants'[it] \in Values
        OBVIOUS
      <4>1. CASE it \in read
        <5>1. it \in 10..21 BY <2>4, <4>1
        <5>2. invariants'[it] = CallAt(pos) BY <2>5, <4>1
        <5> QED BY <2>6, <5>1, <5>2
      <4>2. CASE it \notin read BY <1>1, <2>5, <4>2 DEF TypeOK
      <4> QED BY <4>1, <4>2
    <3>2. misread' \subseteq Nat BY <1>1, <1>2, <2>1 DEF TypeOK
    <3> QED BY <1>1, <1>2, <1>3, <2>2, <3>1, <3>2 DEF TypeOK
  <2>8. pos \notin misread /\ (pos \notin misread' => read = Matched(call))
    BY <1>1, <1>2, <1>3, <2>1 DEF Progress
  <2>9. ASSUME NEW it \in read PROVE NamesIn(fun, misread', it, CallAt(pos))
    <3>1. ~(it < NumArgTypes) BY <2>4 DEF NumArgTypes
    <3>2. /\ pos < Len(fun.calls) /\ it \in UNION ReadAs(call)
          /\ pos \notin misread' => it \in Matched(call)
      BY <1>2, <2>4, <2>8
    <3> QED BY <2>6, <3>1, <3>2 DEF NamesIn
  <2>10. BoundToItsName'
    <3> SUFFICES ASSUME FitsTypes, NEW it \in DOMAIN invariants'
                 PROVE  NamesIn(fun, misread', it, invariants'[it])
      BY <1>3 DEF BoundToItsName, FitsTypes, Names, NamesIn
    <3>1. CASE it \in read BY <2>5, <2>9, <3>1
    <3>2. CASE it \notin read
      <4>1. invariants'[it] = invariants[it] /\ it \in DOMAIN invariants BY <2>5, <3>2
      <4>2. NamesIn(fun, misread, it, invariants[it])
        BY <1>1, <4>1 DEF BoundToItsName, Names, NamesIn
      <4>3. misread \subseteq misread' BY <2>1
      <4> QED BY <4>1, <4>2, <4>3 DEF NamesIn
    <3> QED BY <3>1, <3>2
  <2>11. BoundOnce'
    <3> SUFFICES ASSUME FitsTypes, NEW x \in DOMAIN invariants', NEW y \in DOMAIN invariants',
                        invariants'[x] = invariants'[y]
                 PROVE  x = y
      BY <1>3 DEF BoundOnce, FitsTypes
    <3>1. \A z \in DOMAIN invariants : invariants[z] # CallAt(pos)
      BY <1>1, <1>2, <1>3, <2>6 DEF Progress
    <3>2. CASE x \in read /\ y \in read BY <2>4, <3>2
    <3>3. CASE x \in read /\ y \notin read BY <2>5, <3>1, <3>3
    <3>4. CASE x \notin read /\ y \in read BY <2>5, <3>1, <3>4
    <3>5. CASE x \notin read /\ y \notin read BY <1>1, <2>5, <3>5 DEF BoundOnce
    <3> QED BY <3>2, <3>3, <3>4, <3>5
  <2>12. Progress'
    <3>1. \A i \in misread' : i < pos' BY <1>1, <1>2, <1>3, <2>1, <2>2 DEF Progress, TypeOK
    <3>2. \A it \in DOMAIN invariants' :
            invariants'[it].kind = "call" => invariants'[it].at < pos'
      BY <1>1, <1>2, <1>3, <2>2, <2>5, <2>6 DEF Progress, TypeOK, Values
    <3>3. Bound(Len(fun.args))' BY <1>1, <1>3, <2>5 DEF Progress, Bound
    <3> QED BY <1>3, <2>2, <3>1, <3>2, <3>3 DEF Progress
  <2> QED BY <2>7, <2>10, <2>11, <2>12 DEF Inv
<1> QED BY <1>4, <1>5

LEMMA NextInv == Inv /\ [Next]_vars => Inv'
<1> SUFFICES ASSUME Inv, [Next]_vars PROVE Inv' OBVIOUS
<1>1. TypeOK /\ BoundToItsName /\ BoundOnce /\ Progress BY DEF Inv
<1>2. CASE CheckArgument BY <1>2, ArgumentStep
<1>3. CASE CheckCall BY <1>3, CallStep
<1>4. CASE StartCalls
  <2>1. Len(fun.args) \in Nat /\ Len(fun.calls) \in Nat /\ pos \in Nat
    BY <1>1, KernelFacts
  <2>2. TypeOK' BY <1>1, <1>4, <2>1 DEF StartCalls, TypeOK
  <2>3. BoundToItsName' BY <1>1, <1>4 DEF StartCalls, BoundToItsName, FitsTypes, Names
  <2>4. Bound(Len(fun.args))' BY <1>1, <1>4 DEF StartCalls, Progress, Bound
  <2>5. Progress' BY <1>1, <1>4, <2>4 DEF StartCalls, Progress
  <2>6. BoundOnce' BY <1>1, <1>4 DEF StartCalls, BoundOnce, FitsTypes
  <2> QED BY <2>2, <2>3, <2>5, <2>6 DEF Inv
<1>5. CASE Finish
  BY <1>1, <1>5 DEF Finish, Inv, TypeOK, BoundToItsName, BoundOnce, FitsTypes, Names, Progress, Bound
<1>6. CASE UNCHANGED vars
  BY <1>1, <1>6 DEF vars, Inv, TypeOK, BoundToItsName, BoundOnce, FitsTypes, Names, Progress, Bound
<1> QED BY <1>2, <1>3, <1>4, <1>5, <1>6 DEF Next

THEOREM Invariance == Spec => []Inv
<1> QED BY InitInv, NextInv, PTL DEF Spec

THEOREM TypeCorrect == Spec => []TypeOK
<1>1. Inv => TypeOK BY DEF Inv
<1> QED BY <1>1, Invariance, PTL

(* Within the limit on arguments a type is only bound to what it names.      *)
THEOREM NamesAreRight == Spec => []BoundToItsName
<1>1. Inv => BoundToItsName BY DEF Inv
<1> QED BY <1>1, Invariance, PTL

(* Every binding is recognised, under one type.                              *)
LEMMA RecognisedStep == Inv => RecognisedOnce
<1> SUFFICES ASSUME Inv, FitsTypes, NEW it \in DOMAIN invariants
             PROVE  it # none /\ isInvariant(invariants[it]) = it
  BY DEF RecognisedOnce
<1>1. TypeOK /\ BoundToItsName /\ BoundOnce BY DEF Inv
<1>2. it \in Nat /\ Names(it, invariants[it]) BY <1>1 DEF TypeOK, BoundToItsName
<1>3. it # none
  <2>1. CASE it < NumArgTypes BY <2>1 DEF none, NumArgTypes
  <2>2. CASE ~(it < NumArgTypes)
    <3> DEFINE at == invariants[it].at
    <3>1. at \in Nat /\ at < Len(fun.calls) /\ it \in UNION ReadAs(fun.calls[at + 1])
      BY <1>1, <1>2, <2>2 DEF Names, TypeOK, Values
    <3>2. fun.calls[at + 1] \in Call BY <1>1, <3>1, KernelFacts
    <3>3. it \in 10..21 BY <3>1, <3>2, ReadAbove
    <3> QED BY <3>3 DEF none
  <2> QED BY <2>1, <2>2
<1>4. \A x \in DOMAIN invariants : invariants[x] = invariants[it] => x = it
  BY <1>1 DEF BoundOnce
<1> QED BY <1>2, <1>3, <1>4, Recognised

THEOREM EachRecognisedOnce == Spec => []RecognisedOnce
<1> QED BY RecognisedStep, Invariance, PTL

(* Every scalar argument of a kernel within the limit is an invariant.       *)
THEOREM AllArguments == Spec => []ArgumentsCollected
<1>1. Inv => ArgumentsCollected
  <2> SUFFICES ASSUME Inv, step = "done", FitsTypes,
                      NEW i \in 0..(Len(fun.args) - 1), fun.args[i + 1] = "scalar"
               PROVE  isInvariant(Argument(i)) = i
    BY DEF ArgumentsCollected
  <2>1. TypeOK /\ BoundToItsName /\ Progress /\ RecognisedOnce
    BY RecognisedStep DEF Inv
  <2>2. Len(fun.args) \in Nat BY <2>1, KernelFacts
  <2>3. i \in DOMAIN invariants BY <2>1, <2>2 DEF Progress, Bound
  <2>4. i < NumArgTypes BY <2>2 DEF FitsTypes, NumArgTypes
  <2>5. invariants[i] = Argument(i) BY <2>1, <2>3, <2>4 DEF BoundToItsName, Names
  <2> QED BY <2>1, <2>3, <2>5 DEF RecognisedOnce
<1> QED BY <1>1, Invariance, PTL

(* No step loses a binding, and only a later call replaces a call.           *)
THEOREM NothingIsLost == Spec => BindingsStay
<1> DEFINE Stay ==
      \A it \in DOMAIN invariants :
        /\ it \in DOMAIN invariants'
        /\ FitsTypes /\ invariants'[it] # invariants[it] =>
             /\ invariants[it].kind = "call" /\ invariants'[it].kind = "call"
             /\ invariants[it].at < invariants'[it].at
<1>1. Inv /\ [Next]_vars => [Stay]_vars
  <2> SUFFICES ASSUME Inv, Next PROVE Stay OBVIOUS
  <2>1. TypeOK /\ BoundToItsName /\ Progress BY DEF Inv
  <2>2. CASE CheckArgument
    <3>1. \A it \in DOMAIN invariants : it < pos /\ pos \in Nat /\ it \in Nat
      BY <2>1, <2>2 DEF CheckArgument, Progress, TypeOK
    <3> QED BY <2>2, <3>1 DEF CheckArgument, Bind
  <2>3. CASE CheckCall
    <3> DEFINE call == fun.calls[pos + 1]
    <3>0. call \in Call
      <4>0. pos < Len(fun.calls) /\ pos \in Nat /\ Len(fun.calls) \in Nat
        BY <2>1, <2>3, KernelFacts DEF CheckCall
      <4>1. pos \in 0..(Len(fun.calls) - 1) BY <4>0
      <4> QED BY <2>1, <4>1, KernelFacts
    <3>1. PICK types \in SUBSET (10..21) :
            invariants' = invariants \/ invariants' = Bind(types, CallAt(pos))
      BY <2>3, <3>0, OneRead DEF CheckCall
    <3> SUFFICES ASSUME NEW it \in DOMAIN invariants, invariants' = Bind(types, CallAt(pos))
                 PROVE  /\ it \in DOMAIN invariants'
                        /\ FitsTypes /\ invariants'[it] # invariants[it] =>
                             /\ invariants[it].kind = "call" /\ invariants'[it].kind = "call"
                             /\ invariants[it].at < invariants'[it].at
      BY <3>1
    <3>2. it \in DOMAIN invariants' BY DEF Bind
    <3>3. ASSUME FitsTypes, invariants'[it] # invariants[it]
          PROVE  /\ invariants[it].kind = "call" /\ invariants'[it].kind = "call"
                 /\ invariants[it].at < invariants'[it].at
      <4>1. it \in types /\ invariants'[it] = CallAt(pos) BY <3>3 DEF Bind
      <4>2. it \in 10..21 BY <4>1
      <4>3. invariants[it].kind = "call"
        BY <2>1, <3>3, <4>2 DEF BoundToItsName, Names, NumArgTypes
      <4>4. invariants[it].at < pos BY <2>1, <2>3, <4>3 DEF Progress, CheckCall
      <4> QED BY <4>1, <4>3, <4>4 DEF CallAt
    <3> QED BY <3>2, <3>3
  <2>4. CASE StartCalls \/ Finish BY <2>4 DEF StartCalls, Finish
  <2> QED BY <2>2, <2>3, <2>4 DEF Next
<1> QED BY <1>1, Invariance, PTL DEF Spec, BindingsStay

(* What LatestCallBound says of the end, of the calls looked at so far.      *)
BoundByCalls(n) ==
  misread = {} /\ FitsTypes =>
    \A it \in NumArgTypes..none - 1 :
      /\ it \in DOMAIN invariants <=>
           \E i \in 0..n - 1 : it \in Matched(fun.calls[i + 1])
      /\ \A i \in 0..n - 1 :
           it \in Matched(fun.calls[i + 1]) => invariants[it].at >= i
CallsSoFar ==
  /\ step = "calls" => BoundByCalls(pos)
  /\ step = "done" => BoundByCalls(Len(fun.calls))

LEMMA CallsSoFarStep ==
  ASSUME Inv, CallsSoFar, [Next]_vars
  PROVE  CallsSoFar'
<1>1. TypeOK /\ Progress BY DEF Inv
<1>2. Len(fun.args) \in Nat /\ Len(fun.calls) \in Nat /\ pos \in Nat
  BY <1>1, KernelFacts
<1>3. CASE CheckArgument
  BY <1>3 DEF CheckArgument, CallsSoFar
<1>4. CASE StartCalls
  <2>1. FitsTypes => \A it \in DOMAIN invariants : it \in Nat /\ it < NumArgTypes
    BY <1>1, <1>2, <1>4 DEF StartCalls, Progress, TypeOK, FitsTypes, NumArgTypes
  <2>2. FitsTypes' => \A it \in NumArgTypes..none - 1 : it \notin DOMAIN invariants'
    BY <1>4, <2>1 DEF StartCalls, FitsTypes, NumArgTypes, none
  <2>3. pos' = 0 /\ step' = "calls" BY <1>4 DEF StartCalls
  <2>4. BoundByCalls(pos)' BY <2>2, <2>3 DEF BoundByCalls
  <2> QED BY <2>3, <2>4 DEF CallsSoFar
<1>5. CASE CheckCall
  <2> DEFINE call == fun.calls[pos + 1]
  <2>0. fun' = fun /\ step = "calls" /\ pos < Len(fun.calls) BY <1>5 DEF CheckCall
  <2>1. CASE call.name = ""
    BY <1>5, <2>1 DEF CheckCall, CallsSoFar
  <2>2. CASE call.name # "" /\ misread' # {}
    BY <1>5, <2>2 DEF CheckCall, CallsSoFar, BoundByCalls
  <2>3. CASE call.name # "" /\ misread' = {}
    <3>1. /\ invariants' = Bind(Matched(call), CallAt(pos)) /\ misread = {}
          /\ pos' = pos + 1 /\ step' = "calls"
      BY <1>5, <2>3 DEF CheckCall
    <3>2. /\ DOMAIN invariants' = DOMAIN invariants \cup Matched(call)
          /\ \A x \in Matched(call) : invariants'[x].at = pos
          /\ \A x \in DOMAIN invariants \ Matched(call) : invariants'[x] = invariants[x]
      BY <3>1 DEF Bind, CallAt
    <3>3. ASSUME FitsTypes, NEW it \in NumArgTypes..none - 1
          PROVE  /\ it \in DOMAIN invariants' <=>
                      \E i \in 0..pos : it \in Matched(fun.calls[i + 1])
                 /\ \A i \in 0..pos :
                      it \in Matched(fun.calls[i + 1]) => invariants'[it].at >= i
      <4>1. /\ it \in DOMAIN invariants <=>
                 \E i \in 0..pos - 1 : it \in Matched(fun.calls[i + 1])
            /\ \A i \in 0..pos - 1 :
                 it \in Matched(fun.calls[i + 1]) => invariants[it].at >= i
        BY <2>0, <3>1, <3>3 DEF CallsSoFar, BoundByCalls
      <4>2. \A i \in 0..pos : i = pos \/ i \in 0..pos - 1
        BY <1>2
      <4>3. pos \in 0..pos /\ \A i \in 0..pos - 1 : i \in 0..pos /\ pos >= i
        BY <1>2
      <4>4. CASE it \in Matched(call)
        <5>1. it \in DOMAIN invariants' /\ invariants'[it].at = pos BY <3>2, <4>4
        <5>2. \A i \in 0..pos : pos >= i BY <1>2
        <5> QED BY <4>3, <4>4, <5>1, <5>2
      <4>5. CASE it \notin Matched(call)
        <5>1. it \in DOMAIN invariants' <=> it \in DOMAIN invariants
          BY <3>2, <4>5
        <5>2. it \in DOMAIN invariants => invariants'[it] = invariants[it]
          BY <3>2, <4>5
        <5>3. \A i \in 0..pos : it \in Matched(fun.calls[i + 1]) => i \in 0..pos - 1
          BY <4>2, <4>5
        <5> QED BY <4>1, <4>3, <5>1, <5>2, <5>3
      <4> QED BY <4>4, <4>5
    <3>4. pos' - 1 = pos BY <1>2, <3>1
    <3>5. BoundByCalls(pos)'
      BY <2>0, <3>3, <3>4 DEF BoundByCalls, FitsTypes, Matched, TypesOf
    <3> QED BY <2>0, <3>1, <3>5 DEF CallsSoFar
  <2> QED BY <2>1, <2>2, <2>3
<1>6. CASE Finish
  BY <1>6 DEF Finish, CallsSoFar, BoundByCalls, FitsTypes
<1>7. CASE UNCHANGED vars
  BY <1>7 DEF vars, CallsSoFar, BoundByCalls, FitsTypes
<1> QED BY <1>3, <1>4, <1>5, <1>6, <1>7 DEF Next

(* At the end a size is bound to the latest call that asked for it by a name *)
(* that is not mangled, unless a name was misread.                           *)
THEOREM LatestCallWins == Spec => []LatestCallBound
<1>1. Init => CallsSoFar BY DEF Init, CallsSoFar
<1>2. Inv /\ CallsSoFar /\ [Next]_vars => CallsSoFar' BY CallsSoFarStep
<1>3. CallsSoFar => LatestCallBound
  BY DEF CallsSoFar, BoundByCalls, LatestCallBound, Asking
<1> QED BY <1>1, <1>2, <1>3, Invariance, PTL DEF Spec
=============================================================================
