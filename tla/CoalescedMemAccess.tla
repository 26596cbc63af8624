------------------------- MODULE CoalescedMemAccess -------------------------
(***************************************************************************)
(* getCoalescedMemAccess (include/MemAccessFeature.hpp): the heuristic     *)
(* behind grewe11's mem_coal.  It collects the geps on pointer arguments,  *)
(* follows the uses of every get_global_id call through shl instructions,  *)
(* and counts the geps indexed by a use it meets or by a constant.         *)
(*                                                                         *)
(* The function it looks at is one of Functions, a record                  *)
(*   kind      of every instruction: "get_global_id" or "call" (another    *)
(*             function), "indirect" (a call without a callee), "shl",     *)
(*             "gep" or "other"                                            *)
(*   users     use lists: users[v] names an instruction once per use of v  *)
(*   index     operand 1 of every gep: an instruction or Constant          *)
(*   argument  the geps among the users of the pointer arguments           *)
(* It is in SSA form and has no unreachable blocks: a value that is used   *)
(* to compute itself is so through a phi, and never through shls alone.    *)
(***************************************************************************)
EXTENDS Integers, FiniteSets, Sequences, Functions

CONSTANTS
  Instr,          \* the instructions, block after block
  Functions,
  Constant        \* a ConstantInt operand

Value == Range(Instr)
Kind == {"get_global_id", "call", "indirect", "shl", "gep", "other"}

IsFunction(f) ==
  LET geps == {v \in Value : f.kind[v] = "gep"}
      shls == {v \in Value : f.kind[v] = "shl"}
  IN  /\ f.kind \in [Value -> Kind]
      /\ f.users \in [Value -> Seq(Value)]
      /\ f.argument \subseteq geps
      /\ f.index \in [geps -> Value \cup {Constant}]
      /\ \A S \in SUBSET shls :
           S # {} => \E v \in S : S \cap Range(f.users[v]) = {}

ASSUME CoalescedAssumption ==
  /\ Instr \in Seq(Value) /\ IsFiniteSet(Value)
  /\ Constant \notin Value
  /\ \A f \in Functions : IsFunction(f)

VARIABLES
  fun,            \* the function under analysis
  phase,          \* "collect", "scan", then how the call ended
  gep_set,        \* std::set<GetElementPtrInst*>
  pos,            \* next instruction of the scan
  id_worklist,    \* std::stack<const User*>, the top at the end
  cma             \* the result: mem_access and mem_coalesced

vars == <<fun, phase, gep_set, pos, id_worklist, cma>>

\* mutant: a use counts for every gep, whatever its index
IndexedByAnything(v) == gep_set
IndexedBy(v) == {g \in gep_set : fun.index[g] = v}

\* mutant: every call with a callee is a work-item id
IsAnyCall(v) == fun.kind[v] \in {"get_global_id", "call"}
IsIdCall(v) == fun.kind[v] = "get_global_id"

\* mutant: uses are followed through phis and other instructions as well
FollowedPhi(v) == fun.kind[v] \in {"shl", "other"}
Followed(v) == fun.kind[v] = "shl"

Init ==
  /\ fun \in Functions
  /\ phase = "collect"
  /\ gep_set = {}
  /\ pos = 1
  /\ id_worklist = <<>>
  /\ cma = [mem_access |-> 0, mem_coalesced |-> 0]

\* mutant: every gep of the function, on an argument or not
CollectAllGeps ==
  /\ phase = "collect"
  /\ gep_set' = {v \in Value : fun.kind[v] = "gep"}
  /\ cma' = [cma EXCEPT !.mem_access = Cardinality(gep_set')]
  /\ phase' = "scan"
  /\ UNCHANGED <<fun, pos, id_worklist>>

(* 1. and 2.: the geps among the users of the pointer arguments.             *)
CollectGeps ==
  /\ phase = "collect"
  /\ gep_set' = fun.argument
  /\ cma' = [cma EXCEPT !.mem_access = Cardinality(fun.argument)]
  /\ phase' = "scan"
  /\ UNCHANGED <<fun, pos, id_worklist>>

(* 3. and 4.: the next instruction; an id call puts its users on the stack.  *)
Visit ==
  /\ phase = "scan" /\ id_worklist = <<>> /\ pos <= Len(Instr)
  /\ fun.kind[Instr[pos]] # "indirect"
  /\ IF IsIdCall(Instr[pos])
     THEN id_worklist' = fun.users[Instr[pos]]
     ELSE UNCHANGED id_worklist
  /\ pos' = pos + 1
  /\ UNCHANGED <<fun, phase, gep_set, cma>>

(* getCalledFunction returns null and is dereferenced.                       *)
Crash ==
  /\ phase = "scan" /\ id_worklist = <<>> /\ pos <= Len(Instr)
  /\ fun.kind[Instr[pos]] = "indirect"
  /\ phase' = "crashed"
  /\ UNCHANGED <<fun, gep_set, pos, id_worklist, cma>>

\* mutant: the users of a shl replace the stack
FollowUseOverwrites ==
  /\ phase = "scan" /\ id_worklist # <<>>
  /\ LET id_use == id_worklist[Len(id_worklist)]
         rest == SubSeq(id_worklist, 1, Len(id_worklist) - 1)
     IN  IF Followed(id_use)
         THEN id_worklist' = fun.users[id_use] /\ UNCHANGED cma
         ELSE /\ id_worklist' = rest
              /\ cma' = [cma EXCEPT !.mem_coalesced = @ + Cardinality(IndexedBy(id_use))]
  /\ UNCHANGED <<fun, phase, gep_set, pos>>

(* 5.: a shl is followed; any other use counts for the geps it indexes.      *)
FollowUse ==
  /\ phase = "scan" /\ id_worklist # <<>>
  /\ LET id_use == id_worklist[Len(id_worklist)]
         rest == SubSeq(id_worklist, 1, Len(id_worklist) - 1)
     IN  IF Followed(id_use)
         THEN id_worklist' = rest \o fun.users[id_use] /\ UNCHANGED cma
         ELSE /\ id_worklist' = rest
              /\ cma' = [cma EXCEPT !.mem_coalesced = @ + Cardinality(IndexedBy(id_use))]
  /\ UNCHANGED <<fun, phase, gep_set, pos>>

\* mutant: asserts < instead of <=
FinishStrict ==
  /\ phase = "scan" /\ id_worklist = <<>> /\ pos > Len(Instr)
  /\ cma' = [cma EXCEPT !.mem_coalesced = @ + Cardinality(IndexedBy(Constant))]
  /\ phase' = IF cma'.mem_coalesced < cma'.mem_access THEN "returned" ELSE "aborted"
  /\ UNCHANGED <<fun, gep_set, pos, id_worklist>>

(* 6.: geps with a constant index; then the assertion.                       *)
Finish ==
  /\ phase = "scan" /\ id_worklist = <<>> /\ pos > Len(Instr)
  /\ cma' = [cma EXCEPT !.mem_coalesced = @ + Cardinality(IndexedBy(Constant))]
  /\ phase' = IF cma'.mem_coalesced <= cma'.mem_access THEN "returned" ELSE "aborted"
  /\ UNCHANGED <<fun, gep_set, pos, id_worklist>>

Next == CollectGeps \/ Visit \/ Crash \/ FollowUse \/ Finish

(* A call runs to its end: nothing waits in it.                              *)
Spec == Init /\ [][Next]_vars /\ WF_vars(Next)
-----------------------------------------------------------------------------
TypeOK ==
  /\ IsFunction(fun)
  /\ phase \in {"collect", "scan", "returned", "aborted", "crashed"}
  /\ gep_set \subseteq fun.argument
  /\ pos \in 1..(Len(Instr) + 1)
  /\ id_worklist \in Seq(Value)
  /\ cma \in [mem_access : Nat, mem_coalesced : Nat]

(* Only uses of a work-item id are ever on the stack: everything there is in *)
(* every set that holds the users of the id calls and is closed under the    *)
(* users of its shl instructions.                                            *)
ClosedUnderUses(S) ==
  \A v \in Value :
    fun.kind[v] = "get_global_id" \/ (fun.kind[v] = "shl" /\ v \in S) =>
      Range(fun.users[v]) \subseteq S

WorklistHoldsIdUses ==
  \A S \in SUBSET Value : ClosedUnderUses(S) => Range(id_worklist) \subseteq S

(* A gep is called coalesced only for a constant index or for an index that  *)
(* a use of a work-item id reaches: with neither, the count is zero.         *)
NothingElseCoalesced ==
  \A S \in SUBSET Value :
    ClosedUnderUses(S) /\ (\A g \in fun.argument : fun.index[g] \notin S \cup {Constant})
      => cma.mem_coalesced = 0

(* What the heuristic counts, in closed form.  The sum of the weights w of   *)
(* the elements of a sequence, prefix by prefix:                             *)
Sums(w, s) ==
  LET sum[n \in 0..Len(s)] == IF n = 0 THEN 0 ELSE sum[n - 1] + w[s[n]]
  IN  sum
Total(w, s) == Sums(w, s)[Len(s)]

(* The paths from a use through shls to the index of one of the geps:        *)
Paths(geps) ==
  LET paths[v \in Value] ==
        IF Followed(v) THEN Total(paths, fun.users[v])
                       ELSE Cardinality({g \in geps : fun.index[g] = v})
  IN  paths

(* and those that start at a work-item id, of the first n instructions or of *)
(* all.                                                                      *)
PathsFromIds(geps) ==
  Sums([v \in Value |-> IF IsIdCall(v) THEN Total(Paths(geps), fun.users[v]) ELSE 0], Instr)
AllPaths(geps) == PathsFromIds(geps)[Len(Instr)]

(* Nothing is counted twice or lost on the way: what has been counted and    *)
(* what the stack still holds add up to the paths from the ids seen so far.  *)
PathsCounted ==
  /\ phase = "scan" =>
       cma.mem_coalesced + Total(Paths(gep_set), id_worklist) = PathsFromIds(gep_set)[pos - 1]
  /\ phase \in {"returned", "aborted"} =>
       cma.mem_coalesced = AllPaths(gep_set) + Cardinality(IndexedBy(Constant))

(* A gep counts once for every path from a work-item id through shls to its  *)
(* index.  Not where an id or a shl is itself the index, so that the gep is  *)
(* one of the uses the stack holds: lines 59 ("until we found one of our     *)
(* presaved geps") and 72 ("if the use corresponds to the pre-saved gep")    *)
(* would count it, the code compares the use with the index and does not.    *)
UsesId(g) == fun.index[g] # Constant /\ (IsIdCall(fun.index[g]) \/ Followed(fun.index[g]))

CountIsPathCount == (\A g \in gep_set : ~UsesId(g)) => PathsCounted

(* The assertion can fail only for a gep whose index two paths reach.        *)
AbortNeedsTwoPaths ==
  phase = "aborted" => \E g \in gep_set : fun.index[g] # Constant /\ AllPaths({g}) > 1

(* The call ends.  It follows uses through shl only, and a use-def cycle     *)
(* goes through a phi.                                                       *)
Terminates == <>(phase \in {"returned", "aborted", "crashed"})

(* MemAccessFeature.hpp:92 asserts mem_coalesced <= mem_access.              *)
AssertionHolds == phase # "aborted"
=============================================================================
