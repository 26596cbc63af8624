------------------------- MODULE MCFeatureAnalysis -------------------------
(***************************************************************************)
(* A small instance of FeatureAnalysis: the default analysis and a Kofler  *)
(* one whose loop multiplier is negative or large enough to wrap, over     *)
(* three functions with bodies and a declaration.                          *)
(***************************************************************************)
EXTENDS FeatureAnalysis

Plain(op) == [op |-> op, call |-> "none", known |-> FALSE, space |-> 0]
Access(op, space) == [Plain(op) EXCEPT !.space = space]
Call(kind) == [Plain("call") EXCEPT !.call = kind, !.known = (kind = "intrinsic")]

MCAnalysis == {"default", "kofler13"}
MCBaseExtract == {"default"}
MCFunction == {"map", "sync", "hook", "declared"}
MCDeclaration == {"declared"}
MCBody ==
  [map |-> <<Plain("shl"), Plain("shl"), Call("intrinsic"), Call("direct")>>,
   sync |-> <<Access("store", 3), Call("direct"),
              Access("load", 1)>>,
   hook |-> <<Call("intrinsic"), Call("indirect")>>,
   declared |-> <<>>]
MCMultiplier == [map |-> <<1, 3, 1, 2>>, sync |-> <<-1, 2, 2>>,
                 hook |-> <<1, 1>>, declared |-> <<>>]
MCContribution ==
  [a \in MCAnalysis |->
     IF a \in MCBaseExtract
     THEN [f \in MCFunction |-> [n \in 1..Len(MCBody[f]) |-> 1]]
     ELSE MCMultiplier]
MCCoalesced ==
  [f \in MCFunction |-> IF f = "map" THEN [mem_access |-> 2, mem_coalesced |-> 1]
                        ELSE [mem_access |-> 0, mem_coalesced |-> 0]]

\* Both analyses start on the same object and may move to the full set: at
\* most two of the three objects are in use in one behaviour.
MCInitialSets == {[a \in MCAnalysis |-> s] : s \in SetName}

Sums(f, term(_)) ==
  LET sum[n \in 0..Len(MCBody[f])] == IF n = 0 THEN 0 ELSE sum[n - 1] + term(n)
  IN  sum
MCTotal ==
  [a \in MCAnalysis |-> [f \in MCFunction |->
     Sums(f, LAMBDA n : MCContribution[a][f][n])]]
MCCallTally ==
  [a \in MCAnalysis |-> [f \in MCFunction |->
     Sums(f, LAMBDA n : IF MCBody[f][n].call = "direct" THEN MCContribution[a][f][n] ELSE 0)]]
MCTally ==
  [a \in MCAnalysis |-> [f \in MCFunction |-> [s \in SetName |-> [k \in Feature(s) |->
     Sums(f, LAMBDA n : IF k \in Expected(s, MCBody[f][n])
                        THEN MCContribution[a][f][n] ELSE 0)]]]]
=============================================================================
