----------------------------- MODULE MCPipeline -----------------------------
(***************************************************************************)
(* Small instances of Pipeline.  "nest" needs both transformations, "tidy" *)
(* is in LCSSA form but not in normal form, "hook" calls through a         *)
(* pointer, "proto" is a declaration.  Weights are those of a loop of one  *)
(* hundred iterations; another pass may undo the normal form.              *)
(***************************************************************************)
EXTENDS Pipeline

Plain(op) == [op |-> op, call |-> "none", known |-> FALSE, space |-> 0]
Load == [Plain("load") EXCEPT !.space = 1]
CallByName == [Plain("call") EXCEPT !.call = "direct"]
ThroughPointer == [Plain("call") EXCEPT !.call = "indirect"]

MCAnalysis == {"default", "kofler13"}
MCBaseExtract == {"default"}
MCFunction == {"nest", "nest_l", "nest_n", "tidy", "tidy_n", "hook", "proto"}
MCDeclaration == {"proto"}
MCBody ==
  [nest |-> <<Load, Plain("add")>>,
   nest_l |-> <<Load, Plain("add"), Plain("phi")>>,
   nest_n |-> <<Plain("br"), Load, Plain("add"), Plain("phi")>>,
   tidy |-> <<Plain("add"), CallByName>>,
   tidy_n |-> <<Plain("br"), Plain("add"), CallByName>>,
   hook |-> <<Load, ThroughPointer>>,
   proto |-> <<>>]
MCWeight(op) == IF op \in {"load", "add"} THEN 100 ELSE 1
MCContribution ==
  [a \in MCAnalysis |-> [f \in MCFunction |-> [n \in 1..Len(MCBody[f]) |->
     IF a \in MCBaseExtract THEN 1 ELSE MCWeight(MCBody[f][n].op)]]]
MCCoalesced == [f \in MCFunction |-> [mem_access |-> 0, mem_coalesced |-> 0]]
MCInitialSets == {[default |-> "grewe11", kofler13 |-> "fan19"]}

Same == [v \in MCFunction \ MCDeclaration |-> v]
MCLCSSA == [Same EXCEPT !["nest"] = "nest_l"]
MCNormalForm == [Same EXCEPT !["nest"] = "nest_n", !["nest_l"] = "nest_n", !["tidy"] = "tidy_n"]
MCRewrite == [v \in MCFunction \ MCDeclaration |->
                CASE v = "tidy_n" -> {"tidy", "tidy_n"}
                  [] v = "nest_n" -> {"nest_l"}
                  [] OTHER -> {v}]
MCModule == <<"nest", "proto", "tidy", "hook">>
MCPipelines ==
  {<<"print<feature>">>, <<"print<feature>", "print<feature>">>,
   <<"print<feature>", "other", "vectorizer-start">>,
   <<"lcssa", "print<feature>", "print<feature>", "other", "print<feature>">>}

Sums(f, term(_)) ==
  LET sum[n \in 0..Len(MCBody[f])] == IF n = 0 THEN 0 ELSE sum[n - 1] + term(n)
  IN  sum
MCTotal ==
  [a \in MCAnalysis |-> [f \in MCFunction |->
     Sums(f, LAMBDA n : MCContribution[a][f][n])]]
MCCallTally ==
  [a \in MCAnalysis |-> [f \in MCFunction |->
     Sums(f, LAMBDA n : IF MCBody[f][n].call = "direct" THEN MCContribution[a][f][n] ELSE 0)]]
MCTally ==
  [a \in MCAnalysis |-> [f \in MCFunction |-> [s \in SetName |-> [k \in Feature(s) |->
     Sums(f, LAMBDA n : IF k \in Expected(s, MCBody[f][n])
                        THEN MCContribution[a][f][n] ELSE 0)]]]]
=============================================================================
