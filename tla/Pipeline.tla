------------------------------ MODULE Pipeline ------------------------------
(***************************************************************************)
(* The extraction passes in an LLVM function pipeline: what the plugin     *)
(* registers (src/FeatureAnalysisPlugin.cpp), the printer passes           *)
(* (include/FeaturePrinter.hpp, PolFeatPrinter.hpp), and LLVM's function   *)
(* analysis manager, which keeps one result per analysis and function      *)
(* until a pass says it no longer holds.                                   *)
(*                                                                         *)
(* A member of Function is here one version of the code of one function,   *)
(* so that a result names the version it was computed from.  An analysis   *)
(* is run as FeatureAnalysis runs it: Eval and Finalize are its steps.     *)
(***************************************************************************)
EXTENDS FeatureAnalysis, SequencesExt

CONSTANTS
  Module,         \* the functions of the module, as loaded
  Pipelines,      \* optimization pipelines, as sequences of their elements
  LCSSA,          \* LCSSA[v]: version v with its loops in LCSSA form
  NormalForm,     \* NormalForm[v]: v once Kofler13Analysis::extract has run
  Rewrite         \* Rewrite[v]: what another transformation may make of v

VARIABLES
  passes,         \* the function pass manager's passes
  at,             \* the function and the pass the managers have reached
  ir,             \* ir[i]: the version the i-th function is in
  cache,          \* the manager's results, by analysis and function
  printed,        \* history: the results the printers wrote
  process         \* "killed" by what PolFeatAnalysis reads

world == <<passes, at, ir, cache, printed, process>>
allVars == <<vars, world>>

\* The four addPass calls of both callbacks.
Extraction == <<"default", "lcssa", "kofler13", "polfeat">>
Registered(element) ==
  IF element \in {"print<feature>", "vectorizer-start"} THEN Extraction ELSE <<element>>
PassesOf(elements) == FlattenSeq([n \in DOMAIN elements |-> Registered(elements[n])])

Printer == {"default", "kofler13", "polfeat"}
PassName == Printer \cup {"lcssa", "other"}

\* The adaptor that runs a function pipeline over a module skips declarations.
Defined == SelectSeq(Module, LAMBDA v : v \notin Declaration)
Code == Function \ Declaration

ASSUME PipelineAssumption ==
  /\ Analysis = {"default", "kofler13"}
  /\ Defined \in Seq(Code)
  /\ LCSSA \in [Code -> Code] /\ NormalForm \in [Code -> Code]
  /\ Rewrite \in [Code -> SUBSET Code]
  /\ \A p \in Pipelines : PassesOf(p) \in Seq(PassName) /\ Len(PassesOf(p)) > 0

-----------------------------------------------------------------------------
Pass == passes[at.pass]
Key(an) == <<an, at.fn>>
Now == ir[at.fn]
Running == process = "running" /\ phase # "crashed" /\ at.fn <= Len(Defined)
Reached(pass) == Running /\ phase = "idle" /\ Pass = pass

PipelineInit ==
  /\ Init
  /\ \E p \in Pipelines : passes = PassesOf(p)
  /\ at = [fn |-> 1, pass |-> 1]
  /\ ir = Defined
  /\ cache = [key \in {} |-> Null]
  /\ printed = {}
  /\ process = "running"

\* mutant: off by one
AdvancePast ==
  at' = IF at.pass <= Len(passes) THEN [at EXCEPT !.pass = @ + 1]
                                  ELSE [fn |-> at.fn + 1, pass |-> 1]

\* All passes of a function, then the next function.
Advance ==
  at' = IF at.pass < Len(passes) THEN [at EXCEPT !.pass = @ + 1]
                                 ELSE [fn |-> at.fn + 1, pass |-> 1]

\* Kofler13Analysis::extract puts the loops in normal form; the manager is
\* not told.
VersionFor(an) == IF an = "kofler13" THEN NormalForm[Now] ELSE Now

(* getResult finds no result and runs the analysis, up to its first eval. *)
Request(an) ==
  /\ Reached(an)
  /\ Key(an) \notin DOMAIN cache
  /\ Run(an, VersionFor(an))
  /\ ir' = IF phase' = "extract" THEN [ir EXCEPT ![at.fn] = VersionFor(an)] ELSE ir
  /\ UNCHANGED <<passes, at, cache, printed, process>>

Work == Running /\ Eval /\ UNCHANGED world

Keep(an, res) ==
  [key \in DOMAIN cache \cup {Key(an)} |-> IF key = Key(an) THEN res ELSE cache[key]]

\* mutant: results refer to the maps of the shared object
KeepReference(an) ==
  [key \in DOMAIN cache \cup {Key(an)} |->
     IF key = Key(an) THEN result'
     ELSE IF key[1] = an THEN [cache[key] EXCEPT !.raw = result'.raw] ELSE cache[key]]
\* The manager moves the returned copies into its cache.
KeepResult(an) == Keep(an, result')

Complete ==
  /\ Running
  /\ Finalize
  /\ cache' = IF phase' = "idle" THEN KeepResult(call.an) ELSE cache
  /\ UNCHANGED <<passes, at, ir, printed, process>>

(* The printer writes the result, cached or just computed, and preserves all. *)
PrintResult(an) ==
  /\ Reached(an)
  /\ Key(an) \in DOMAIN cache
  /\ printed' = printed \cup {[an |-> an, version |-> Now, result |-> cache[Key(an)]]}
  /\ Advance
  /\ UNCHANGED <<vars, passes, ir, cache, process>>

(* PolFeatAnalysis::run copies two maps through a pointer its constructor    *)
(* never sets: the process dies, or the result holds what happened to be     *)
(* there.                                                                    *)
RunPolFeat ==
  /\ Reached("polfeat")
  /\ Key("polfeat") \notin DOMAIN cache
  /\ \/ /\ process' = "killed"
        /\ UNCHANGED cache
     \/ /\ cache' = Keep("polfeat", "garbage")
        /\ UNCHANGED process
  /\ UNCHANGED <<vars, passes, at, ir, printed>>

\* mutants: a pass that claims to preserve what it has changed, a manager
\* that keeps the default analysis
InvalidateNone(new) == cache
InvalidateKofler(new) == Restrict(cache, DOMAIN cache \ {Key("kofler13")})
\* A pass that changes the function preserves none of the three results.
Invalidate(new) ==
  IF new = Now THEN cache
  ELSE Restrict(cache, {key \in DOMAIN cache : key[2] # at.fn})

Transform(new) ==
  /\ ir' = [ir EXCEPT ![at.fn] = new]
  /\ cache' = Invalidate(new)
  /\ Advance
  /\ UNCHANGED <<vars, passes, printed, process>>

RunLCSSA == Reached("lcssa") /\ Transform(LCSSA[Now])
RunOther == Reached("other") /\ \E new \in Rewrite[Now] : Transform(new)

Stopped == ~Running /\ UNCHANGED allVars

PipelineStep ==
  \/ \E an \in Analysis : Request(an)
  \/ Work
  \/ Complete
  \/ \E an \in Printer : PrintResult(an)
  \/ RunPolFeat
  \/ RunLCSSA
  \/ RunOther

PipelineSpec == PipelineInit /\ [][PipelineStep \/ Stopped]_allVars

-----------------------------------------------------------------------------
(* Type invariant: one version per function, results of the analysis they    *)
(* are kept for, and a run in progress is the one the reached printer asked  *)
(* for.                                                                      *)
FeatureKey == {key \in DOMAIN cache : key[1] \in Analysis}

PipelineTypeOK ==
  /\ passes \in Seq(PassName)
  /\ at \in [fn : 1..Len(Defined) + 1, pass : 1..Len(passes)]
  /\ ir \in [DOMAIN Defined -> Code]
  /\ DOMAIN cache \subseteq Printer \X DOMAIN Defined
  /\ \A key \in FeatureKey : cache[key].an = key[1] /\ cache[key].fun \in Code
  /\ process \in {"running", "killed"}
  /\ phase = "extract" =>
       at.fn <= Len(Defined) /\ call.an = Pass /\ call.fun = Now /\ Key(Pass) \notin DOMAIN cache

(* What the Kofler printer writes describes the function as it is when it is *)
(* written, although the analysis changes the function behind the back of    *)
(* the manager and the result may come from its cache.                       *)
PrintedBy(an) == {p \in printed : p.an = an}

KoflerPrintsCurrent ==
  \A p \in PrintedBy("kofler13") : p.result.fun = p.version

(* What the default printer writes describes the function as it is, or as it *)
(* was before Kofler13Analysis put its loops in normal form: that is the     *)
(* only change a printed result may miss, and it misses it at most once.     *)
DefaultMissesNormalForm ==
  \A p \in PrintedBy("default") :
    p.version \in {p.result.fun, NormalForm[p.result.fun]}

(* A result in the cache or on the output holds the counts of the version it *)
(* names, although the object that counted them has been reset and filled    *)
(* for other functions since.                                                *)
ResultsStayOwn ==
  /\ \A key \in FeatureKey : OwnTally(cache[key])
  /\ \A p \in printed : p.an \in Analysis => OwnTally(p.result)

(* Why the two hold: of the results in the cache, a Kofler one is always of   *)
(* the current version, and a default one may be of the version Kofler has   *)
(* put in normal form, which then does not happen again before it is dropped. *)
CacheCurrent ==
  \A i \in DOMAIN Defined :
    /\ <<"kofler13", i>> \in DOMAIN cache => cache[<<"kofler13", i>>].fun = ir[i]
    /\ <<"default", i>> \in DOMAIN cache =>
         LET seen == cache[<<"default", i>>].fun
         IN  \/ ir[i] = seen
             \/ /\ ir[i] = NormalForm[seen]
                /\ \/ <<"kofler13", i>> \in DOMAIN cache
                   \/ i = at.fn /\ Pass = "kofler13" /\ phase # "idle"
=============================================================================
