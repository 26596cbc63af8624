--------------------------- MODULE PipelineProofs ---------------------------
(***************************************************************************)
(* Theorems about Pipeline, for every module, pipeline and transformation. *)
(* Its steps are steps of FeatureAnalysis or leave its state alone, so     *)
(* what is proved of the driver holds in a pipeline.                       *)
(***************************************************************************)
EXTENDS Pipeline, FeatureAnalysisProofs

-----------------------------------------------------------------------------
LEMMA StepTypes ==
  ASSUME PipelineTypeOK, Running
  PROVE  /\ Now \in Code /\ at.fn \in DOMAIN Defined /\ at.pass \in 1..Len(passes)
         /\ at = [fn |-> at.fn, pass |-> at.pass]
         /\ \A an \in Analysis : VersionFor(an) \in Code
<1>1. Defined \in Seq(Code) BY PipelineAssumption
<1>2. at \in [fn : 1..Len(Defined) + 1, pass : 1..Len(passes)] BY DEF PipelineTypeOK
<1>3. at.fn \in 1..Len(Defined) BY <1>1, <1>2 DEF Running
<1>4. DOMAIN Defined = 1..Len(Defined) BY <1>1
<1>5. Now \in Code BY <1>3, <1>4 DEF PipelineTypeOK, Now
<1> QED BY <1>2, <1>3, <1>4, <1>5, PipelineAssumption DEF VersionFor

(* Every step of the pipeline is one of FeatureAnalysis or changes nothing   *)
(* of its state.                                                             *)
LEMMA StepRefines ==
  ASSUME PipelineTypeOK, [PipelineStep \/ Stopped]_allVars
  PROVE  [Next]_vars
<1>1. ASSUME NEW an \in Analysis, Request(an) PROVE Next
  <2>1. VersionFor(an) \in Function BY <1>1, StepTypes DEF Request, Reached, Code
  <2> QED BY <1>1, <2>1 DEF Request, Next
<1>2. CASE Work BY <1>2 DEF Work, Next
<1>3. CASE Complete BY <1>3 DEF Complete, Next
<1>4. CASE \E an \in Printer : PrintResult(an) BY <1>4 DEF PrintResult
<1>5. CASE RunPolFeat BY <1>5 DEF RunPolFeat
<1>6. CASE RunLCSSA BY <1>6 DEF RunLCSSA, Transform
<1>7. CASE RunOther BY <1>7 DEF RunOther, Transform
<1>8. CASE UNCHANGED allVars BY <1>8 DEF allVars
<1> QED BY <1>1, <1>2, <1>3, <1>4, <1>5, <1>6, <1>7, <1>8 DEF PipelineStep, Stopped

-----------------------------------------------------------------------------
(* The invariant of the pipeline's own state.                                *)
PipelineInv ==
  /\ PipelineTypeOK /\ CacheCurrent
  /\ KoflerPrintsCurrent /\ DefaultMissesNormalForm /\ ResultsStayOwn

LEMMA PipelineInitInv == PipelineInit => PipelineInv
<1> SUFFICES ASSUME PipelineInit PROVE PipelineInv OBVIOUS
<1>1. PICK p \in Pipelines : passes = PassesOf(p) BY DEF PipelineInit
<1>2. passes \in Seq(PassName) /\ Len(passes) > 0 BY <1>1, PipelineAssumption
<1>3. Defined \in Seq(Code) BY PipelineAssumption
<1>4. /\ ir = Defined /\ phase = "idle" /\ process = "running" /\ printed = {}
      /\ at = [fn |-> 1, pass |-> 1] /\ DOMAIN cache = {}
  BY DEF PipelineInit, Init
<1>5. PipelineTypeOK
  <2>1. at \in [fn : 1..Len(Defined) + 1, pass : 1..Len(passes)]
    <3>1. Len(Defined) \in Nat /\ Len(passes) \in Nat BY <1>2, <1>3
    <3>2. 1 \in 1..Len(Defined) + 1 /\ 1 \in 1..Len(passes) BY <1>2, <3>1
    <3> QED BY <1>4, <3>2
  <2>2. ir \in [DOMAIN Defined -> Code] BY <1>3, <1>4
  <2> QED BY <1>2, <1>4, <2>1, <2>2 DEF PipelineTypeOK, FeatureKey
<1> QED BY <1>4, <1>5 DEF PipelineInv, CacheCurrent, KoflerPrintsCurrent,
      DefaultMissesNormalForm, ResultsStayOwn, PrintedBy, FeatureKey

LEMMA AdvanceType ==
  ASSUME PipelineTypeOK, Running, Advance
  PROVE  at' \in [fn : 1..Len(Defined) + 1, pass : 1..Len(passes)]
<1>1. Len(Defined) \in Nat BY PipelineAssumption
<1>2. Len(passes) \in Nat BY DEF PipelineTypeOK
<1>3. /\ at.fn \in 1..Len(Defined) + 1 /\ at.fn <= Len(Defined) /\ at.pass \in 1..Len(passes)
      /\ at = [fn |-> at.fn, pass |-> at.pass]
  BY DEF PipelineTypeOK, Running
<1>4. CASE at.pass < Len(passes)
  <2>1. at' = [fn |-> at.fn, pass |-> at.pass + 1] BY <1>3, <1>4 DEF Advance
  <2> QED BY <1>1, <1>2, <1>3, <1>4, <2>1
<1>5. CASE ~(at.pass < Len(passes))
  <2>1. at' = [fn |-> at.fn + 1, pass |-> 1] BY <1>5 DEF Advance
  <2> QED BY <1>1, <1>2, <1>3, <2>1
<1> QED BY <1>4, <1>5

LEMMA RequestInv ==
  ASSUME Inv, PipelineInv, NEW an \in Analysis, Request(an)
  PROVE  PipelineInv'
<1> DEFINE v == VersionFor(an)
<1>1. /\ Now \in Code /\ at.fn \in DOMAIN Defined /\ v \in Code
      /\ phase = "idle" /\ Pass = an
  BY StepTypes DEF Request, Reached, PipelineInv
<1>2. UNCHANGED <<passes, at, cache, printed, process>> BY DEF Request
<1>3. /\ Pass' = Pass /\ FeatureKey' = FeatureKey /\ Key(an)' = Key(an)
  BY <1>2 DEF Pass, FeatureKey, Key
<1>4. ResultsStayOwn' /\ KoflerPrintsCurrent' /\ DefaultMissesNormalForm'
  BY <1>2, <1>3 DEF PipelineInv, ResultsStayOwn, KoflerPrintsCurrent,
       DefaultMissesNormalForm, PrintedBy, OwnTally, TallyOf
<1>5. CASE phase' = "extract"
  <2>1. ir' = [ir EXCEPT ![at.fn] = v] BY <1>5 DEF Request
  <2>2. ir \in [DOMAIN Defined -> Code] BY DEF PipelineInv, PipelineTypeOK
  <2>3. call' = [an |-> an, fun |-> v, pos |-> 1]
    <3>1. v \notin Declaration BY <1>1 DEF Code
    <3>2. Run(an, v) BY DEF Request
    <3>3. ~Crash BY <1>5 DEF Crash
    <3> HIDE DEF v
    <3> QED BY <3>1, <3>2, <3>3 DEF Run
  <2>4. ir' \in [DOMAIN Defined -> Code] /\ ir'[at.fn] = v BY <1>1, <2>1, <2>2
  <2>5. Now' = v BY <1>2, <2>4 DEF Now
  <2>6. at.fn <= Len(Defined) /\ Key(an) \notin DOMAIN cache
    BY DEF Request, Reached, Running
  <2>7. PipelineTypeOK'
    BY <1>1, <1>2, <1>3, <2>3, <2>4, <2>5, <2>6 DEF PipelineInv, PipelineTypeOK, Key
  <2>8. CacheCurrent'
    <3> SUFFICES ASSUME NEW i \in DOMAIN Defined PROVE CacheCurrent!(i)'
      BY DEF CacheCurrent
    <3>1. CacheCurrent!(i) BY DEF PipelineInv, CacheCurrent
    <3>2. CASE i # at.fn
      <4>1. ir'[i] = ir[i] BY <2>1, <2>2, <3>2
      <4> QED BY <1>2, <1>3, <3>1, <3>2, <4>1
    <3>3. CASE i = at.fn /\ an = "default"
      <4>1. ir'[i] = ir[i] BY <2>4, <3>3 DEF VersionFor, Now
      <4>2. <<"default", i>> \notin DOMAIN cache BY <2>6, <3>3 DEF Key
      <4> QED BY <1>2, <3>1, <4>1, <4>2
    <3>4. CASE i = at.fn /\ an = "kofler13"
      <4>1. ir'[i] = NormalForm[ir[i]] BY <2>4, <3>4 DEF VersionFor, Now
      <4>2. <<"kofler13", i>> \notin DOMAIN cache BY <2>6, <3>4 DEF Key
      <4>3. <<"default", i>> \in DOMAIN cache => ir[i] = cache[<<"default", i>>].fun
        BY <1>1, <3>1, <4>2
      <4> QED BY <1>1, <1>2, <1>3, <1>5, <3>4, <4>1, <4>2, <4>3
    <3> QED BY <3>2, <3>3, <3>4, PipelineAssumption
  <2> QED BY <1>4, <2>7, <2>8 DEF PipelineInv
<1>6. CASE phase' # "extract"
  <2>1. ir' = ir BY <1>6 DEF Request
  <2>2. PipelineTypeOK' BY <1>2, <1>3, <1>6, <2>1 DEF PipelineInv, PipelineTypeOK
  <2>3. CacheCurrent' BY <1>1, <1>2, <1>3, <2>1 DEF PipelineInv, CacheCurrent
  <2> QED BY <1>4, <2>2, <2>3 DEF PipelineInv
<1> QED BY <1>5, <1>6

(* What a printed result is compared with does not move.                     *)
LEMMA PrintedStays ==
  ASSUME PipelineInv, UNCHANGED printed
  PROVE  /\ KoflerPrintsCurrent' /\ DefaultMissesNormalForm'
         /\ \A p \in printed' : p.an \in Analysis => OwnTally(p.result)
BY DEF PipelineInv, KoflerPrintsCurrent, DefaultMissesNormalForm, ResultsStayOwn, PrintedBy

LEMMA WorkInv ==
  ASSUME Inv, PipelineInv, Work
  PROVE  PipelineInv'
<1>1. UNCHANGED <<passes, at, ir, cache, printed, process>> BY DEF Work, world
<1>2. Pass' = Pass /\ FeatureKey' = FeatureKey /\ Now' = Now /\ Key(Pass)' = Key(Pass)
  BY <1>1 DEF Pass, FeatureKey, Key, Now
<1>3. phase = "extract" /\ call \in [an : Analysis, fun : Function \ Declaration, pos : Nat \ {0}]
  BY DEF Work, Eval, Inv, TypeOK, IsCall
<1>4. phase' = "extract" => call'.an = call.an /\ call'.fun = call.fun
  BY <1>3 DEF Work, Eval, Crash
<1>5. phase' # "idle" BY <1>3 DEF Work, Eval, Crash
<1>6. PipelineTypeOK' BY <1>1, <1>2, <1>3, <1>4 DEF PipelineInv, PipelineTypeOK
<1>7. CacheCurrent' BY <1>1, <1>2, <1>3, <1>5 DEF PipelineInv, CacheCurrent
<1>8. ResultsStayOwn' BY <1>1, <1>2, PrintedStays DEF PipelineInv, ResultsStayOwn
<1> QED BY <1>1, <1>6, <1>7, <1>8, PrintedStays DEF PipelineInv

(* What Finalize returns holds the tally of the whole function.              *)
LEMMA FinalizeTally ==
  ASSUME Inv, Finalize, phase' = "idle"
  PROVE  OwnTally(result')
<1> DEFINE a == call.an  f == call.fun  s == features[a]  last == Len(Body[f])
           obj == Normalize(s, objs[s], Coalesced[f])
<1>1. IsCall(call) /\ phase = "extract" /\ call.pos > last BY DEF Inv, TypeOK, Finalize
<1>2. /\ f \in Function /\ s \in SetName /\ last \in Nat
      /\ call.pos \in Nat /\ call.pos <= last + 1
  BY <1>1, ConstantsAssumption DEF IsCall, Inv, TypeOK
<1>3. call.pos - 1 = last BY <1>1, <1>2
<1>4. result' = Return(a, f, obj) BY DEF Finalize, Set, Target, Crash
<1>5. obj.raw = objs[s].raw
  <2>1. IsObject(s, objs[s]) BY <1>2 DEF Inv, TypeOK
  <2>2. Coalesced[f] \in [mem_access : Nat, mem_coalesced : Nat]
    BY <1>2, ConstantsAssumption
  <2> HIDE DEF s
  <2> QED BY <1>2, <2>1, <2>2, NormalizeEffect
<1>6. TallyAt(Return(a, f, objs[s]), last)
  BY <1>1, <1>3 DEF Inv, InProgress, Target, Set
<1> QED BY <1>4, <1>5, <1>6 DEF TallyAt, Return, TallyOf, OwnTally

LEMMA CompleteInv ==
  ASSUME Inv, Inv', PipelineInv, Complete
  PROVE  PipelineInv'
<1>1. UNCHANGED <<passes, at, ir, printed, process>> BY DEF Complete
<1>2. Pass' = Pass /\ Now' = Now /\ \A an : Key(an)' = Key(an)
  BY <1>1 DEF Pass, Key, Now
<1>3. /\ phase = "extract" /\ call.an \in Analysis
      /\ call.an = Pass /\ call.fun = Now /\ Key(Pass) \notin DOMAIN cache
  BY DEF Complete, Finalize, PipelineInv, Inv, TypeOK, IsCall, PipelineTypeOK
<1>4. Now \in Code /\ at.fn \in DOMAIN Defined
  BY StepTypes DEF Complete, PipelineInv
<1>5. KoflerPrintsCurrent' /\ DefaultMissesNormalForm' BY <1>1, PrintedStays
<1>6. CASE phase' = "idle"
  <2>1. cache' = Keep(Pass, result') BY <1>3, <1>6 DEF Complete, KeepResult
  <2>2. /\ DOMAIN cache' = DOMAIN cache \cup {Key(Pass)} /\ cache'[Key(Pass)] = result'
        /\ \A key \in DOMAIN cache : cache'[key] = cache[key]
    BY <1>3, <2>1 DEF Keep
  <2>3. result'.an = Pass /\ result'.fun = Now
    BY <1>3, <1>6 DEF Complete, Finalize, Crash, Return
  <2>4. PipelineTypeOK'
    <3>1. Key(Pass) \in Printer \X DOMAIN Defined /\ Key(Pass)[1] = Pass
      BY <1>3, <1>4, PipelineAssumption DEF Key, Printer
    <3>2. \A key \in FeatureKey' : cache'[key].an = key[1] /\ cache'[key].fun \in Code
      BY <1>4, <2>2, <2>3, <3>1 DEF FeatureKey, PipelineInv, PipelineTypeOK
    <3> QED BY <1>1, <1>6, <2>2, <3>1, <3>2 DEF PipelineInv, PipelineTypeOK
  <2>5. CacheCurrent'
    <3> SUFFICES ASSUME NEW i \in DOMAIN Defined PROVE CacheCurrent!(i)'
      BY DEF CacheCurrent
    <3>1. CacheCurrent!(i) BY DEF PipelineInv, CacheCurrent
    <3>2. \A an : <<an, i>> = Key(Pass) <=> an = Pass /\ i = at.fn BY DEF Key
    <3>3. \A an : <<an, i>> # Key(Pass) =>
                  /\ (<<an, i>> \in DOMAIN cache' <=> <<an, i>> \in DOMAIN cache)
                  /\ <<an, i>> \in DOMAIN cache => cache'[<<an, i>>] = cache[<<an, i>>]
      BY <2>2
    <3>4. CASE i # at.fn BY <1>1, <3>1, <3>2, <3>3, <3>4
    <3>5. CASE i = at.fn /\ Pass = "default"
      <4>1. cache'[<<"default", i>>].fun = ir'[i]
        BY <1>1, <2>2, <2>3, <3>2, <3>5 DEF Now
      <4> QED BY <1>1, <3>1, <3>2, <3>3, <3>5, <4>1
    <3>6. CASE i = at.fn /\ Pass = "kofler13"
      <4>1. <<"kofler13", i>> \in DOMAIN cache' /\ cache'[<<"kofler13", i>>].fun = ir'[i]
        BY <1>1, <2>2, <2>3, <3>2, <3>6 DEF Now
      <4> QED BY <1>1, <3>1, <3>2, <3>3, <3>6, <4>1
    <3> QED BY <1>3, <3>4, <3>5, <3>6, PipelineAssumption
  <2>6. ResultsStayOwn'
    <3>1. OwnTally(result') BY <1>6, FinalizeTally DEF Complete
    <3>2. \A key \in FeatureKey' : OwnTally(cache'[key])
      BY <2>2, <3>1 DEF FeatureKey, PipelineInv, ResultsStayOwn
    <3> QED BY <1>1, <3>2, PrintedStays DEF ResultsStayOwn
  <2> QED BY <1>5, <2>4, <2>5, <2>6 DEF PipelineInv
<1>7. CASE phase' # "idle"
  <2>1. cache' = cache /\ FeatureKey' = FeatureKey BY <1>7 DEF Complete, FeatureKey
  <2>2. phase' # "extract" BY <1>3 DEF Complete, Finalize, Crash
  <2>3. PipelineTypeOK' BY <1>1, <2>1, <2>2 DEF PipelineInv, PipelineTypeOK
  <2>4. CacheCurrent' BY <1>1, <1>2, <1>3, <1>7, <2>1 DEF PipelineInv, CacheCurrent
  <2>5. ResultsStayOwn' BY <1>1, <2>1, PrintedStays DEF PipelineInv, ResultsStayOwn
  <2> QED BY <1>5, <2>3, <2>4, <2>5 DEF PipelineInv
<1> QED BY <1>6, <1>7

LEMMA PrintInv ==
  ASSUME Inv, PipelineInv, NEW an \in Printer, PrintResult(an)
  PROVE  PipelineInv'
<1>1. /\ UNCHANGED <<vars, passes, ir, cache, process>> /\ phase = "idle"
      /\ Key(an) \in DOMAIN cache /\ Running /\ Advance
  BY DEF PrintResult, Reached
<1>2. FeatureKey' = FeatureKey /\ phase' = "idle" BY <1>1 DEF FeatureKey, vars
<1>3. at.fn \in DOMAIN Defined BY <1>1, StepTypes DEF PipelineInv
<1>4. PipelineTypeOK' BY <1>1, <1>2, AdvanceType DEF PipelineInv, PipelineTypeOK
<1>5. CacheCurrent' BY <1>1, <1>2 DEF PipelineInv, CacheCurrent
<1> DEFINE p == [an |-> an, version |-> Now, result |-> cache[Key(an)]]
<1>6. printed' = printed \cup {p} BY DEF PrintResult
<1>7. CacheCurrent!(at.fn) BY <1>3 DEF PipelineInv, CacheCurrent
<1>8. KoflerPrintsCurrent'
  <2>1. an = "kofler13" => p.result.fun = p.version BY <1>1, <1>7 DEF Key, Now
  <2> QED BY <1>6, <2>1 DEF PipelineInv, KoflerPrintsCurrent, PrintedBy
<1>9. DefaultMissesNormalForm'
  <2>1. an = "default" => p.version \in {p.result.fun, NormalForm[p.result.fun]}
    BY <1>1, <1>7 DEF Key, Now
  <2> QED BY <1>6, <2>1 DEF PipelineInv, DefaultMissesNormalForm, PrintedBy
<1>10. ResultsStayOwn'
  <2>1. an \in Analysis => OwnTally(p.result)
    BY <1>1 DEF PipelineInv, ResultsStayOwn, FeatureKey, Key
  <2> QED BY <1>1, <1>2, <1>6, <2>1 DEF PipelineInv, ResultsStayOwn
<1> QED BY <1>4, <1>5, <1>8, <1>9, <1>10 DEF PipelineInv

LEMMA PolFeatInv ==
  ASSUME Inv, PipelineInv, RunPolFeat
  PROVE  PipelineInv'
<1>1. UNCHANGED <<vars, passes, at, ir, printed>> /\ phase = "idle" /\ Running
  BY DEF RunPolFeat, Reached
<1>2. at.fn \in DOMAIN Defined BY <1>1, StepTypes DEF PipelineInv
<1>3. /\ \A key : key[1] \in Analysis =>
           /\ key \in DOMAIN cache' <=> key \in DOMAIN cache
           /\ key \in DOMAIN cache => cache'[key] = cache[key]
      /\ DOMAIN cache' \subseteq Printer \X DOMAIN Defined
      /\ process' \in {"running", "killed"}
  <2>1. Key("polfeat") \in Printer \X DOMAIN Defined /\ Key("polfeat")[1] \notin Analysis
    BY <1>2, PipelineAssumption DEF Key, Printer
  <2> QED BY <2>1 DEF RunPolFeat, Keep, PipelineInv, PipelineTypeOK
<1>4. FeatureKey' = FeatureKey /\ \A key \in FeatureKey : cache'[key] = cache[key]
  BY <1>3 DEF FeatureKey
<1>5. phase' = "idle" BY <1>1 DEF vars
<1>6. PipelineTypeOK' BY <1>1, <1>3, <1>4, <1>5 DEF PipelineInv, PipelineTypeOK
<1>7. CacheCurrent'
  <2> SUFFICES ASSUME NEW i \in DOMAIN Defined PROVE CacheCurrent!(i)'
    BY DEF CacheCurrent
  <2>1. CacheCurrent!(i) BY DEF PipelineInv, CacheCurrent
  <2>2. <<"kofler13", i>>[1] \in Analysis /\ <<"default", i>>[1] \in Analysis
    BY PipelineAssumption
  <2> QED BY <1>1, <1>3, <2>1, <2>2
<1>8. ResultsStayOwn' BY <1>1, <1>4, PrintedStays DEF PipelineInv, ResultsStayOwn
<1> QED BY <1>1, <1>6, <1>7, <1>8, PrintedStays DEF PipelineInv

LEMMA TransformInv ==
  ASSUME Inv, PipelineInv, Running, phase = "idle", NEW new \in Code, Transform(new)
  PROVE  PipelineInv'
<1>1. /\ UNCHANGED <<vars, passes, printed, process>> /\ Advance
      /\ ir' = [ir EXCEPT ![at.fn] = new] /\ cache' = Invalidate(new)
  BY DEF Transform
<1>2. at.fn \in DOMAIN Defined /\ ir \in [DOMAIN Defined -> Code]
  BY StepTypes DEF PipelineInv, PipelineTypeOK
<1>3. /\ \A key \in DOMAIN cache' : key \in DOMAIN cache /\ cache'[key] = cache[key]
      /\ \A key \in DOMAIN cache : key[2] # at.fn => key \in DOMAIN cache'
      /\ new = Now => cache' = cache
      /\ new # Now => \A key \in DOMAIN cache' : key[2] # at.fn
  BY <1>1 DEF Invalidate, Restrict
<1>4. FeatureKey' \subseteq FeatureKey /\ \A key \in FeatureKey' : cache'[key] = cache[key]
  BY <1>3 DEF FeatureKey
<1>5. phase' = "idle" BY <1>1 DEF vars
<1>6. ir' \in [DOMAIN Defined -> Code] BY <1>1, <1>2
<1>7. DOMAIN cache' \subseteq Printer \X DOMAIN Defined
  BY <1>3 DEF PipelineInv, PipelineTypeOK
<1>8. PipelineTypeOK'
  BY <1>1, <1>4, <1>5, <1>6, <1>7, AdvanceType DEF PipelineInv, PipelineTypeOK
<1>9. CacheCurrent'
  <2> SUFFICES ASSUME NEW i \in DOMAIN Defined PROVE CacheCurrent!(i)'
    BY DEF CacheCurrent
  <2>1. CacheCurrent!(i) BY DEF PipelineInv, CacheCurrent
  <2>2. \A an : <<an, i>>[2] = i OBVIOUS
  <2>3. CASE i = at.fn /\ new # Now BY <1>3, <2>2, <2>3
  <2>4. CASE i = at.fn /\ new = Now
    <3>1. ir'[i] = ir[i] /\ cache' = cache BY <1>1, <1>2, <1>3, <2>4 DEF Now
    <3> QED BY <1>5, <2>1, <3>1
  <2>5. CASE i # at.fn
    <3>1. ir'[i] = ir[i] BY <1>1, <1>2, <2>5
    <3> QED BY <1>3, <2>1, <2>2, <2>5, <3>1
  <2> QED BY <2>3, <2>4, <2>5
<1>10. ResultsStayOwn' BY <1>1, <1>4, PrintedStays DEF PipelineInv, ResultsStayOwn
<1> QED BY <1>1, <1>8, <1>9, <1>10, PrintedStays DEF PipelineInv

LEMMA PipelineStepInv ==
  ASSUME Inv, Inv', PipelineInv, [PipelineStep \/ Stopped]_allVars
  PROVE  PipelineInv'
<1>1. CASE \E an \in Analysis : Request(an) BY <1>1, RequestInv
<1>2. CASE Work BY <1>2, WorkInv
<1>3. CASE Complete BY <1>3, CompleteInv
<1>4. CASE \E an \in Printer : PrintResult(an) BY <1>4, PrintInv
<1>5. CASE RunPolFeat BY <1>5, PolFeatInv
<1>6. CASE RunLCSSA
  <2>1. LCSSA[Now] \in Code
    BY <1>6, StepTypes, PipelineAssumption DEF RunLCSSA, Reached, PipelineInv
  <2> QED BY <1>6, <2>1, TransformInv DEF RunLCSSA, Reached
<1>7. CASE RunOther
  <2>1. Rewrite[Now] \subseteq Code
    BY <1>7, StepTypes, PipelineAssumption DEF RunOther, Reached, PipelineInv
  <2> QED BY <1>7, <2>1, TransformInv DEF RunOther, Reached
<1>8. CASE UNCHANGED allVars
  <2>1. UNCHANGED <<vars, passes, at, ir, cache, printed, process>>
    BY <1>8 DEF allVars, world
  <2>2. UNCHANGED <<phase, call>> BY <2>1 DEF vars
  <2>3. /\ Pass' = Pass /\ FeatureKey' = FeatureKey /\ Now' = Now
        /\ Key(Pass)' = Key(Pass)
    BY <2>1 DEF Pass, FeatureKey, Now, Key
  <2>4. PipelineTypeOK' BY <2>1, <2>2, <2>3 DEF PipelineInv, PipelineTypeOK
  <2>5. CacheCurrent' BY <2>1, <2>2, <2>3 DEF PipelineInv, CacheCurrent
  <2>6. ResultsStayOwn' BY <2>1, <2>3, PrintedStays DEF PipelineInv, ResultsStayOwn
  <2> QED BY <2>1, <2>4, <2>5, <2>6, PrintedStays DEF PipelineInv
<1> QED BY <1>1, <1>2, <1>3, <1>4, <1>5, <1>6, <1>7, <1>8 DEF PipelineStep, Stopped

-----------------------------------------------------------------------------
(* Both invariants hold together: the driver's on the way to the pipeline's. *)
LEMMA BothInvariant == PipelineSpec => [](Inv /\ PipelineInv)
<1>1. PipelineInit => Inv /\ PipelineInv BY InitInv, PipelineInitInv DEF PipelineInit
<1>2. Inv /\ PipelineInv /\ [PipelineStep \/ Stopped]_allVars => (Inv /\ PipelineInv)'
  <2> SUFFICES ASSUME Inv, PipelineInv, [PipelineStep \/ Stopped]_allVars
               PROVE  Inv' /\ PipelineInv'
    OBVIOUS
  <2>1. [Next]_vars BY StepRefines DEF PipelineInv
  <2>2. Inv' BY <2>1, NextInv
  <2> QED BY <2>2, PipelineStepInv
<1> QED BY <1>1, <1>2, PTL DEF PipelineSpec

(* The versions, results and cursors of the managers keep their types.       *)
THEOREM PipelineTypeCorrect == PipelineSpec => []PipelineTypeOK
<1>1. PipelineInv => PipelineTypeOK BY DEF PipelineInv
<1> QED BY <1>1, BothInvariant, PTL

(* A Kofler result is printed for the version the function is in.            *)
THEOREM KoflerIsCurrent == PipelineSpec => []KoflerPrintsCurrent
<1>1. PipelineInv => KoflerPrintsCurrent BY DEF PipelineInv
<1> QED BY <1>1, BothInvariant, PTL

(* A default result misses at most one normal form.                          *)
THEOREM DefaultMissesOne == PipelineSpec => []DefaultMissesNormalForm
<1>1. PipelineInv => DefaultMissesNormalForm BY DEF PipelineInv
<1> QED BY <1>1, BothInvariant, PTL

(* Cached and printed results keep the counts of the version they name.      *)
THEOREM ResultsAreOwn == PipelineSpec => []ResultsStayOwn
<1>1. PipelineInv => ResultsStayOwn BY DEF PipelineInv
<1> QED BY <1>1, BothInvariant, PTL
=============================================================================
