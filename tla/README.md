# celerity-comp in TLA+

celerity-comp is a collection of LLVM 12 passes that turn the functions of a
module into vectors of static code features. This directory holds
specifications of its core, written from the C++ sources, TLC configurations
that check them on small instances, and proofs of their main properties that
TLAPS checks. Paths below are relative to the repository's root.

## The system

| Component | State | Operations | Talks to |
|---|---|---|---|
| Registries (`include/Registry.hpp`) | one static `StringMap` per type: `FSRegistry` (feature sets), `FARegistry` (analyses) | `dispatch`, `registerByKey`, `isRegistered`, `unregisterByKey`, `getKeyList` | filled by static initialisers; read by constructors, `setFeatureSet` and the command line |
| Feature sets (`src/FeatureSet.cpp`, `include/FeatureSet.hpp`, `FeatureNormalization.hpp`, predicates of `MemAccessFeature.hpp`) | `raw`, `feat`, `instruction_tot_contrib` of one object per set | `reset`, `eval`, `add`, `normalize`, `print` | called by the analyses; grewe11 calls the coalescing heuristic |
| Feature analysis (`src/FeatureAnalysis.cpp`, `DefaultFeatureAnalysis`) | the pointer `features` | `run`, `extract`, `finalize`, `setFeatureSet` | a feature-set object shared with every other analysis of that key |
| Kofler13 (`src/Kofler13Analysis.cpp`) | `multiplier` and `loop_cost` during `extract`; the function it simplifies | `extract`, `loopContribution` | LLVM's loop analyses; `eval` of the feature set |
| Coalescing heuristic (`getCoalescedMemAccess`) | the pre-saved geps, a work list, two counters | one call | use lists of the function |
| Kernel invariants (`src/KernelInvariant.cpp`) | a map from invariant types to values | constructor, `isInvariant`, `print` | built by `FeatureAnalysis::extract` |
| Polynomials (`src/IMPoly.cpp`) | a FLINT polynomial | arithmetic, `abs`, `divide_by_two`, `max` | the polynomial analysis |
| Polynomial analysis (`src/PolFeatAnalysis.cpp`, `include/PolFeatAnalysis.hpp`) | a pointer to a `PolFeatSet`; the set's `raw` and `instruction_num` | `run` (a stub), `extract`, the set's `reset` and `add` | its printer |
| Plugin and printers (`src/FeatureAnalysisPlugin.cpp`, `include/*Printer.hpp`) | LLVM's analysis cache | registration callbacks, printer passes | all analyses |
| feature_tool (`src/feature_tool.cpp`) | command-line options, registered analyses | static initialisers, `main` | both registries, the plugin |
| Celerity interface pass (`src/celerity_interface_pass.cpp`) | an output stream pointer; the headers it writes | `runOnModule`, `runOnFunction` | none of the above |

Nothing here runs concurrently, and nothing is persisted. What makes the code
hard is state that outlives the call it belongs to: feature-set objects are
shared by all analyses and all functions and are reset by hand-written lists;
the registries are filled in the order of static initialisation and are changed
by their own queries; an analysis changes the function it analyses while a
manager keeps results about it; integer counters wrap; a work list has no
visited set; and strings, streams and numbers are read that are destroyed or
were never initialised.

What makes each component correct:

* feature sets and driver: a result describes the function it was asked about,
  whatever was analysed before;
* Kofler13: the weight of a block is a function of the loops around it;
* coalescing: exactly the paths from a work-item id to a gep's index count, and
  the walk ends;
* registries: queries never change what is registered, and name what is;
* kernel invariants: a type is bound to a value it names, and none is lost;
* polynomials: every call computes the cost its name promises, and `max` is the
  larger coefficient;
* plugin: a printed result describes the function as it is;
* feature_tool: every analysis finds its feature set, and the exit status tells
  what happened;
* interface pass: a header lists the kernels of the latest module of its name.

## The modules

| Module | Models | Correspondence |
|---|---|---|
| `MachineInt` | C++ `int` and `unsigned` of a given width | `ToInt`, `UInt` wrap |
| `FeatureSet` | the three feature sets | an object is a record; `Reset`, `Hits` and `Add` (the two halves of `eval`), `Normalize` are operators on it |
| `FeatureAnalysis` | `FeatureAnalysis::run` and `setFeatureSet` | `objs` are the registered objects, `features` the pointers; `Run` is everything up to the first `eval`, `Eval` one instruction, `Finalize` the rest of `run`; `Crash` is a null dereference or a failed assertion |
| `Kofler13` | `Kofler13Analysis::extract` | one action per numbered step of the source and per loop that step visits |
| `CoalescedMemAccess` | `getCoalescedMemAccess` | one action per numbered step; `FollowUse` is one turn of the work-list loop |
| `RegistrySpec` | what `Registry.hpp`'s comments promise | a store only two of the five calls change, and queries that tell what is in it |
| `Registry` | `Registry<T>` | one action per static method; `Implements` is the refinement, up to the keys `dispatch` left behind |
| `KernelInvariant` | the constructor and `isInvariant` | one action per argument and per call instruction |
| `Powers` | powers of integers with a natural exponent | what `CostSpec` and the value of a term of `PolFeatSet` are stated with |
| `CostSpec` | what polynomials over invariants are for | a variable is a number at every point; one action per call, which the variable `last` names with its operands |
| `IMPoly` | `IMPoly` | a polynomial maps monomials to coefficients; one action per operation of the class, recorded in the history variable `last` |
| `PolFeatSet` | `PolFeatSet` | `reset` and `add` over `IMPoly`'s objects; `Compute` is any other code that uses polynomials; `Costs` is the refinement |
| `Pipeline` | the plugin's callbacks, the printers and LLVM's cache | `Request`, `Work`, `Complete` are a run of an analysis, `PrintResult` the printer, `RunLCSSA` and `RunOther` passes that change the function |
| `FeatureTool` | `feature_ext` from start to exit | `todo` lists what static initialisers and `main` still have to do; one action per kind of entry |
| `InterfacePass` | `CelerityInterfacePass` | `RunOnModule` up to the first function, `RunOnFunction`, `Close` at the return; `AddPass` is a new pass object |
| `MC*` | | the small instances; `*.cfg` give the constants |
| `*Proofs` | | theorems, one module per component; `ProgramProofs` is about the two programs that share no state with the rest, `FeatureTool` and `InterfacePass` |

`FeatureAnalysis` includes `FeatureSet`, and `FeatureSet` includes
`MachineInt`. What the driver gets from Kofler13 (the contribution of each
instruction) and from the coalescing heuristic (two counters) are the constants
`Contribution` and `Coalesced`, any int and any pair of naturals: everything the
two modules can produce is a value of these constants.

`Pipeline` includes `FeatureAnalysis` and takes the driver's steps for the run
that a printer asks for; there a member of `Function` is one version of a
function's code. `PolFeatSet` includes `IMPoly`. `FeatureTool` has three
instances of `Registry`: the tool's two registries and the plugin's feature
sets, which the plugin has for itself because the tool exports no symbols to it.

What the language leaves undefined and what comes from outside is a choice:

* the uninitialised `instruction_tot_contrib` starts with any of a set of values
  (one in the instance, every int in the theorems);
* a callee name read through the dangling `StringRef` of `get_demangled_name`
  (`FeatureSet.cpp:72`) may be any name: it may match a table the callee is not
  in, an earlier callee's name being still there, or none. `KernelInvariant`
  records such calls in the history variable `misread`;
* what LLVM knows of a loop (whether it can be simplified, whether its bounds
  are constant) is chosen when `Kofler13` starts;
* `PolFeatAnalysis::run` reads through a pointer nobody set: the process dies,
  or the result is garbage;
* `abs` hands FLINT integers that were never initialised: it works or crashes;
  `divide_by_two` of a coefficient that is no `unsigned long` gives anything;
* the interface pass logs to a stream that no longer exists: it dies, or the
  lines are lost; opening a header may fail;
* `feature_ext` is given a readable module and a plugin, or not.

External code: LLVM's `StringMap`, use lists, `LoopInfo` and `simplifyLoop` are
modelled from what the sources ask of them. `simplifyLoop` is the block it adds:
a preheader, which belongs to the loops around, or the block that joins several
latches, which belongs to the loop too. Where it splits such a loop in two
instead, the loops of the model are those it leaves. LCSSA formation adds
phi nodes and no block, and the module says nothing of instructions. The
function analysis manager keeps a result until a pass that changed the function
says so; FLINT's sums and products drop terms that cancel, and setting a
coefficient to zero leaves its term.

## What the runs check

Passing runs (distinct states in parentheses):

* `feature_analysis` (619,943). Two analyses that share their feature set and
  may move to the full one, four functions: shifts and a math call, local and
  global accesses and a call that is both math and barrier, an intrinsic and an
  indirect call, a declaration. `int` has the range -4..3 and a contribution of
  3 makes it wrap within one function; contributions are positive and negative.
  There is no bound on the number of runs: the state space is finite because
  counters are. `RawIsOwnTally` compares every count with a reference tally that
  is given as a running sum over the function, not by replaying `eval`; it
  leaves out the features that depend on a callee's name, and takes the
  `mem_loc` of grewe11 for what the code counts, the accesses to the global
  address space. `CallsCountOnce` bounds the others: whatever bytes are read for
  a name, every intrinsic counts and no call counts twice, for math and barrier
  together. `FullFeatIsOwnShare` compares the normalized values of the full set
  with the same reference tally.
* `kofler13` (263,424). A nest of two loops and a loop after it, every
  combination of forms (in normal form, without preheader, with several latches,
  beyond repair) and bounds, final values -1, 2 and 30000, `int` of 16
  bits: 100 * 100 fits, 30000 * 100 wraps. `WeightIsProduct` compares with the
  product computed in one go, `SameLoopsSameWeight` compares blocks with each
  other, inserted ones included, `NestedWeighsMore` states the point of the
  heuristic under the conditions it needs: positive costs and no wrap.
* `coalesced_mem_access` (52,416). Functions of eight instructions, wired in
  1,296 ways that allow phi cycles, several paths to one index, an indirect
  call, and a gep that is not on an argument. `CountIsPathCount` compares the
  counter, the work list and the ids still to come with the number of paths, in
  functions where no id or shl is itself the index of a gep: of such a gep the
  comments and the comparison disagree (below), and the property takes no side.
  `Terminates` needs `WF_vars(Next)`: the code is one sequential call that waits
  for nothing, so it takes its next step as long as there is one.
* `registry` (545). Three keys and two objects, every history of calls of any
  length. `Implements` is the refinement of `RegistrySpec`, which promises what
  the comments say; the mapping leaves out of the answers of `isRegistered` and
  `getKeyList` the keys that `dispatch` left behind, and the run
  `registry_queries` shows that it has to.
* `kernel_invariant` (303,268). Up to eleven arguments, one more than the
  enumeration supports, and up to three calls: repeated sizes, a dimension past
  the last, none, mangled names, no callee. The names and `isInvariant` are
  claimed for at most ten arguments, which is what `KernelInvariant.hpp:25`
  supports; the run shows that the other kernels break nothing else.
  `LatestCallBound` also says which names match: `get_demangled_name` returns
  before it demangles, so a mangled `get_global_size` binds nothing. Any call's
  name may be misread as another function's; the properties say what still holds
  then (`BoundToItsName` of the calls that were not, `RecognisedOnce`,
  `ArgumentsCollected` and `BindingsStay` of all).
* `pipeline` (1,323). Four pipelines, with the printers registered once, twice,
  around another pass, and after an explicit `lcssa`; a module with a function
  that both transformations change, one that only `Kofler13Analysis` changes,
  one that crashes, and a declaration. `KoflerPrintsCurrent` and
  `DefaultMissesNormalForm` say what cached results may miss:
  `Kofler13Analysis` changes the function without the manager being told, so
  that a second default printer writes a result from before.
  `ResultsStayOwn` says of every result in the cache and on the output what
  `RawIsOwnTally` says of the one just returned.
* `polynomials` (137,469). Two objects over two invariants, terms with
  coefficients and exponents 0 and 1, coefficients that sum up to 2 in absolute
  value, degree 2, and an `unsigned long` whose largest value 3 the doubled
  maximum can exceed. `ImplementsCosts` is the refinement of `CostSpec` at two
  points that tell the monomials apart: `last` names the call in both, so that
  the result of `+=` has to be the sum of the costs and of nothing else, and a
  sum cannot pass for an absolute value. `MaxIsLargerCoefficient` is stated of
  all pairs of reachable polynomials, negative coefficients and terms with
  coefficient zero included, wherever no maximum is negative and the doubled
  maximum fits.
* `feature_tool` (5,355). Every combination of the options' values, known or
  not, LLVM's own -help and -version, zero to two files, module and plugin
  present or not. Status 0 does not mean that features were extracted: the pass
  manager of `main` is empty. The exit of `main` for missing parameters
  (`feature_tool.cpp:114-117`) is modelled and never reached:
  `parseAnalysisArguments` returns them or does not return.
* `interface_pass` (468,153). Every path of up to four characters, three names
  that meet in one header, two modules on two pass objects, which symmetry
  exchanges. `NamedAfterModule` states which paths give the expected name and
  which do not: two dots without a directory cut twice (`a.b.cpp` gives `a`), a
  dot in a directory is taken for the extension of a file without one.

The bounds are small where the code compares with nothing larger: two analyses
and two objects already share, two loops already nest, two ids already meet,
eleven arguments is the first number past the limit, two modules already
overwrite and leave a stream behind, a third printing of one function finds
what the second did, and two objects are enough for every operand of an
operation to be itself or another. `MaxTerms`, `MaxDegree` and `MaxNorm`
bound the polynomials, whose state is infinite; `MaxRuns` the modules
of one process. The driver, the registry and the pipeline need no bound.

Fairness is weak fairness of the whole next-state relation, in
`CoalescedMemAccess` only, the one place where the code has a loop whose end is
not evident: one thread that waits for nothing takes its next step as long as it
has one. The other programs run down finite lists, and nothing is claimed of
their ending.

Deadlock is checked where the system goes on: `FeatureAnalysis`, `Registry` and
`Pipeline`, whose last state stutters. It is off where a call returns or the
process ends: `Kofler13`, `CoalescedMemAccess`, `KernelInvariant`,
`FeatureTool` (exit), `PolFeatSet` (undefined behaviour) and `InterfacePass`
(the process dies, or has run its last module).

Three runs each refute one sentence of a comment or an assertion:

| Run | Property | Says | The code |
|---|---|---|---|
| `declaration_values` | `DeclarationHasNoValues` | `FeatureAnalysis.cpp:64` "reset all feature values" | fan19 and grewe11 keep the values; a declaration returns the previous function's |
| `registry_queries` | `QueriesTellRegistered` | `Registry.hpp:41` "Test whether the given key is registered", `:47` "registered keys" | both name a key that was only dispatched |
| `assertion` | `AssertionHolds` | the assertion at `MemAccessFeature.hpp:92` | fails when two ids reach one index |

A fourth disagreement is stated the other way round: `FeatureSet.cpp:241` says
"local mem access" of the code that counts grewe11's `mem_loc`, and
`RawIsOwnTally`, which holds, says that it is the number of global accesses
(`isLocalMemoryAccess` tests for the global address space).

Where the code does something else than a reader would expect and no sentence
is plainly refuted, the passing runs state what it does or leave it open:

* a block in a loop weighs the final value of the induction variable and not
  "x100" of `Kofler13Analysis.hpp:14` (`WeightIsProduct`);
* a popped use is compared with the index of each gep and never with the gep
  itself (`MemAccessFeature.hpp:74`), so that `data[get_global_id(0)]` is not
  counted, although lines 59 and 72 speak of finding the gep; no property of a
  run says which is right (`CountIsPathCount` leaves such functions out);
* the tool's option `grewe13` names a set the registry knows as `grewe11`, and
  nothing reads it.

## What is proved

Every theorem holds for all values of the constants that satisfy the named
assumptions (`IntMaxAssumption`, `ConstantsAssumption`, `TallyAssumption`,
`Kofler13Assumption`, `CoalescedAssumption`, `RegistryAssumption`,
`KernelAssumption`, `PipelineAssumption`, `IMPolyAssumption`,
`PolFeatAssumption`, `ToolAssumption`, `InterfaceAssumption`), which TLC
evaluates on the instances. Two of them say something about the code's input:

* `IsFunction` in `CoalescedAssumption`: no set of shls uses one another in a
  circle. In SSA form the operands of an instruction dominate it unless it is a
  phi, so every circle of uses in reachable code goes through a phi. Without
  this the number of paths from an id to an index is not defined.
* `TallyAssumption`: the reference tallies are running sums. It defines them and
  restricts no function.

Several proofs need induction over numbers, sets or loops. The library's
induction theorems take the formula as an operator, which the provers cannot
instantiate; the induction is then made on a set: the set of numbers for which a
claim fails has a least element (`LeastNatural`, from the well-foundedness of
`<`), or the family of sets for which it fails has a smallest member
(`SmallestSet`, `SetInduction`), and neither can be. The same argument gives
the existence of the recursive functions that the models are written with
(`Recursion`, `FoldExists`).

* `FeatureAnalysisProofs`: `TypeCorrect`, `CountsAreOwn`, `CallsBounded`,
  `SharesAreOwn`. The properties speak of returned results only and are not
  inductive. `Inv` adds `InProgress`: up to instruction `pos - 1` the object a
  run is filling holds the tally, because `Run` has just reset every counter of
  the features of its set, and each `Eval` adds what the next step of the
  running sum adds. It also adds that the full set names no value without a
  counter, which is why its normalize overwrites all of them. For calls by name
  each `Eval` adds its contribution to at most one of math and barrier, whichever
  of the two tables what is read matches. The sums rest on
  the lemmas that wrapping is a congruence: adding to a wrapped sum and
  wrapping again is wrapping the sum.
* `Kofler13Proofs`: `TypeCorrect`, `SameNest`, `DeeperWeighsMore`,
  `WeightsAreProducts`. `Ordered` says, loop by loop, that blocks are ordered as
  their nests are: a block in more loops is multiplied whenever a block in fewer
  is. It holds before the first loop because every block, an inserted one too,
  starts at one. For the weights `ProductSoFar` says that a block weighs the
  product over the loops visited so far, wrapped once: `UIntProduct` is the
  congruence of wrapping and multiplication, and `Products` unfolds the
  recursive product by one loop.
* `CoalescedMemAccessProofs`: `TypeCorrect`, `VisitsIdUses`, `CountsIdUses`,
  `CountsPaths`, `AbortsForTwoPaths`. A set closed under the uses of ids and of
  shls contains the stack at every step. For the count, `Counting` is an
  equation: the counter, plus the paths that still leave the work list, plus
  those of the ids not yet collected, is the number of paths to geps. A pop takes the
  paths of a value off the list and its uses put the same number back
  (`TotalPop`, `TotalPush`); this needs the paths of every value to satisfy
  their recursive equation, which is where the shls must not use one another
  in a circle (`WeightsExist`). `NoPaths` and `OnePathEach` bound the number
  of paths by the number of geps when no index is reached twice, which is why
  only a second path makes the assertion fail.
* `RegistryProofs`: `TypeCorrect` and `Refinement`. Each action maps to the
  action of the same name: the null entries that `dispatch` makes are invisible
  under the mapping, and the keys they leave behind are the only ones an answer
  of `isRegistered` or `getKeyList` has too many.
* `KernelInvariantProofs`: `TypeCorrect`, `NamesAreRight`,
  `EachRecognisedOnce`, `AllArguments`, `LatestCallWins`, `NothingIsLost`. The
  invariant adds that calls bound so far precede the one being looked at, and
  that all scalar arguments before `pos` are bound, and follows the calls that
  were misread; a value is bound once
  because a call has at most one type and an argument one position.
* `PipelineProofs`: `PipelineTypeCorrect`, `KoflerIsCurrent`,
  `DefaultMissesOne`, `ResultsAreOwn`. Every step is a step
  of the driver or leaves its state alone, so its invariant is reused
  (`NextInv`). What printers write comes from the cache, so the strengthening
  `CacheCurrent` is about the cache: a Kofler result is of the current version,
  and a default result is too, or is of the version that was put in normal form,
  which cannot happen again while the Kofler result that did it is kept.
* `PolFeatSetProofs`: `PolTypeCorrect`, `MaxCorrect`, `CostsImplemented`.
  `MaxCorrect` rests on what a sum, an absolute value and
  `a + b + |a - b|` are at a monomial (`CombineIs`, `AbsoluteIs`, `TwiceMaxIs`),
  and on halving twice a number that fits, which returns it. `CostsImplemented`
  is the refinement of `CostSpec`, one lemma per call: at every point the value
  of a result is the sum, difference, product, power or multiple of the operands'
  values, or bounds them. A value
  is a sum over a finite set of terms of products over the invariants, both of
  them folds that take their elements in an unknown order. The proof shows that
  the order does not matter (`FoldStep`), then that sums are linear, monotone,
  may leave out zeros and multiply out (`SumLinear`, `SumAtMost`, `SumExtend`,
  `SumPairs`), that terms may be grouped by their monomial (`SumFibers`), and
  that the value of a product of monomials is the product of the values
  (`PowerSum`).
* `ProgramProofs`, interface pass: `TypeCorrect`, `NamesAreStems`,
  `HeadersLatest`. That a header lists the kernels of the latest module of its
  name is not inductive while functions are being written: `HeadersInv` adds
  `CallInv`, that the call in progress writes the header named after its module
  and, if it opened that header, is the latest call that has.
* `ProgramProofs`, `feature_ext`: `ToolTypeCorrect`, `AnalysesServed`,
  `StatusTellsOutcome`. The initialisation order is data here (`todo`), so the
  invariant `ToolInv` is about the script still to run: `Script` says that
  everything left to do finds what it needs, because it is there already or
  because something before it in the script makes it (`Prepared`): a set is
  registered before an analysis dispatches it, an analysis holds a set before
  anything lists or asserts it, arguments and module are accepted before
  anything runs; the parameters that `main` looks for are there once parsing has
  returned. Loading the plugin prepends a script of its own (`Script` of a
  concatenation), and one lemma per action shows that the rest of the script
  stays prepared.

Model-checked only: `Terminates`, which is liveness under fairness and outside
what the provers do. Every other property of a
passing run is stated by a theorem; the three refuted properties have none.

## What is not modelled

* Printing, names and colours, and `KernelInvariant::print`: no state changes
  (`print` indexes 23 names with an unchecked type; the hazards list says so).
* `instruction_num`, of all feature sets: written, never read.
* Floats: a normalized value is the exact quotient it rounds.
* Substring and prefix tests on names: an instruction carries the tables its
  callee's name matches, a call the OpenCL function it names.
* Loops to which `simplifyLoop` adds several blocks: a loop gets one, outside
  it or inside.
* What main extracts: its pass manager is empty. Nothing is said of the trip
  count a final value stands for either, nor of the value of fan19's features,
  whose denominator is uninitialised (that it is not zero is all `TypeOK` says).
* `PolFeatAnalysis::extract`, which nothing calls and which prints two
  polynomials, and the empty `eval`, `normalize` and `loopContribution` of the
  polynomial analysis.
* The text of a header beyond the kernels it lists.
* A tool built to export its symbols (`-rdynamic`), which would share its
  registries with the plugin; the build files do not ask for it.
* `CoalescedAnalysis.hpp`: a stub nothing includes. Build files (except the link
  order), sample kernels and scripts have no state of their own.

## Plan

1. Done: the core (`MachineInt`, `FeatureSet`, `FeatureAnalysis`, `Kofler13`,
   `CoalescedMemAccess`, `RegistrySpec`, `Registry`, `KernelInvariant`) and its
   proofs.
2. Done: `CostSpec`, `IMPoly`, `PolFeatSet`, `Pipeline`, `FeatureTool`,
   `InterfacePass`; proofs about the pipeline and the polynomials.
3. Done: every safety property, action property and refinement of the passing
   runs is a theorem: the weights and the path count against their recursive
   references, `PolFeatSet` against `CostSpec`, the two programs.
4. Left: the composition of `Kofler13` and `CoalescedMemAccess` with the driver
   in place of the constants `Contribution` and `Coalesced`; the hazards
   without a property, for which the code states nothing to check.
