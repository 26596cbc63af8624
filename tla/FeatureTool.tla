----------------------------- MODULE FeatureTool -----------------------------
(***************************************************************************)
(* feature_ext (src/feature_tool.cpp) from its first static initialiser to *)
(* its exit status.  Feature sets and analyses are registered while the    *)
(* tool starts, unit after unit in the order CMakeLists.txt links them,    *)
(* and feature sets again when the plugin is loaded, which has registries  *)
(* of its own: the tool exports no symbol to it.  todo holds what is left  *)
(* to do; a constructor is the registry calls and the assertion it makes.  *)
(***************************************************************************)
EXTENDS Integers, Sequences

CONSTANTS
  Arguments,      \* command lines: [builtin, fset, fanal, files]
  Null

VARIABLES
  toolSets,       \* FSRegistry of the tool
  pluginSets,     \* FSRegistry of the plugin
  analyses,       \* FARegistry of the tool
  answer,         \* what the latest registry call returned
  held,           \* held[a]: the member features of analysis a
  todo,
  args, readable, plugin,   \* command line, input file, ./libfeature_pass.so
  param,          \* FeatureAnalysisParam, Null before there is one
  process         \* "running", "aborted", "exit 0" or "exit 1"

registries == <<toolSets, pluginSets, analyses, answer>>
given == <<args, readable, plugin>>
toolvars == <<registries, held, todo, given, param, process>>

Image == {"tool", "plugin"}
SetName == {"fan19", "grewe11", "full"}
AnalysisName == {"default", "kofler13", "polfeat"}
FeatureSetOptions == {"fan19", "grewe13", "full"}
Name == SetName \cup AnalysisName
Object == Image \X Name

\* the parameters a command line gives, "" being an absent option
Default(value, default) == IF value = "" THEN default ELSE value
Parsed(a) == [feature_set |-> Default(a.fset, "fan19"), analysis |-> Default(a.fanal, "default")]

\* builtin: an option of LLVM's own parser, -help or -version
ASSUME ToolAssumption ==
  /\ Null \notin Object /\ Null \notin {Parsed(a) : a \in Arguments}
  /\ \A a \in Arguments : /\ a.builtin \in {"", "help", "version"} /\ a.files \in 0..2
                          /\ {a.fset, a.fanal} \subseteq STRING

ToolSets == INSTANCE Registry WITH Key <- Name, map <- toolSets
PluginSets == INSTANCE Registry WITH Key <- Name, map <- pluginSets
Analyses == INSTANCE Registry WITH Key <- Name, map <- analyses

-----------------------------------------------------------------------------
(* What there is to do. *)
Op(do, image, key, an) == [do |-> do, image |-> image, key |-> key, analysis |-> an]
Main(do) == Op(do, "tool", "", "")

\* FeatureAnalysis(), then the constructor derived from it
Dispatches(image, an, set) ==
  <<Op("dispatch", image, "fan19", an), Op("dispatch", image, set, an)>>
DefaultFeatureAnalysis(image, set) ==
  Append(Dispatches(image, "default", set), Op("assert", image, set, "default"))
Kofler13Analysis(image, set) == Dispatches(image, "kofler13", set)

\* static initialisers of the units that have some
FeatureSetUnit(image) ==
  <<Op("register", image, "fan19", ""), Op("register", image, "grewe11", ""),
    Op("register", image, "full", "")>>
ToolUnit ==
  DefaultFeatureAnalysis("tool", "fan19") \o <<Op("list", "tool", "", "default")>>
  \o Kofler13Analysis("tool", "fan19") \o <<Op("list", "tool", "", "kofler13")>>

\* mutant: the tool's unit linked before the library's
LinkOrderToolFirst == ToolUnit \o FeatureSetUnit("tool")
LinkOrder == FeatureSetUnit("tool") \o ToolUnit

MainBody ==
  <<Main("parse"), Main("check params"), Main("load module"), Main("load plugin"), Main("run")>>

\* registerPass calls the function it is given to learn the type
RegisterFunctionAnalyses ==
  DefaultFeatureAnalysis("plugin", "grewe11") \o Kofler13Analysis("plugin", "fan19")

-----------------------------------------------------------------------------
ToolInit ==
  /\ toolSets = [k \in {} |-> Null] /\ pluginSets = [k \in {} |-> Null]
  /\ analyses = [k \in {} |-> Null]
  /\ answer = ToolSets!Answer("none", Null, Null, FALSE, {})
  /\ held = [a \in {} |-> Null]
  /\ todo = LinkOrder \o MainBody
  /\ args \in Arguments /\ readable \in BOOLEAN /\ plugin \in BOOLEAN
  /\ param = Null
  /\ process = "running"

Do(do) == process = "running" /\ todo # <<>> /\ Head(todo).do = do
Continue(more) == todo' = more \o Tail(todo) /\ UNCHANGED process
Exit(status) == process' = status /\ UNCHANGED todo

\* FSRegistry::registerByKey
RegisterSet ==
  /\ Do("register")
  /\ LET o == Head(todo)
     IN \/ /\ o.image = "tool" /\ ToolSets!RegisterByKey(o.key, <<"tool", o.key>>)
           /\ UNCHANGED pluginSets
        \/ /\ o.image = "plugin" /\ PluginSets!RegisterByKey(o.key, <<"plugin", o.key>>)
           /\ UNCHANGED toolSets
  /\ Continue(<<>>)
  /\ UNCHANGED <<analyses, held, given, param>>

\* features = FSRegistry::dispatch(feature_set)
DispatchSet ==
  /\ Do("dispatch")
  /\ LET o == Head(todo)
         a == <<o.image, o.analysis>>
     IN /\ \/ o.image = "tool" /\ ToolSets!Dispatch(o.key) /\ UNCHANGED pluginSets
           \/ o.image = "plugin" /\ PluginSets!Dispatch(o.key) /\ UNCHANGED toolSets
        /\ held' = [x \in DOMAIN held \cup {a} |-> IF x = a THEN answer'.object ELSE held[x]]
  /\ Continue(<<>>)
  /\ UNCHANGED <<analyses, given, param>>

\* assert(features != nullptr)
AssertFeatures ==
  /\ Do("assert")
  /\ IF held[<<Head(todo).image, Head(todo).analysis>>] = Null THEN Exit("aborted")
                                                               ELSE Continue(<<>>)
  /\ UNCHANGED <<registries, held, given, param>>

\* FARegistry::registerByKey
RegisterAnalysis ==
  /\ Do("list")
  /\ Analyses!RegisterByKey(Head(todo).analysis, <<"tool", Head(todo).analysis>>)
  /\ Continue(<<>>)
  /\ UNCHANGED <<toolSets, pluginSets, held, given, param>>

\* LLVM's option parser ends the process itself: with 0 once it has answered
\* -help or -version, with 1 unless there is one file and a value it knows.
Accepted == args.files = 1 /\ args.fset \in FeatureSetOptions \cup {""}

\* mutant: an option of type string, like fanal
ParseAnalysisArgumentsUnchecked ==
  /\ Do("parse")
  /\ Analyses!GetKeyList
  /\ IF args.builtin # "" THEN Exit("exit 0") /\ UNCHANGED param
     ELSE param' = Parsed(args) /\ Continue(<<>>)
  /\ UNCHANGED <<toolSets, pluginSets, held, given>>

ParseAnalysisArguments ==
  /\ Do("parse")
  /\ Analyses!GetKeyList
  /\ \/ args.builtin # "" /\ Exit("exit 0") /\ UNCHANGED param
     \/ args.builtin = "" /\ ~Accepted /\ Exit("exit 1") /\ UNCHANGED param
     \/ args.builtin = "" /\ Accepted /\ param' = Parsed(args) /\ Continue(<<>>)
  /\ UNCHANGED <<toolSets, pluginSets, held, given>>

\* if(!param)
CheckParams ==
  /\ Do("check params")
  /\ IF param = Null THEN Exit("exit 0") ELSE Continue(<<>>)
  /\ UNCHANGED <<registries, held, given, param>>

\* mutant: the error is printed and the empty module handed on
LoadModulePrints ==
  Do("load module") /\ Continue(<<>>) /\ UNCHANGED <<registries, held, given, param>>

LoadModule ==
  /\ Do("load module")
  /\ IF readable THEN Continue(<<>>) ELSE Exit("exit 1")
  /\ UNCHANGED <<registries, held, given, param>>

LoadPlugin ==
  /\ Do("load plugin")
  /\ IF plugin THEN Continue(FeatureSetUnit("plugin") \o RegisterFunctionAnalyses)
               ELSE Exit("exit 1")
  /\ UNCHANGED <<registries, held, given, param>>

\* MPM.run of a manager without passes, and return
Run == Do("run") /\ Exit("exit 0") /\ UNCHANGED <<registries, held, given, param>>

ToolNext ==
  \/ RegisterSet \/ DispatchSet \/ AssertFeatures \/ RegisterAnalysis
  \/ ParseAnalysisArguments \/ CheckParams \/ LoadModule \/ LoadPlugin \/ Run

ToolSpec == ToolInit /\ [][ToolNext]_toolvars

-----------------------------------------------------------------------------
(* The registries map names to their objects, and the parameters of the    *)
(* tool, once it has them, are values its options accept.                  *)
ToolTypeOK ==
  /\ \A map \in {toolSets, pluginSets, analyses} :
       DOMAIN map \subseteq Name /\ \A k \in DOMAIN map : map[k] \in Object \cup {Null}
  /\ DOMAIN held \subseteq Image \X AnalysisName
  /\ param # Null => param.feature_set \in FeatureSetOptions
  /\ process \in {"running", "aborted", "exit 0", "exit 1"}

(* Static initialisation and plugin loading find every feature set before  *)
(* an analysis asks for it: no analysis ever holds the null pointer that   *)
(* dispatch (Registry.hpp, line 25) makes of an unknown name, no name is   *)
(* left mapped to it, each analysis is served from its own image, and the  *)
(* assertion of DefaultFeatureAnalysis never stops the process.            *)
AnalysesHaveSets ==
  /\ process # "aborted"
  /\ \A a \in DOMAIN held : held[a] # Null /\ held[a][1] = a[1]
  /\ Null \notin {toolSets[k] : k \in DOMAIN toolSets}
  /\ Null \notin {pluginSets[k] : k \in DOMAIN pluginSets}
  /\ \A an \in DOMAIN analyses : analyses[an] \in DOMAIN held

(* The exit status tells a script whether the tool got as far as running   *)
(* passes: 0 only where LLVM's parser answered -help or -version, or with  *)
(* an accepted command line, a module that was read and both analyses of   *)
(* the plugin constructed.  main's own exit(0), after "params not set", is *)
(* never the reason.                                                       *)
StatusIsOutcome ==
  process = "exit 0" =>
    \/ args.builtin # ""
    \/ /\ Accepted /\ readable
       /\ {<<"plugin", "default">>, <<"plugin", "kofler13">>} \subseteq DOMAIN held
=============================================================================
