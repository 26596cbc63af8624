---------------------------- MODULE InterfacePass ----------------------------
(***************************************************************************)
(* CelerityInterfacePass (src/celerity_interface_pass.cpp): a legacy       *)
(* module pass that writes a header with one class per SYCL kernel.  The   *)
(* header is named after the module, and a pass object that has run points *)
(* to a stream that no longer exists.                                      *)
(*                                                                         *)
(* A path is a sequence of characters, of which "." and "/" matter.  A     *)
(* function is its symbol, the scheme it is mangled in, and the kernel its *)
(* demangled name dispatches, if any.                                      *)
(***************************************************************************)
EXTENDS Integers, SequencesExt

CONSTANTS
  Module,         \* modules: [id : paths, functions : sequences of functions]
  PassObject,     \* CelerityInterfacePass objects of the pass managers
  Kernel,         \* names of SYCL kernels
  MaxRuns,        \* bound on the modules run in one process
  None            \* no match of both regular expressions, and no call

VARIABLES
  stream,         \* stream[o]: what o.outputstreamPtr points to
  phase,          \* "idle", "functions", or "crashed": the process has died
  run,            \* the runOnModule call in progress, or None
  files,          \* the headers in the working directory, by name
  history         \* the calls so far: the module, and whether its file opened

vars == <<stream, phase, run, files, history>>

Symbol == [scheme : {"itanium", "microsoft", "none"}, underscores : Nat,
           z : BOOLEAN, kernel : Kernel \cup {None}]

ASSUME InterfaceAssumption ==
  /\ None \notin Kernel /\ MaxRuns \in Nat
  /\ \A m \in Module : m.id \in Seq(STRING) /\ m.functions \in Seq(Symbol)
  /\ \A m \in Module : \A i \in DOMAIN m.functions :
       LET f == m.functions[i]
       IN  /\ f.scheme = "itanium" => f.underscores \in 1..4 /\ f.z
           /\ f.scheme = "microsoft" => f.underscores = 0    \* a question mark

-----------------------------------------------------------------------------
(* extractFileName: substr takes a position and a length, and is given two   *)
(* positions.  They are counted from 0 in C++ and from 1 here.               *)
RFind(path, char) == SelectLastInSeq(path, LAMBDA c : c = char)
ExtractFileName(path) ==
  LET sep == RFind(path, "/")
      len == IF RFind(path, ".") = 0 THEN Len(path) ELSE RFind(path, ".") - 1
  IN  SubSeq(path, sep + 1, IF sep + len < Len(path) THEN sep + len ELSE Len(path))

\* mutant: not "done twice to make sure"
HeaderNameOnce(m) == ExtractFileName(m.id)
HeaderName(m) == ExtractFileName(ExtractFileName(m.id))

\* One to four leading underscores and a Z.
isItaniumEncoding(f) == f.underscores \in 1..4 /\ f.z

\* The kernel found in the demangled name; a name that no demangler takes is
\* matched as it is, and does not match.
KernelOf(f) ==
  IF f.scheme = IF isItaniumEncoding(f) THEN "itanium" ELSE "microsoft"
  THEN f.kernel ELSE None

-----------------------------------------------------------------------------
Init ==
  /\ stream = [o \in PassObject |-> "cout"]
  /\ phase = "idle"
  /\ run = None
  /\ files = [name \in {} |-> <<>>]
  /\ history = <<>>

Write(name, header) ==
  files' = [n \in DOMAIN files \cup {name} |-> IF n = name THEN header ELSE files[n]]

\* mutant: the stream appends to the file
OpenAppends(name) == IF name \in DOMAIN files THEN files[name] ELSE <<>>
\* std::ofstream truncates the file; the text common to all headers is left out.
Open(name) == <<>>

(* runOnModule up to the first function.  The log lines go to the stream of  *)
(* the object's previous module, which was destroyed when that call          *)
(* returned: the process dies, or the lines are lost.  A file that cannot be *)
(* opened is not noticed.                                                    *)
RunOnModule(o, m) ==
  /\ phase = "idle"
  /\ Len(history) < MaxRuns
  /\ \/ /\ stream[o] = "dangling"
        /\ phase' = "crashed"
        /\ UNCHANGED <<stream, run, files, history>>
     \/ \E opened \in BOOLEAN :
          /\ phase' = "functions"
          /\ stream' = [stream EXCEPT ![o] = "file"]
          /\ run' = [pass |-> o, module |-> m, name |-> HeaderName(m),
                     opened |-> opened, next |-> 1]
          /\ history' = Append(history, [module |-> m, opened |-> opened])
          /\ IF opened THEN Write(HeaderName(m), Open(HeaderName(m)))
             ELSE UNCHANGED files

(* runOnFunction: demangle, match, printKernelClass to the current stream. *)
RunOnFunction ==
  /\ phase = "functions"
  /\ run.next <= Len(run.module.functions)
  /\ LET kernel == KernelOf(run.module.functions[run.next])
     IN  IF kernel # None /\ run.opened
         THEN Write(run.name, Append(files[run.name], kernel))
         ELSE UNCHANGED files
  /\ run' = [run EXCEPT !.next = @ + 1]
  /\ UNCHANGED <<stream, phase, history>>

\* mutant: the stream is a member of the pass and outlives the call
CloseKeepsStream ==
  /\ phase = "functions"
  /\ run.next > Len(run.module.functions)
  /\ phase' = "idle"
  /\ run' = None
  /\ UNCHANGED <<stream, files, history>>

(* The file is closed and its stream destroyed, the pointer to it stays. *)
Close ==
  /\ phase = "functions"
  /\ run.next > Len(run.module.functions)
  /\ phase' = "idle"
  /\ stream' = [stream EXCEPT ![run.pass] = "dangling"]
  /\ run' = None
  /\ UNCHANGED <<files, history>>

(* The pass manager of another compilation adds a new pass object.  The two  *)
(* extension points are disjoint: one object each.                           *)
AddPass(o) ==
  /\ phase = "idle"
  /\ stream' = [stream EXCEPT ![o] = "cout"]
  /\ UNCHANGED <<phase, run, files, history>>

Next ==
  \/ \E o \in PassObject : AddPass(o) \/ \E m \in Module : RunOnModule(o, m)
  \/ RunOnFunction
  \/ Close

Spec == Init /\ [][Next]_vars

-----------------------------------------------------------------------------
(* Type invariant: headers are lists of kernels, and a call in progress has  *)
(* an object whose stream is the file.                                       *)
TypeOK ==
  /\ stream \in [PassObject -> {"cout", "file", "dangling"}]
  /\ phase \in {"idle", "functions", "crashed"}
  /\ \A name \in DOMAIN files : files[name] \in Seq(Kernel)
  /\ history \in Seq([module : Module, opened : BOOLEAN]) /\ Len(history) <= MaxRuns
  /\ phase # "functions" => run = None
  /\ phase = "functions" =>
       /\ run \in [pass : PassObject, module : Module, name : Seq(STRING),
                   opened : BOOLEAN, next : Nat \ {0}]
       /\ run.next <= Len(run.module.functions) + 1
       /\ run.opened => run.name \in DOMAIN files
  /\ \A o \in PassObject :
       stream[o] = "file" <=> phase = "functions" /\ run.pass = o

(* The header is named after the module's file, without directory and        *)
(* extension: exactly for these paths.  The length that substr is given is   *)
(* repaired by the second call, but a name with two dots is cut twice when   *)
(* there is no directory, and a dot in a directory is taken for the          *)
(* extension of a file without one.                                          *)
BaseName(path) == SubSeq(path, RFind(path, "/") + 1, Len(path))
Stem(path) ==
  LET base == BaseName(path)
  IN  IF "." \in ToSet(base) THEN SubSeq(base, 1, RFind(base, ".") - 1) ELSE base
Regular(path) ==
  IF "/" \in ToSet(path)
  THEN "." \in ToSet(BaseName(path)) \/ "." \notin ToSet(path)
         \/ Len(BaseName(path)) < RFind(path, ".")
  ELSE Cardinality({i \in DOMAIN path : path[i] = "."}) <= 1

NamedAfterModule ==
  phase = "functions" => (run.name = Stem(run.module.id) <=> Regular(run.module.id))

(* Whatever ran before, on this pass object or another, and wherever its     *)
(* stream pointed, every header in the directory lists the kernels of one    *)
(* module, all of them, in order: the latest module that opened it.          *)
Kernels(functions) ==
  LET kernels[n \in 0..Len(functions)] ==
        IF n = 0 THEN <<>>
        ELSE IF functions[n].scheme = "none" \/ functions[n].kernel = None
        THEN kernels[n - 1]
        ELSE Append(kernels[n - 1], functions[n].kernel)
  IN  kernels
Writing(name) == phase = "functions" /\ run.opened /\ run.name = name
Latest(name) == SelectLastInSeq(history, LAMBDA h : h.opened /\ HeaderName(h.module) = name)

HeadersAreLatest ==
  \A name \in DOMAIN files :
    /\ Latest(name) # 0
    /\ LET functions == history[Latest(name)].module.functions
       IN  files[name] = Kernels(functions)[IF Writing(name) THEN run.next - 1
                                                             ELSE Len(functions)]
=============================================================================
