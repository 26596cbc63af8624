---------------------------- MODULE MCFeatureTool ----------------------------
EXTENDS FeatureTool

\* Options of LLVM, accepted and unknown values of both options, with 0 to 2 files.
MCArguments ==
  [builtin : {"", "help", "version"}, fset : {"", "fan19", "grewe13", "grewe11"},
   fanal : {"", "kofler13", "unknown"}, files : 0..2]
=============================================================================
