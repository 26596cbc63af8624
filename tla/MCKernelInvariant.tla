------------------------- MODULE MCKernelInvariant -------------------------
(***************************************************************************)
(* Kernels with up to eleven arguments, one more than there are types for, *)
(* and up to three calls: two to one size, so that one replaces the other, *)
(* with dimensions at and past the last, mangled, and without a callee.    *)
(***************************************************************************)
EXTENDS KernelInvariant

MCName == {"get_global_size", "get_local_size", "get_sub_group_size", "other"}

Args(n, kind) == [i \in 1..n |-> kind]
MCArgs == {<<>>, <<"pointer", "scalar">>, <<"scalar", "pointer", "scalar">>,
           Args(10, "scalar"), Args(11, "scalar"), Args(10, "pointer") \o <<"scalar">>}

Sized(name, dim) == [name |-> name, mangled |-> FALSE, operands |-> 2, dim |-> dim]
MCCall ==
  {Sized("get_global_size", d) : d \in {0, 1, 3, NoDim}}
    \cup {Sized("get_local_size", 2), Sized("other", 0)}
    \cup {[Sized("get_global_size", 0) EXCEPT !.mangled = TRUE]}
    \cup {[name |-> f, mangled |-> FALSE, operands |-> 1, dim |-> NoDim] :
            f \in {"get_sub_group_size", ""}}

MCKernels == [args : MCArgs, calls : UNION {[1..n -> MCCall] : n \in 0..3}]
=============================================================================
