------------------------ MODULE MCCoalescedMemAccess ------------------------
(***************************************************************************)
(* Functions of eight instructions: two work-item ids, a call that may be  *)
(* indirect, a chain of up to two shls, an instruction with two operands   *)
(* and two geps, wired in many of the ways SSA form allows: "use" may be a *)
(* phi that the chain of shls starts from and comes back to.               *)
(***************************************************************************)
EXTENDS CoalescedMemAccess, SequencesExt

MCInstr == <<"id0", "id1", "fn", "shl1", "shl2", "use", "gep1", "gep2">>
MCValue == Range(MCInstr)

\* operands, by position
Operands ==
  {[id0 |-> <<>>, id1 |-> <<>>, fn |-> <<>>, shl1 |-> <<s1>>, shl2 |-> <<s2>>,
    use |-> u, gep1 |-> <<x1>>, gep2 |-> <<x2>>] :
     s1 \in {"id0", "use", Constant}, s2 \in {"id0", "id1", "shl1"},
     u \in {"id0", "shl1", "shl2"} \X {"id0", "id1", "shl2", "fn"},
     x1 \in {"id0", "shl2", "use", Constant}, x2 \in {"use", "shl1", Constant}}

UsersOf(ops, v) ==
  FlattenSeq([i \in 1..Len(MCInstr) |->
    LET x == MCInstr[i]
        uses == SelectSeq(ops[x], LAMBDA o : o = v)
    IN  [j \in 1..Len(uses) |-> x]])

KindWith(fn) ==
  [id0 |-> "get_global_id", id1 |-> "get_global_id", fn |-> fn, shl1 |-> "shl",
   shl2 |-> "shl", use |-> "other", gep1 |-> "gep", gep2 |-> "gep"]

MCFunctions ==
  {[kind |-> KindWith(fn), users |-> [v \in MCValue |-> UsersOf(ops, v)],
    index |-> [g \in {"gep1", "gep2"} |-> ops[g][1]], argument |-> args] :
     fn \in {"call", "indirect"}, ops \in Operands,
     args \in {{"gep1", "gep2"}, {"gep1"}}}

=============================================================================
