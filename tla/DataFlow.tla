------------------------------ MODULE DataFlow ------------------------------
(***************************************************************************)
(* Analysis::intra_basic_block_data_flow and inter_basic_block_data_flow   *)
(* (static_analysis.rs), which from_executable calls behind the analysis   *)
(* of the control flow: who reads or overwrites what whom wrote.  What a   *)
(* block does not write itself its Phi node asks of the block's sources,   *)
(* in passes over the blocks until no Phi node learns anything new.        *)
(***************************************************************************)
EXTENDS ControlFlow

(* Registers by their fate in a call: R is any of r0..r5 and r10, S any of *)
(* r6..r9.                                                                 *)
Memory == "Memory"
Resources == {"R", "S", Memory}

ASSUME OperandsAssumption ==
    \A p \in Programs : \A i \in Instructions(p) :
        p.text[i].dst \in {"R", "S"} /\ p.text[i].src \in {"R", "S"}

VARIABLES
    dfg_forward_edges, dfg_reverse_edges,
    turn, continue_propagation      \* of a pass, from the last block to the first

flow == <<dfg_forward_edges, dfg_reverse_edges, turn, continue_propagation>>
control == <<program, graph, search, order, dominance>>

InstructionNode(i) == <<"insn", i>>
PhiNode(v) == <<"phi", v>>
Blocks == Nodes \cup {Root}
DfgNodes ==
    {InstructionNode(i) : i \in Instructions(program)} \cup {PhiNode(v) : v \in Blocks}

(* The arm of the match that an opcode meets.  V2 gives loads and stores   *)
(* opcodes which mean arithmetic in the other versions, and the match      *)
(* knows the latter only.                                                  *)
Arm(op) ==
    CASE op \in {"LD_1B_REG", "LD_2B_REG", "LD_8B_REG",
                 "ST_1B_REG", "ST_2B_REG", "ST_8B_REG"} -> "ALU_REG"
      [] op \in {"ST_1B_IMM", "ST_2B_IMM", "ST_4B_IMM", "ST_8B_IMM"} -> "ALU_IMM"
      [] op \in {"LD_4B_REG", "ST_4B_REG", "LMUL_REG"} -> "none"
      [] OTHER -> op

When(test, set) == IF test THEN set ELSE {}

Inputs(arm, insn) ==
    When(arm \in {"ALU_IMM", "ALU_REG", "ST_IMM", "ST_REG", "JCC_IMM", "JCC_REG"}, {insn.dst})
        \cup When(arm \in {"ALU_REG", "MOV_REG", "LD_REG", "ST_REG", "JCC_REG"}, {insn.src})
        \cup When(arm \in {"CALL", "CALLX", "EXIT"}, {"R"})
        \cup When(arm \in {"CALL", "CALLX", "EXIT", "LD_REG"}, {Memory})

Outputs(arm, insn) ==
    When(arm \in {"ALU_IMM", "ALU_REG", "MOV_IMM", "MOV_REG", "LD_REG", "LDDW"}, {insn.dst})
        \cup When(arm \in {"CALL", "CALLX"}, {"R"})
        \cup When(arm \in {"CALL", "CALLX", "ST_IMM", "ST_REG"}, {Memory})

Bound(i) == Inputs(Arm(program.text[i].data), program.text[i])
Written(i) == Outputs(Arm(program.text[i].data), program.text[i])

(* The node that provides a resource ahead of slot i of a block.           *)
Writers(v, i, resource) ==
    {k \in IF v = Root THEN {} ELSE blocks[v] : k < i /\ resource \in Written(k)}
Provider(v, i, resource) ==
    LET writers == Writers(v, i, resource)
    IN  IF writers = {} THEN PhiNode(v) ELSE InstructionNode(Max(writers))

Edge(source, destination, kind, resource) ==
    [source |-> source, destination |-> destination, kind |-> kind, resource |-> resource]

NoFlow ==
    /\ dfg_forward_edges = <<>> /\ dfg_reverse_edges = <<>>
    /\ turn = 0 /\ continue_propagation = FALSE
FlowInit == Init /\ NoFlow

ControlFlowStep == Next /\ UNCHANGED flow

IntraBasicBlock ==
    /\ phase = "done"
    /\ phase' = "propagate"
    /\ LET bind(v, i, kind, resource) ==
               Edge(Provider(v, i, resource), InstructionNode(i), kind, resource)
           edges == UNION {UNION {{bind(v, i, "Filled", r) : r \in Bound(i)}
                                    \cup {bind(v, i, "Empty", r) : r \in Written(i)} :
                                  i \in blocks[v]} : v \in Nodes}
       IN  dfg_forward_edges' = [n \in DfgNodes |-> {e \in edges : e.source = n}]
    /\ turn' = Len(topological_order) /\ continue_propagation' = FALSE
    /\ UNCHANGED <<control, dfg_reverse_edges>>

-----------------------------------------------------------------------------
(* One block of a pass: its Phi node's edges, handed to what provides the  *)
(* resource at the end of every source; where there are several sources    *)
(* they lead to the Phi node instead.                                      *)
Handed(v) ==
    LET phi == PhiNode(v)
        to(e) == IF Len(AllSources(v)) # 1 THEN [e EXCEPT !.destination = phi] ELSE e
    IN  {<<Provider(s, MAX, e.resource), to(e)>> :
            s \in Range(AllSources(v)), e \in dfg_forward_edges[phi]}

Inserted(handed) ==
    [n \in DfgNodes |-> dfg_forward_edges[n] \cup {h[2] : h \in {g \in handed : g[1] = n}}]

(* What other Phi nodes, or its own, did not have.                         *)
IsNews(h) == h[1][1] = "phi" /\ h[2] \notin dfg_forward_edges[h[1]]

PropagateOnce ==        \* mutant: only its own Phi node counts
    /\ phase = "propagate" /\ turn > 0
    /\ LET v == topological_order[turn]
           handed == Handed(v)
       IN  /\ dfg_forward_edges' = Inserted(handed)
           /\ continue_propagation' =
                (continue_propagation
                    \/ \E h \in handed : IsNews(h) /\ h[1] = PhiNode(v))
    /\ turn' = turn - 1
    /\ UNCHANGED <<control, phase, dfg_reverse_edges>>

PropagateForever ==     \* mutant: whatever reaches a Phi node counts
    /\ phase = "propagate" /\ turn > 0
    /\ LET v == topological_order[turn]
           handed == Handed(v)
       IN  /\ dfg_forward_edges' = Inserted(handed)
           /\ continue_propagation' =
                (continue_propagation \/ \E h \in handed : h[1][1] = "phi")
    /\ turn' = turn - 1
    /\ UNCHANGED <<control, phase, dfg_reverse_edges>>

Propagate ==
    /\ phase = "propagate" /\ turn > 0
    /\ LET v == topological_order[turn]
           handed == Handed(v)
       IN  /\ dfg_forward_edges' = Inserted(handed)
           /\ continue_propagation' =
                (continue_propagation \/ \E h \in handed : IsNews(h))
    /\ turn' = turn - 1
    /\ UNCHANGED <<control, phase, dfg_reverse_edges>>

PropagateAgain ==
    /\ phase = "propagate" /\ turn = 0 /\ continue_propagation
    /\ turn' = Len(topological_order) /\ continue_propagation' = FALSE
    /\ UNCHANGED <<control, phase, dfg_forward_edges, dfg_reverse_edges>>

(* The edges by their destination.                                         *)
Reversed(forward) ==
    [n \in DfgNodes |-> {e \in UNION Range(forward) : e.destination = n}]

(* The Phi nodes of blocks with one source are dropped.                    *)
Propagated ==
    /\ phase = "propagate" /\ turn = 0 /\ ~continue_propagation
    /\ phase' = "analysed"
    /\ LET dropped == {PhiNode(v) : v \in {w \in Nodes : Len(AllSources(w)) = 1}}
       IN  dfg_forward_edges' = [n \in DfgNodes |->
                                    IF n \in dropped THEN {} ELSE dfg_forward_edges[n]]
    /\ dfg_reverse_edges' = Reversed(dfg_forward_edges')
    /\ UNCHANGED <<control, turn, continue_propagation>>

FlowNext ==
    ControlFlowStep \/ IntraBasicBlock \/ Propagate \/ PropagateAgain \/ Propagated

(* The analysis is called and runs to its end.                             *)
FlowSpec == FlowInit /\ [][FlowNext]_<<vars, flow>> /\ WF_<<vars, flow>>(FlowNext)

-----------------------------------------------------------------------------
(* The blocks at whose start the value that a resource has at the end of   *)
(* block v can still be there: on some path nobody else writes it.         *)
Surviving(v, resource, edges) ==
    LET writing == {u \in Nodes : Writers(u, MAX, resource) # {}}
        after(set) == {e[2] : e \in {d \in edges : d[1] \in set}}
        reached[k \in Nat] ==
            IF k = 0 THEN after({v})
            ELSE LET before == reached[k - 1] IN before \cup after(before \ writing)
    IN  reached[Cardinality(Nodes)]

(* What instruction i of block w gets the resource from: instructions, and *)
(* the super root, which stands for the caller.                            *)
Origins(w, i, resource, surviving) ==
    IF Writers(w, i, resource) # {} THEN {Provider(w, i, resource)}
    ELSE {Provider(v, MAX, resource) :
            v \in {u \in Blocks : /\ u = Root \/ Writers(u, MAX, resource) # {}
                                  /\ w \in surviving[u, resource]}}

(* What leads to a node by edges of one kind and resource, through Phi     *)
(* nodes.                                                                  *)
LeadsTo(node, kind, resource) ==
    LET into(set) == {n \in DfgNodes : \E e \in dfg_forward_edges[n] :
                        e.kind = kind /\ e.resource = resource /\ e.destination \in set}
        back[k \in Nat] ==
            IF k = 0 THEN into({node})
            ELSE LET before == back[k - 1]
                 IN  before \cup into({n \in before : n[1] = "phi"})
    IN  {n \in back[Cardinality(Nodes)] : n[1] = "insn" \/ n = PhiNode(Root)}

(* The passes find all that an instruction may read or overwrite, and      *)
(* nothing else: along the edges, through Phi nodes, it is reached by just *)
(* the writers with a path to it on which nobody writes in between.        *)
FlowExact ==
    phase = "analysed" =>
        LET edges == Edges
            surviving == [v \in Blocks, r \in Resources |-> Surviving(v, r, edges)]
        IN  \A w \in Nodes : \A i \in blocks[w] :
                /\ \A r \in Bound(i) :
                    LeadsTo(InstructionNode(i), "Filled", r) = Origins(w, i, r, surviving)
                /\ \A r \in Written(i) :
                    LeadsTo(InstructionNode(i), "Empty", r) = Origins(w, i, r, surviving)

(* Both loops that run until nothing changes, of the dominators and of the *)
(* propagation, come to an end.                                            *)
FlowEnds == phase = "split" ~> phase = "analysed"

=============================================================================
