---------------------------- MODULE BasicBlocks ----------------------------
(***************************************************************************)
(* Analysis::split_into_basic_blocks (static_analysis.rs) without the call *)
(* graph flattened: the blocks of a program, named by the slot they start  *)
(* at, and the control-flow edges between them.  A program is one the      *)
(* verifier accepted; its functions are the pcs of its registry.           *)
(***************************************************************************)
EXTENDS Integers, SequencesExt

Jumps == {"JA", "JCC"}
Opcodes == Jumps \cup {"CALL", "CALLX", "EXIT", "LDDW", "HALF", "OTHER"}

IsProgram(p) ==
    /\ p.n \in Nat \ {0} /\ DOMAIN p.text = 0..p.n-1
    /\ p.functions \subseteq 0..p.n-1 /\ p.static_syscalls \in BOOLEAN
    /\ \A i \in 0..p.n-1 :
        LET insn == p.text[i]
        IN  /\ insn.op \in Opcodes
            /\ insn.op \in Jumps => insn.target \in 0..p.n-1 /\ p.text[insn.target].op # "HALF"
            /\ insn.op = "HALF" <=> i > 0 /\ p.text[i-1].op = "LDDW"
            /\ insn.op = "LDDW" => i < p.n - 1

(* from_executable collects the instructions, stepping over the second     *)
(* slot of a lddw.                                                         *)
Instructions(p) == {i \in 0..p.n-1 : p.text[i].op # "HALF"}
SuperRoot(p) == p.n

(* The key of a call is looked up in the registry.  With static syscalls   *)
(* it is relative, here to the number of the instruction, which a lddw     *)
(* does not count twice, and not to its slot.                              *)
Number(p, i) == Cardinality({k \in Instructions(p) : k < i})
Target(p, i) ==
    IF p.text[i].op = "CALL" /\ p.static_syscalls
    THEN Number(p, i) + p.text[i].target - i
    ELSE p.text[i].target

(* A call has an edge only if the registry knows its target.               *)
EndsBlock(p, i) ==
    \/ p.text[i].op \in Jumps \cup {"CALLX", "EXIT"}
    \/ p.text[i].op = "CALL" /\ Target(p, i) \in p.functions

Targets(p, i) ==
    CASE p.text[i].op = "EXIT" -> <<>>
      [] p.text[i].op = "JA" -> <<p.text[i].target>>
      [] p.text[i].op = "JCC" -> <<i + 1, p.text[i].target>>
      [] p.text[i].op \in {"CALL", "CALLX"} -> <<i + 1>>

(* Blocks start at 0, at functions, behind and at the target of whatever   *)
(* ends a block; what starts at no instruction is filtered out again.      *)
cfg_nodes(p) ==
    LET ends == {i \in Instructions(p) : EndsBlock(p, i)}
        jumps == {i \in ends : p.text[i].op \in Jumps \cup {"CALL"}}
    IN  Instructions(p) \cap
            ({0} \cup p.functions \cup {i + 1 : i \in ends} \cup {Target(p, i) : i \in jumps})

(* From here on nodes is cfg_nodes(p).                                     *)
Functions(p, nodes) == p.functions \cap nodes

Later(nodes, start) == {s \in nodes : s > start}
BlockEnd(p, nodes, start) ==
    IF Later(nodes, start) = {} THEN Max(Instructions(p)) ELSE Min(Later(nodes, start)) - 1
Block(p, nodes, start) == Instructions(p) \cap start..BlockEnd(p, nodes, start)

Destinations(p, nodes, start) ==
    LET last == Max(Block(p, nodes, start))
    IN  IF EndsBlock(p, last) THEN SelectSeq(Targets(p, last), LAMBDA d : d \in nodes)
        ELSE IF Later(nodes, start) # {} /\ start \notin Functions(p, nodes)
        THEN <<Min(Later(nodes, start))>>
        ELSE <<>>

(* The members of S in the order of Before.                                *)
Sorted(S, Before(_, _)) ==
    [k \in 1..Cardinality(S) |->
        CHOOSE v \in S : Cardinality({w \in S : Before(w, v)}) = k - 1]

(* link_cfg_edges: one source for every edge, in the order of the sources. *)
Sources(destinations) ==
    LET nodes == Sorted(DOMAIN destinations, <)
        from(v, k) == SelectSeq(destinations[nodes[k]], LAMBDA d : d = v)
    IN  [v \in DOMAIN destinations |->
            FlattenSeq([k \in 1..Len(nodes) |-> [j \in 1..Len(from(v, k)) |-> nodes[k]]])]

=============================================================================
