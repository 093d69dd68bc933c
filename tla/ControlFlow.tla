---------------------------- MODULE ControlFlow ----------------------------
(***************************************************************************)
(* Analysis::control_flow_graph_tarjan and                                 *)
(* control_flow_graph_dominance_hierarchy (static_analysis.rs): strongly   *)
(* connected components by a depth-first search that keeps its recursion   *)
(* on a stack, the topological order and the super root, and immediate     *)
(* dominators by passes over that order until nothing changes.             *)
(***************************************************************************)
EXTENDS BasicBlocks

CONSTANT Programs
ASSUME ProgramsAssumption == \A p \in Programs : IsProgram(p)

VARIABLES
    program, phase,
    blocks, destinations, sources,  \* of every node of the control-flow graph
    discovery, lowlink, scc_id,     \* of every node
    scc_stack, recursion_stack,
    discovered, next_scc,
    topological_order, root_destinations,
    functions,                      \* the pcs in Analysis::functions
    dominator_parent,
    position, terminate             \* of a pass over topological_order

graph == <<blocks, destinations, sources>>
search == <<discovery, lowlink, scc_id, scc_stack, recursion_stack, discovered, next_scc>>
order == <<topological_order, root_destinations, functions>>
dominance == <<dominator_parent, position, terminate>>
vars == <<program, phase, graph, search, order, dominance>>

MAX == 99       \* usize::MAX
Nodes == DOMAIN blocks
Root == SuperRoot(program)

NotSplit ==
    /\ blocks = <<>> /\ destinations = <<>> /\ sources = <<>>
    /\ discovery = <<>> /\ lowlink = <<>> /\ scc_id = <<>>
    /\ scc_stack = <<>> /\ recursion_stack = <<[v |-> 0, edge |-> 0]>>
    /\ discovered = 0 /\ next_scc = 0
    /\ topological_order = <<>> /\ root_destinations = <<>> /\ functions = {}
    /\ dominator_parent = <<>>
    /\ position = 1 /\ terminate = TRUE
Init == program \in Programs /\ phase = "split" /\ NotSplit

Split ==
    /\ phase = "split"
    /\ phase' = "search"
    /\ LET nodes == cfg_nodes(program)
           unset == [v \in nodes |-> MAX]
       IN  /\ blocks' = [v \in nodes |-> Block(program, nodes, v)]
           /\ destinations' = [v \in nodes |-> Destinations(program, nodes, v)]
           /\ sources' = Sources(destinations')
           /\ functions' = Functions(program, nodes)
           /\ discovery' = unset /\ lowlink' = unset /\ scc_id' = unset
           /\ dominator_parent' = [v \in nodes \cup {Root} |-> MAX]
    /\ UNCHANGED <<program, scc_stack, recursion_stack, discovered, next_scc,
                   topological_order, root_destinations, position, terminate>>

-----------------------------------------------------------------------------
(* The search.  A node is entered, its edges are followed one by one, and  *)
(* when they are used up it is left.                                       *)

Top == Last(recursion_stack)
Destination == destinations[Top.v][Top.edge + 1]
Smaller(a, b) == IF a < b THEN a ELSE b

Enter ==
    /\ phase = "search" /\ recursion_stack # <<>>
    /\ discovery[Top.v] = MAX
    /\ discovery' = [discovery EXCEPT ![Top.v] = discovered]
    /\ lowlink' = [lowlink EXCEPT ![Top.v] = discovered]
    /\ scc_stack' = Append(scc_stack, Top.v)
    /\ discovered' = discovered + 1
    /\ UNCHANGED <<program, phase, graph, scc_id, recursion_stack, next_scc, order, dominance>>

HasEdge ==
    /\ phase = "search" /\ recursion_stack # <<>>
    /\ discovery[Top.v] # MAX
    /\ Top.edge < Len(destinations[Top.v])

Follow ==
    /\ HasEdge
    /\ LET w == Destination
           rest == Append(Front(recursion_stack), [Top EXCEPT !.edge = @ + 1])
       IN  /\ recursion_stack' = IF discovery[w] = MAX THEN Append(rest, [v |-> w, edge |-> 0])
                                 ELSE rest
           /\ lowlink' = IF discovery[w] # MAX /\ w \in Range(scc_stack)
                         THEN [lowlink EXCEPT ![Top.v] = Smaller(@, discovery[w])]
                         ELSE lowlink
    /\ UNCHANGED <<program, phase, graph, discovery, scc_id, scc_stack, discovered, next_scc,
                   order, dominance>>

(* The component of v: what lies on scc_stack from v on, renumbered.       *)
Component(v) == {k \in DOMAIN scc_stack : k >= SelectInSeq(scc_stack, LAMBDA w : w = v)}

CloseComponent(v) ==
    IF discovery[v] # lowlink[v] THEN UNCHANGED <<discovery, scc_id, scc_stack, next_scc>>
    ELSE LET members == {scc_stack[k] : k \in Component(v)}
         IN  /\ discovery' = [w \in Nodes |->
                    IF w \in members
                    THEN Len(scc_stack) - SelectInSeq(scc_stack, LAMBDA x : x = w)
                    ELSE discovery[w]]
             /\ scc_id' = [w \in Nodes |-> IF w \in members THEN next_scc ELSE scc_id[w]]
             /\ scc_stack' = SubSeq(scc_stack, 1, Len(scc_stack) - Cardinality(members))
             /\ next_scc' = next_scc + 1

(* Where the search goes on when v has been left: in its parent, or at the *)
(* first node that has not been discovered.                                *)
Unvisited == {w \in Nodes : discovery[w] = MAX}
Resumed ==
    IF Len(recursion_stack) > 1 \/ Unvisited = {} THEN Front(recursion_stack)
    ELSE <<[v |-> Min(Unvisited), edge |-> 0]>>

IsLeft ==
    /\ phase = "search" /\ recursion_stack # <<>>
    /\ discovery[Top.v] # MAX
    /\ Top.edge = Len(destinations[Top.v])

LeaveForgetful ==       \* mutant: the parent does not learn of the lowlink
    /\ IsLeft
    /\ CloseComponent(Top.v)
    /\ recursion_stack' = Resumed
    /\ UNCHANGED <<program, phase, graph, lowlink, discovered, order, dominance>>

Leave ==
    /\ IsLeft
    /\ CloseComponent(Top.v)
    /\ LET rest == Front(recursion_stack)
       IN  lowlink' = IF rest = <<>> THEN lowlink
                      ELSE [lowlink EXCEPT ![Last(rest).v] = Smaller(@, lowlink[Top.v])]
    /\ recursion_stack' = Resumed
    /\ UNCHANGED <<program, phase, graph, discovered, order, dominance>>

-----------------------------------------------------------------------------
(* topo_index and its order; the default index of the super root is above  *)
(* all others.                                                             *)
Above(a, b) ==
    IF b = Root THEN FALSE
    ELSE IF a = Root THEN TRUE
    ELSE scc_id[a] > scc_id[b] \/ (scc_id[a] = scc_id[b] /\ discovery[a] > discovery[b])

(* The super root leads to the first node of every component that no other *)
(* component leads to.                                                     *)
HasExternalSource(v) ==
    \E w \in Range(sources[v]) : scc_id[w] # scc_id[v]
Leads(seq, k) == k = 1 \/ scc_id[seq[k - 1]] # scc_id[seq[k]]

RootDestinations(seq) ==
    LET external == {scc_id[v] : v \in {w \in Nodes : HasExternalSource(w)}}
        kept == {k \in DOMAIN seq : Leads(seq, k) /\ scc_id[seq[k]] \notin external}
    IN  [i \in 1..Cardinality(kept) |-> seq[Sorted(kept, <)[i]]]

(* What the super root leads to counts as a function from here on.         *)
SearchDone ==
    /\ phase = "search" /\ recursion_stack = <<>>
    /\ phase' = "dominance"
    /\ topological_order' = Sorted(Nodes, Above)
    /\ root_destinations' = RootDestinations(topological_order')
    /\ functions' = functions \cup Range(root_destinations')
    /\ dominator_parent' = [dominator_parent EXCEPT ![Root] = Root]
    /\ UNCHANGED <<program, graph, search, position, terminate>>

-----------------------------------------------------------------------------
(* The dominators.                                                         *)

AllSources(v) ==
    sources[v] \o (IF v \in Range(root_destinations) THEN <<Root>> ELSE <<>>)

(* control_flow_graph_dominance_intersect                                  *)
Intersect(x, y) ==
    LET meet[a \in Nodes \cup {Root}, b \in Nodes \cup {Root}] ==
            IF a = b THEN b
            ELSE IF Above(a, b) THEN meet[a, dominator_parent[b]]
            ELSE meet[dominator_parent[a], b]
    IN  meet[x, y]

IntersectAll(seq) ==
    LET known == SelectSeq(seq, LAMBDA v : dominator_parent[v] # MAX)
    IN  IF known = <<>> THEN MAX
        ELSE FoldLeft(LAMBDA parent, v : Intersect(v, parent), Head(known), Tail(known))

VisitFirstSource ==     \* mutant: the first known source is taken for the dominator
    /\ phase = "dominance" /\ position <= Len(topological_order)
    /\ LET b == topological_order[position]
           known == SelectSeq(AllSources(b), LAMBDA v : dominator_parent[v] # MAX)
           parent == IF known = <<>> THEN MAX ELSE Head(known)
       IN  /\ dominator_parent' = [dominator_parent EXCEPT ![b] = parent]
           /\ terminate' = (terminate /\ dominator_parent[b] = parent)
    /\ position' = position + 1
    /\ UNCHANGED <<program, phase, graph, search, order>>

Visit ==
    /\ phase = "dominance" /\ position <= Len(topological_order)
    /\ LET b == topological_order[position]
           parent == IntersectAll(AllSources(b))
       IN  /\ dominator_parent' = [dominator_parent EXCEPT ![b] = parent]
           /\ terminate' = (terminate /\ dominator_parent[b] = parent)
    /\ position' = position + 1
    /\ UNCHANGED <<program, phase, graph, search, order>>

PassDone ==
    /\ phase = "dominance" /\ position > Len(topological_order)
    /\ phase' = IF terminate THEN "done" ELSE phase
    /\ position' = 1 /\ terminate' = TRUE
    /\ UNCHANGED <<program, graph, search, order, dominator_parent>>

Next == Split \/ Enter \/ Follow \/ Leave \/ SearchDone \/ Visit \/ PassDone

-----------------------------------------------------------------------------
(* The graph, and what can be reached in it without passing through avoid. *)
Edges ==
    {<<v, w>> \in Nodes \X Nodes : w \in Range(destinations[v])}
        \cup {<<Root, w>> : w \in Range(root_destinations)}
Reached(edges, from, avoid) ==
    LET steps == {e \in edges : e[2] \notin avoid}
        reached[k \in Nat] ==
            IF k = 0 THEN {from} \ avoid
            ELSE LET before == reached[k - 1]
                 IN  before \cup {e[2] : e \in {d \in steps : d[1] \in before}}
    IN  reached[Cardinality(Nodes) + 1]

(* The search gives two nodes one scc_id just if each reaches the other:   *)
(* overwriting discovery with the place in the component while the search  *)
(* still runs confuses nothing.  Along topological_order every edge        *)
(* between two components goes forward.                                    *)
ComponentsExact ==
    phase = "done" =>
        LET edges == Edges
            reaches == UNION {{v} \X Reached(edges, v, {}) : v \in Nodes}
            place(v) == SelectInSeq(topological_order, LAMBDA w : w = v)
        IN  /\ \A v, w \in Nodes :
                   scc_id[v] = scc_id[w] <=> <<v, w>> \in reaches /\ <<w, v>> \in reaches
            /\ \A v \in Nodes : \A w \in Range(destinations[v]) :
                   scc_id[v] # scc_id[w] => place(v) < place(w)

(* Every d with every other node that Root only reaches through d.         *)
Dominates ==
    LET edges == Edges
        all == Nodes \cup {Root}
    IN  UNION {{d} \X (all \ (Reached(edges, Root, {d}) \cup {d})) : d \in all}

(* Where the search entered every component at the one node that other     *)
(* components lead to.                                                     *)
EnteredAtHead ==
    \A k \in DOMAIN topological_order :
        HasExternalSource(topological_order[k]) => Leads(topological_order, k)

(* The super root reaches every node, so that the assertion behind the     *)
(* passes (no dominator_parent is usize::MAX) cannot fail, and what they   *)
(* settle on is a dominator: it lies on every path from the super root.    *)
(* If the components were entered at their heads it is the immediate one,  *)
(* which every other dominator is on the way to.                           *)
DominatorsExact ==
    phase = "done" =>
        /\ Reached(Edges, Root, {}) = Nodes \cup {Root}
        /\ LET dominates == Dominates
           IN  \A v \in Nodes :
                  /\ <<dominator_parent[v], v>> \in dominates
                  /\ EnteredAtHead =>
                        \A d \in (Nodes \cup {Root}) \ {dominator_parent[v]} :
                            <<d, v>> \in dominates => <<d, dominator_parent[v]>> \in dominates

(* A call of a function of the registry, whose target the interpreter      *)
(* computes from its slot, is the last instruction of its block.           *)
CallsEndBlocks ==
    \A v \in Nodes : \A i \in blocks[v] \ {Max(blocks[v])} :
        ~(program.text[i].op = "CALL" /\ program.text[i].target \in program.functions)

=============================================================================
