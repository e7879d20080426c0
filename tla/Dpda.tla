--------------------------------- MODULE Dpda ---------------------------------
(***************************************************************************)
(* The deterministic pushdown automaton that format_out/grammer/dpda.py    *)
(* makes of an LR(1) automaton: every edge consumes a terminal, pops what  *)
(* it finds on top of the stack of nodes and pushes others, so that a      *)
(* chain of reductions before a shift is one edge.  A right recursion that *)
(* would pile up nodes is cut short by edges around the circle.            *)
(*                                                                         *)
(* A node is its place in the graph, 1 the first.  An edge is [source, la, *)
(* input, pop, push, dest]; pop runs from the top of the stack down, push  *)
(* from the bottom up.  An error is the edge None.                         *)
(***************************************************************************)
EXTENDS GrammarLR1

None == [source |-> 0, la |-> "", input |-> "", pop |-> <<>>, push |-> <<>>, dest |-> 0]

EdgeTo(graph, s, d) == CHOOSE e \in graph.edges : e.source = s /\ e.dest = d
NextNode(graph, s, x) == (CHOOSE e \in graph.edges : e.source = s /\ e.input = x).dest
Sources(graph, d) == {e.source : e \in {f \in graph.edges : f.dest = d}}
HasInto(graph, d) == \E e \in graph.edges : e.dest = d
Into(graph, d)    == (CHOOSE e \in graph.edges : e.dest = d).input

\* init_t_to_item_la: the finished items that t asks to reduce.
Reducing(g, graph, n, t) ==
  {i \in ToSet(graph.nodes[n].items) : Finished(g, i) /\ t # "" /\ t \in graph.nodes[n].la[i]}

CanFinish(g, node) == \E i \in ToSet(node.items) : Finished(g, i) /\ "" \in node.la[i]

\* merge_dpda_edge: first, then second; None if second pops other nodes than first
\* pushed.
Merge(first, second) ==
  LET n == Len(first.push)  m == Len(second.pop)
      k == IF n < m THEN n ELSE m
  IN  IF \E i \in 1..k : second.pop[i] # first.push[n + 1 - i] THEN None
      ELSE [first EXCEPT !.dest = second.dest,
             !.pop  = IF m > n THEN first.pop \o SubSeq(second.pop, n + 1, m) ELSE first.pop,
             !.push = IF m > n THEN second.push
                      ELSE SubSeq(first.push, 1, n - m) \o second.push]

-----------------------------------------------------------------------------
(***************************************************************************)
(* Circles of the graph and the edges that go around them.                 *)
(***************************************************************************)
\* dfs_to_find_circle: what closes on a path from the first node.
RECURSIVE CirclesFrom(_, _)
CirclesFrom(graph, path) ==
  UNION {IF d \in ToSet(path)
         THEN {SubSeq(path, CHOOSE k \in DOMAIN path : path[k] = d, Len(path)) \o <<d>>}
         ELSE CirclesFrom(graph, Append(path, d)) :
           d \in {e.dest : e \in {f \in graph.edges : f.source = path[Len(path)]}}}

Circles(graph) == CirclesFrom(graph, <<1>>)

LastEdge(c) == <<c[Len(c) - 1], c[Len(c)]>>

\* The assertion of handle_circles.
CirclesDistinct(graph) ==
  \A c, d \in Circles(graph) : LastEdge(c) = LastEdge(d) => c = d

\* init_back_pair: A = x @B and B = @ y in one node.
BackPairs(g, graph, n) ==
  {<<i, j>> \in ToSet(graph.nodes[n].items) \X ToSet(graph.nodes[n].items) :
     /\ i # j /\ i.loc = Len(Gen(g, i)) - 1 /\ ~IsT(g, Last(Gen(g, i)))
     /\ j.loc = 0 /\ g[j.gen].nt = Last(Gen(g, i))}

\* The place k steps before place p of a circle of n nodes.
Back(p, k, n) == ((p - 1 - k) % n) + 1

\* judge_back_loop_rec: from the pair at place p back along the symbols of its first
\* item to a pair whose second item continues it, until the start is reached after
\* exactly one round.
RECURSIVE BacksUp(_, _, _, _, _, _, _)
BacksUp(g, graph, c, origin, pair, p, left) ==
  LET n    == Len(c) - 1
      gen  == Gen(g, pair[1])
      m    == Len(gen) - 1
      to   == Back(p, m, n)
      fits == \A k \in 1..m :
                EdgeTo(graph, c[Back(p, k, n)], c[Back(p, k - 1, n)]).input = gen[m + 1 - k]
  IN  /\ left >= 0 /\ fits
      /\ \E q \in BackPairs(g, graph, c[to]) :
           /\ q[2].gen = pair[1].gen
           /\ \/ /\ c[to] = origin.node /\ left = m
                 /\ origin.pair[2].gen = pair[1].gen
              \/ BacksUp(g, graph, c, origin, q, to, left - m)

\* judge_circle_is_back_loop
IsBackLoop(g, graph, c) ==
  \E p \in 1..(Len(c) - 1) : \E pair \in BackPairs(g, graph, c[p]) :
    BacksUp(g, graph, c, [node |-> c[p], pair |-> pair], pair, p, Len(c) - 1)

\* find_back_from_circle_rec: the ways into the circle, backwards from its last edge.
RECURSIVE WaysInto(_, _, _, _)
WaysInto(graph, c, states, at) ==
  IF at <= 1 THEN {}
  ELSE UNION {IF s = c[at - 1] THEN WaysInto(graph, c, Append(states, s), at - 1)
              ELSE {Append(states, s)} :
                s \in Sources(graph, c[at]) \ ToSet(states)}

OneStep(graph, d, pop, push) ==
  [source |-> pop[1], la |-> Into(graph, d), input |-> Into(graph, d),
   pop |-> pop, push |-> push, dest |-> d]

\* handle_circles, for one circle.
CircleEdges(graph, c) ==
  LET d    == c[Len(c)]
      ways == WaysInto(graph, c, <<d, c[Len(c) - 1]>>, Len(c) - 1)
  IN  {OneStep(graph, d, Reverse(SubSeq(c, 1, Len(c) - 1)), <<d>>)}
        \cup {OneStep(graph, d, Tail(w), Reverse(w)) : w \in ways}

\* one_step_node_id_to_dpda_edges: around the circles, and along the other edges.
OneStepEdges(g, graph) ==
  LET around == UNION {CircleEdges(graph, c) :
                         c \in {d \in Circles(graph) : IsBackLoop(g, graph, d)}}
  IN  around \cup
      {OneStep(graph, e.dest, <<e.source>>, <<e.source, e.dest>>) :
         e \in {f \in graph.edges :
                  \A a \in around : ~(a.source = f.source /\ a.dest = f.dest)}}

-----------------------------------------------------------------------------
(***************************************************************************)
(* Reductions.                                                             *)
(***************************************************************************)
\* The paths of _gen_none_jump_rec: n edges backwards from the last node.
RECURSIVE PathsBack(_, _, _)
PathsBack(graph, path, n) ==
  IF n = 0 THEN {path}
  ELSE UNION {PathsBack(graph, Append(path, s), n - 1) : s \in Sources(graph, Last(path))}

\* _get_none_jump: one reduction by the item that t asks for, and the step with the
\* nonterminal.  A circle back to the node itself is left out.
NoneJumps(g, graph, oneStep, n, t) ==
  LET item == CHOOSE i \in Reducing(g, graph, n, t) : TRUE
      nt   == g[item.gen].nt
      Jumps(path) ==
        LET from == Last(path)
            to   == NextNode(graph, from, nt)
            fake == [None EXCEPT !.source = n, !.pop = path, !.push = <<from>>, !.dest = from]
        IN  IF to = n THEN {}
            ELSE {Merge(fake, e) : e \in {f \in oneStep : f.source = from /\ f.dest = to}}
  IN  UNION {Jumps(path) : path \in PathsBack(graph, <<n>>, Len(Gen(g, item)))}

\* _gen_direct_jump_rec: reductions until t can be shifted.  A shift that does not fit
\* what was pushed is no edge: ok_edge is None, and its next line raises (Buildable).
RECURSIVE DirectFrom(_, _, _, _, _, _)
DirectFrom(g, graph, oneStep, t, visited, edge) ==
  UNION {
    LET merged == Merge(edge, jump)
    IN  IF jump.dest \in visited \/ merged = None THEN {}
        ELSE IF Reducing(g, graph, jump.dest, t) # {}
        THEN DirectFrom(g, graph, oneStep, t, visited \cup {jump.dest}, merged)
        ELSE {LET ok == Merge(merged, s)
              IN  IF ok = None THEN None ELSE [ok EXCEPT !.la = t, !.input = t] :
                s \in {o \in oneStep : o.source = merged.dest /\ o.la = t}} :
      jump \in NoneJumps(g, graph, oneStep, edge.dest, t)}

\* update_all_direct_jump
DirectJumps(g, graph, oneStep) ==
  UNION {DirectFrom(g, graph, oneStep, t, {n},
                    [None EXCEPT !.source = n, !.pop = <<n>>, !.push = <<n>>, !.dest = n]) :
           <<n, t>> \in {x \in (DOMAIN graph.nodes) \X {e.input : e \in graph.edges} :
                           /\ HasInto(graph, x[1]) /\ IsT(g, Into(graph, x[1]))
                           /\ Reducing(g, graph, x[1], x[2]) # {}}}

\* DPDA.__post_init__
Automaton(g, graph) ==
  LET oneStep == OneStepEdges(g, graph)
  IN  [oneStep |-> oneStep, direct |-> DirectJumps(g, graph, oneStep)]

\* No step of the construction raises on an edge that is None.
Buildable(automaton) == None \notin automaton.direct
=============================================================================
