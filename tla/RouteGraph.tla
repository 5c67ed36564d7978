------------------------------ MODULE RouteGraph ------------------------------
(***************************************************************************)
(* Providers and the graph their routes form (src/provider.rs).            *)
(*                                                                         *)
(* A provider is a Direct upstream, a Router (routes matched against the   *)
(* request's model) or a Pool (an ordered list of members).  A table maps  *)
(* every id to the provider an effective read returns, or to None.  A      *)
(* wildcard pattern stands here for the set of model names it matches.     *)
(***************************************************************************)
EXTENDS Integers, Sequences, FiniteSets, SequencesExt

CONSTANTS Ids,          \* provider ids
          IdOrder,      \* the same in the order of their strings
          Models,       \* model names a request can carry
          None          \* Rust's Option::None

Direct(on)  == [kind |-> "direct", enabled |-> on, routes |-> <<>>, members |-> <<>>]
Router(rs)  == [kind |-> "router", enabled |-> TRUE, routes |-> rs, members |-> <<>>]
Pool(ms)    == [kind |-> "pool", enabled |-> TRUE, routes |-> <<>>, members |-> ms]

Route == [models : SUBSET Models, target : Ids,
          upstream_model : Models \cup {None}, priority : Int \cup {None}]

IsProvider(p) ==
    /\ DOMAIN p = {"kind", "enabled", "routes", "members"}
    /\ p.kind \in {"direct", "router", "pool"}
    /\ p.enabled \in BOOLEAN
    /\ p.routes \in Seq(Route)
    /\ p.members \in Seq(Ids)

(* RouterProvider::select_route: among the enabled routes whose pattern    *)
(* matches, the greatest priority; the fold replaces its best so far only  *)
(* by a strictly greater one, so ties go to the first in the list.         *)
select_route(routes, model) ==
    FoldLeft(LAMBDA best, r :
                IF \/ r.priority = None \/ model \notin r.models
                   \/ best # None /\ r.priority <= best.priority
                THEN best ELSE r,
             None, routes)

(* The edges of a provider: the targets of its enabled routes in their     *)
(* order, parallel ones repeated, or all its members.                      *)
enabled_targets_of(p) ==
    FlattenSeq([i \in DOMAIN p.routes |->
                  IF p.routes[i].priority = None THEN <<>> ELSE <<p.routes[i].target>>])
    \o p.members

(* DynamicTable::route_graph: ids the effective view does not show are not *)
(* keys, and an edge to one of them leads nowhere; a provider with         *)
(* enabled = false still contributes its edges.                            *)
route_graph(table) ==
    [id \in {x \in Ids : table[x] # None} |-> enabled_targets_of(table[id])]

-------------------------------------------------------------------------------
(* CycleScan: a depth-first search that reports the cycles it comes back to. *)
(* A scan that goes on is [done, seen, out].                               *)
NewScan == [done |-> {}, seen |-> {}, out |-> <<>>]
Scans == [done : SUBSET Ids, seen : SUBSET Seq(Ids), out : Seq(Seq(Ids))]

Rank(id) == CHOOSE i \in DOMAIN IdOrder : IdOrder[i] = id

(* Rotation to the least id.                                               *)
canonical(cycle) ==
    LET least == CHOOSE i \in DOMAIN cycle : \A j \in DOMAIN cycle : Rank(cycle[i]) <= Rank(cycle[j])
    IN  SubSeq(cycle, least, Len(cycle)) \o SubSeq(cycle, 1, least - 1)

(* The part of the stack from the target on is a cycle, reported once and  *)
(* in full.                                                                *)
report_cycle(scan, stack, target) ==
    LET start == CHOOSE i \in DOMAIN stack : stack[i] = target
        cycle == canonical(SubSeq(stack, start, Len(stack)))
    IN  IF cycle \in scan.seen THEN scan
        ELSE [scan EXCEPT !.seen = @ \cup {cycle}, !.out = Append(@, Append(cycle, cycle[1]))]

Targets(hops, node) == IF node \in DOMAIN hops THEN hops[node] ELSE <<>>

(* A call of visit: the stack it finds, the node and the scan so far.      *)
Calls == [stack : Seq(Ids), node : Ids, scan : Scans]

Call(stack, node, scan) == [stack |-> stack, node |-> node, scan |-> scan]

(* One target of a node: on the stack it closes a cycle, any other one is  *)
(* visited.                                                                *)
Turn(from, pushed, scan, target) ==
    IF target \in Range(pushed) THEN report_cycle(scan, pushed, target)
    ELSE from[Call(pushed, target, scan)]

(* The node is done as soon as it is entered; its targets follow in order. *)
Enter(from, hops, call) ==
    FoldLeft(LAMBDA scan, target : Turn(from, Append(call.stack, call.node), scan, target),
             [call.scan EXCEPT !.done = @ \cup {call.node}],
             Targets(hops, call.node))

(* Faulty variant: a node is done when a cycle has been found anywhere.    *)
visit_until_found(hops, start, scan0) ==
    LET from[c \in Calls] ==
            IF c.node \in c.scan.done \/ c.scan.out # <<>> THEN c.scan ELSE Enter(from, hops, c)
    IN  from[Call(<<>>, start, scan0)]

(* visit: a done node returns at once.                                     *)
visit(hops, start, scan0) ==
    LET from[c \in Calls] ==
            IF c.node \in c.scan.done THEN c.scan ELSE Enter(from, hops, c)
    IN  from[Call(<<>>, start, scan0)]

(* DynamicTable::find_cycles: all keys are starts, in order.               *)
find_cycles(table) ==
    FoldLeft(LAMBDA scan, id : IF table[id] = None THEN scan
                               ELSE visit(route_graph(table), id, scan),
             NewScan, IdOrder).out

(* The graph with the new edges of one entry in place of its old ones.     *)
GraphWith(table, id, entry) ==
    [x \in DOMAIN route_graph(table) \cup {id} |->
        IF x = id THEN enabled_targets_of(entry) ELSE route_graph(table)[x]]

(* DynamicTable::would_cycle: explored from the entry alone.               *)
would_cycle(table, id, entry) == visit(GraphWith(table, id, entry), id, NewScan).out # <<>>

-------------------------------------------------------------------------------
(* Reference: reachability in a graph that maps keys to their targets.     *)

Successors(g, S) == UNION {Range(g[x]) : x \in S \cap DOMAIN g}

Reachable(g, start) ==
    LET N == Cardinality(DOMAIN g)
        within[n \in 0 .. N] == IF n = 0 THEN {start}
                                ELSE LET S == within[n - 1] IN S \cup Successors(g, S)
    IN  within[N]

OnCycle(g, x) == x \in DOMAIN g /\ \E y \in Range(g[x]) : x \in Reachable(g, y)

CyclicFrom(g, start) == \E x \in Reachable(g, start) : OnCycle(g, x)
Cyclic(g) == \E x \in DOMAIN g : OnCycle(g, x)
===============================================================================
