------------------------------ MODULE Routing ------------------------------
(***************************************************************************)
(* The two routing programs of Exp06_Routing_Algorithms on one network: the*)
(* distance vector exchange, in which the routers take turns and each      *)
(* reads what the others have just written, and Dijkstra's algorithm from  *)
(* one source.  A cost of INF is no link; a route that dear is none either.*)
(***************************************************************************)
EXTENDS Integers, SequencesExt, FiniteSetsExt

CONSTANTS NumRouters, INF,
          Networks            \* matrices of link costs

Nodes == 0..(NumRouters - 1)

ASSUME RoutingAssumption ==
    /\ NumRouters \in Nat \ {0, 1} /\ INF \in Nat \ {0}
    /\ \A c \in Networks : \A i, j \in Nodes :
        /\ c[i][j] \in 0..INF /\ c[i][j] = c[j][i]
        /\ i = j <=> c[i][j] = 0

VARIABLES cost, algorithm,    \* the network; "vector", "dijkstra" or, at the end, "done"
          table,              \* of distance vector: each router's [cost, next_hop] by destination
          turn, updated,      \* the router whose turn it is; has this round changed a table
          dist, visited, parent   \* of Dijkstra's algorithm

vectorVars   == <<table, turn, updated>>
dijkstraVars == <<dist, visited, parent>>
routingVars  == <<cost, algorithm, vectorVars, dijkstraVars>>

src == 0
NodeOrder == [i \in 1..NumRouters |-> i - 1]

RoutingInit ==
    /\ cost \in Networks /\ algorithm \in {"vector", "dijkstra"}
    /\ table = [i \in Nodes |-> [j \in Nodes |->
                  [cost |-> cost[i][j], next_hop |-> IF cost[i][j] # INF /\ i # j THEN j ELSE -1]]]
    /\ turn = 0 /\ updated = FALSE
    /\ dist = [v \in Nodes |-> IF v = src THEN 0 ELSE INF]
    /\ visited = {} /\ parent = [v \in Nodes |-> -1]

-----------------------------------------------------------------------------
(* Router i tries every neighbour for every destination.  The rows of the  *)
(* others do not change meanwhile.                                         *)
Improved(i, j) ==
    LET Try(entry, k) ==
            LET candidate == cost[i][k] + table[k][j].cost
            IN  IF cost[i][k] \notin {0, INF} /\ candidate < entry.cost
                THEN [cost |-> candidate, next_hop |-> k] ELSE entry
    IN  FoldLeft(Try, table[i][j], NodeOrder)

Updated_bug(changed) == updated
Updated(changed) == updated \/ changed
RouterTurn ==
    /\ algorithm = "vector"
    /\ LET row == [j \in Nodes |-> IF j = turn THEN table[turn][j] ELSE Improved(turn, j)]
           again == Updated(row # table[turn])
           last == turn = NumRouters - 1
       IN  /\ table' = [table EXCEPT ![turn] = row]
           /\ turn' = IF last THEN 0 ELSE turn + 1
           /\ updated' = (again /\ ~last)
           /\ algorithm' = IF last /\ ~again THEN "done" ELSE algorithm
    /\ UNCHANGED <<cost, dijkstraVars>>

-----------------------------------------------------------------------------
(* The nearest node not visited, the first of equals, improves the others. *)
Reachable == {v \in Nodes \ visited : dist[v] < INF}
Nearest == Min({v \in Reachable : \A w \in Reachable : dist[v] <= dist[w]})
Closer(u, v) == v \notin visited /\ v # u /\ cost[u][v] # INF /\ dist[u] + cost[u][v] < dist[v]

Visit ==
    /\ algorithm = "dijkstra" /\ Cardinality(visited) < NumRouters - 1 /\ Reachable # {}
    /\ visited' = visited \cup {Nearest}
    /\ dist' = [v \in Nodes |-> IF Closer(Nearest, v) THEN dist[Nearest] + cost[Nearest][v] ELSE dist[v]]
    /\ parent' = [v \in Nodes |-> IF Closer(Nearest, v) THEN Nearest ELSE parent[v]]
    /\ UNCHANGED <<cost, algorithm, vectorVars>>
VisitedAll ==
    /\ algorithm = "dijkstra" /\ (Cardinality(visited) = NumRouters - 1 \/ Reachable = {})
    /\ algorithm' = "done" /\ UNCHANGED <<cost, vectorVars, dijkstraVars>>

get_next_hop(dest) ==
    LET back[v \in Nodes] == IF parent[v] \in {-1, src} THEN v ELSE back[parent[v]]
    IN  IF dest = src THEN src ELSE back[dest]

RoutingNext == RouterTurn \/ Visit \/ VisitedAll
RoutingSpec == RoutingInit /\ [][RoutingNext]_routingVars /\ WF_routingVars(RoutingNext)

-----------------------------------------------------------------------------
(* The least cost of the simple paths from i to j, INF if none is cheaper. *)
Routes(i, j) ==
    {p \in UNION {[1..n -> Nodes] : n \in 2..NumRouters} :
        p[1] = i /\ Last(p) = j /\ \A a, b \in DOMAIN p : p[a] = p[b] => a = b}
LinksOf(p) == 1..(Len(p) - 1)
RouteCost(p) == IF \E a \in LinksOf(p) : cost[p[a]][p[a + 1]] = INF THEN INF
                ELSE MapThenSumSet(LAMBDA a : cost[p[a]][p[a + 1]], LinksOf(p))
Shortest(i, j) == IF i = j THEN 0 ELSE Min({INF} \cup {RouteCost(p) : p \in Routes(i, j)})

(* No table promises more than its next hop's does, at any moment, though  *)
(* the exchange works on half-updated tables; at the end both programs     *)
(* have the least costs, and the next hops lead along paths of that cost,  *)
(* so they cannot run in a circle.                                         *)
RoutesShortest ==
    /\ \A i, j \in Nodes : i # j /\ table[i][j].cost < INF =>
        LET hop == table[i][j].next_hop
        IN  hop \in Nodes /\ table[i][j].cost >= cost[i][hop] + table[hop][j].cost
    /\ algorithm = "done" /\ visited = {} => \A i, j \in Nodes : i # j =>
        /\ table[i][j].cost = Shortest(i, j)
        /\ table[i][j].cost < INF =>
            LET hop == table[i][j].next_hop IN table[i][j].cost = cost[i][hop] + table[hop][j].cost
    /\ algorithm = "done" /\ visited # {} => \A j \in Nodes \ {src} :
        /\ dist[j] = Shortest(src, j)
        /\ dist[j] < INF => dist[j] = cost[src][get_next_hop(j)] + Shortest(get_next_hop(j), j)

(* The exchange has converged, or the search is over. *)
RoutingEnded == algorithm = "done"
=============================================================================
