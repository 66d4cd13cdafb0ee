----------------------------- MODULE Explorer -----------------------------
(***************************************************************************)
(* What the explorer shows (cli/cmd/explore.go, explore_events.go): a      *)
(* build reads the store and the change-unit folders query by query, with  *)
(* no transaction around it, while other commands go on changing them;     *)
(* then it lays the city out (module City) and has to pass the gate        *)
(* (explore_schema.go) before anything is drawn.                           *)
(*                                                                         *)
(* Titles, goals, labels, code and eval summaries are left out, and with   *)
(* them the status key, which is derived from them alone.                  *)
(***************************************************************************)
EXTENDS City

CONSTANTS
    Node,           \* entity ids: numbers, in the order of the ids
    TypeOf,         \* the type of each
    LookOf,         \* the class of building its text gives a component, or ""
    DateOf,         \* the date of each decision
    Links,          \* the edges commands may add: records [from, to, kind]
    Spare,          \* the entities commands may add
    Targets,        \* the facts new patches may be for
    Stores,         \* what the project may be when the build begins
    MaxEdits        \* bound: changes by other commands

Decision == {n \in Node : TypeOf[n] = "adr"}
Flow     == {n \in Node : TypeOf[n] = "flow"}
Boundary == {n \in Node : TypeOf[n] = "boundary"}
Status   == {"open", "accepted", "done", "superseded"}

\* A store: entities, their parents, their edges, the status of the decisions, the rows of
\* the Steps table of each flow, and for each decision the facts that it has patches for
\* and those that it names.  No edge of a store is a step of a flow.
Edges == [from : Node, to : Node, kind : STRING \ {"flow_step"}]
Rows  == Seq([seq : Int, from : Node \union {0}, to : Node \union {0}])
Store == [live : SUBSET Node, parent : [Node -> Node \union {0}], rels : SUBSET Edges,
          status : [Decision -> Status], rows : [Flow -> Rows],
          patched : [Decision -> SUBSET Node], topology : [Decision -> SUBSET Node]]

ASSUME ExplorerAssumption ==
    /\ Node \subseteq Nat \ {0} /\ IsFiniteSet(Node)
    /\ LookOf \in [Node -> {"", "bunker", "transmit"}]
    /\ DateOf \in [Decision -> Nat]
    /\ Links \subseteq Edges /\ Spare \subseteq Node /\ Targets \subseteq Node
    /\ Stores \subseteq Store
    /\ MaxEdits \in Nat

\* Of any boundaries of B one is in none of the others: none is in itself, however far up.
Nested(up, B) == \A S \in (SUBSET B) \ {{}} : \E b \in S : up[b] \notin S

\* In no project is a boundary nested in itself.  (No command refuses to make one so; its
\* zone, which is to cover itself, is not modelled.)
ASSUME NestingAssumption == \A s \in Stores : Nested(s.parent, Boundary)

VARIABLES
    store,          \* c3.db and .c3/changes
    edits,          \* how many changes there have been
    adrs,           \* --include-adr
    build,          \* what the build has read so far, and where it is
    city            \* the layout

explorerVars == <<store, edits, adrs, build, city>>

NoBuild ==
    [at |-> "begin", all |-> {}, present |-> {}, parent |-> <<>>, staged |-> <<>>,
     boundaries |-> <<>>, todo |-> {}, edges |-> {}, flows |-> <<>>, events |-> <<>>]
NoCity ==
    [done |-> "none", district |-> <<>>, arch |-> <<>>, layer |-> <<>>, plan |-> <<>>,
     land |-> <<>>, at |-> <<>>, size |-> <<>>, roads |-> {}, docks |-> {}, routes |-> {}]

ExplorerInit ==
    /\ store \in Stores
    /\ edits \in 0..MaxEdits
    /\ adrs \in BOOLEAN
    /\ build = NoBuild
    /\ city = NoCity

-----------------------------------------------------------------------------
(* Other commands.  Each change is one transaction, or one file.             *)

Reading == build.at \in {"begin", "staging", "boundaries", "edges", "flows", "events"}

Change(s) ==
    /\ Reading /\ edits < MaxEdits
    /\ store' = s
    /\ edits' = edits + 1
    /\ UNCHANGED <<adrs, build, city>>

InsertEntity(n) ==
    /\ n \notin store.live
    /\ \E q \in store.live \union {0} :
         /\ q # 0 => TypeOf[q] \in {"system", "container"} /\ TypeOf[n] = "component"
         /\ Change([store EXCEPT !.live = @ \union {n}, !.parent[n] = q])

\* Foreign keys: children lose their parent, and the edges go.
DeleteEntity(n) ==
    /\ n \in store.live
    /\ Change([store EXCEPT !.live = @ \ {n},
                            !.parent = [m \in Node |-> IF m = n \/ @[m] = n THEN 0 ELSE @[m]],
                            !.rels = {r \in @ : n \notin {r.from, r.to}}])

AddRelationship(r) ==
    /\ {r.from, r.to} \subseteq store.live /\ r \notin store.rels
    /\ Change([store EXCEPT !.rels = @ \union {r}])

RemoveRelationship(r) == r \in store.rels /\ Change([store EXCEPT !.rels = @ \ {r}])

UpdateStatus(a) ==
    /\ a \in store.live
    /\ \E x \in Status \ {store.status[a]} : Change([store EXCEPT !.status[a] = x])

WritePatch(a, n) == n \notin store.patched[a] /\ Change([store EXCEPT !.patched[a] = @ \union {n}])

Edit ==
    \/ \E n \in Spare : InsertEntity(n)
    \/ \E n \in Node : DeleteEntity(n)
    \/ \E r \in Links : AddRelationship(r) \/ RemoveRelationship(r)
    \/ \E a \in Decision : UpdateStatus(a) \/ \E n \in Targets : WritePatch(a, n)

-----------------------------------------------------------------------------
(* buildExplorePayload: one step for each of its queries.                    *)

\* Decisions are read, and hidden unless they were asked for.
LoadEntities ==
    /\ build.at = "begin"
    /\ build' = [build EXCEPT !.at      = "staging",
                              !.all     = store.live,
                              !.present = {n \in store.live : TypeOf[n] = "adr" => adrs},
                              !.parent  = [n \in store.live |-> store.parent[n]]]
    /\ UNCHANGED <<store, edits, adrs, city>>

NonTerminal(status) == status \in {"open", "accepted"}

\* Per fact, the decisions in flight that have a patch for it.
CollectStaging ==
    /\ build.at = "staging"
    /\ LET inFlight == {a \in Decision \intersect store.live : NonTerminal(store.status[a])}
       IN  build' = [build EXCEPT
                        !.at     = "boundaries",
                        !.staged = [n \in Node |-> {a \in inFlight : n \in store.patched[a]}]]
    /\ UNCHANGED <<store, edits, adrs, city>>

RelationshipsFrom(n) == {r \in store.rels : r.from = n}

CollectBoundaries ==
    /\ build.at = "boundaries"
    /\ build' = [build EXCEPT
                    !.at         = "edges",
                    !.boundaries =
                        [b \in {n \in build.present : TypeOf[n] = "boundary"} |->
                            [parent  |-> IF build.parent[b] \in build.present
                                         THEN build.parent[b] ELSE 0,
                             members |-> {r.to : r \in {q \in RelationshipsFrom(b) :
                                            q.kind = "encloses" /\ q.to \in build.present}}]],
                    !.todo       = build.present]
    /\ UNCHANGED <<store, edits, adrs, city>>

Edge(f, t, k) == [from |-> f, to |-> t, kind |-> k, flow |-> 0, seq |-> 0]

MembershipEdges(n) ==
    IF build.parent[n] \in build.present THEN {Edge(build.parent[n], n, "contains")} ELSE {}

\* Only edges between nodes of this payload.
RelationshipEdges(n) ==
    {Edge(r.from, r.to, r.kind) : r \in {q \in RelationshipsFrom(n) : q.to \in build.present}}

\* The edges of one entity after the other.
ReadEdges ==
    /\ build.at = "edges" /\ build.todo # {}
    /\ LET n == Min(build.todo)
       IN  build' = [build EXCEPT !.todo = @ \ {n},
                                  !.edges = @ \union MembershipEdges(n) \union RelationshipEdges(n)]
    /\ UNCHANGED <<store, edits, adrs, city>>

\* (Mutant: whatever is in the store by now.)
ResolvesInStore(n) == n \in store.live

Resolves(n) == n \in build.present /\ n \in store.live

\* Numbers in a row, each moved up to the next when it is not above the one before.
Rising(numbers) ==
    LET bumped[k \in DOMAIN numbers] ==
            IF k > 1 /\ numbers[k] <= bumped[k - 1] THEN bumped[k - 1] + 1 ELSE numbers[k]
    IN  bumped

\* The rows of a Steps table whose two ends are nodes, in the order of their numbers; a
\* row without a number counts by its place.
FlowSteps(f) ==
    LET rows   == store.rows[f]
        number == [i \in DOMAIN rows |-> IF rows[i].seq = 0 THEN i ELSE rows[i].seq]
        kept   == {i \in DOMAIN rows : Resolves(rows[i].from) /\ Resolves(rows[i].to)}
        upTo(i) == {j \in kept : number[j] < number[i] \/ (number[j] = number[i] /\ j <= i)}
        row    == [k \in 1..Cardinality(kept) |-> CHOOSE i \in kept : Cardinality(upTo(i)) = k]
        seq    == Rising([k \in DOMAIN row |-> number[row[k]]])
    IN  [k \in DOMAIN row |-> [seq |-> seq[k], from |-> rows[row[k]].from, to |-> rows[row[k]].to]]

CollectFlows ==
    /\ build.at = "edges" /\ build.todo = {}
    /\ LET flows == [f \in Flow \intersect build.present |->
                        IF f \in store.live THEN FlowSteps(f) ELSE <<>>]
           steps == UNION {{[from |-> flows[f][k].from, to |-> flows[f][k].to,
                             kind |-> "flow_step", flow |-> f, seq |-> flows[f][k].seq] :
                               k \in DOMAIN flows[f]} : f \in DOMAIN flows}
       IN  build' = [build EXCEPT !.at    = "events",
                                  !.flows = flows,
                                  !.edges = @ \union steps]
    /\ UNCHANGED <<store, edits, adrs, city>>

Earlier(a, b) == DateOf[a] < DateOf[b] \/ (DateOf[a] = DateOf[b] /\ a < b)

\* The facts an event creates: those it is the first to name, and, when it is the first
\* event, those that none names.
Born(facts, events, targets, a) ==
    LET before == {b \in events : Earlier(b, a)}
        orphans == facts \ UNION {targets[b] : b \in events}
    IN  (targets[a] \ UNION {targets[b] : b \in before})
          \union IF before = {} THEN orphans ELSE {}

\* One event per decision in the store by now; without one, genesis (0) owns all.
BuildEvents ==
    LET facts   == {n \in build.present : TypeOf[n] # "adr"}
        events  == Decision \intersect store.live
        targets == [a \in events |-> (store.patched[a] \union store.topology[a]) \intersect facts]
        born    == [a \in events |-> Born(facts, events, targets, a)]
    IN  IF events = {} THEN [genesis \in {0} |-> [creates |-> facts, modifies |-> {}]]
        ELSE [a \in events |-> [creates |-> born[a], modifies |-> targets[a] \ born[a]]]

\* The edges from the decisions in flight come last.
AffectsEdges ==
    {Edge(w[1], w[2], "affects") :
        w \in {v \in Decision \X build.present : /\ adrs /\ v[1] \in build.present
                                                /\ v[1] \in build.staged[v[2]]}}

ReadEvents ==
    /\ build.at = "events"
    /\ build' = [build EXCEPT !.at     = "built",
                              !.events = BuildEvents,
                              !.edges  = @ \union AffectsEdges]
    /\ UNCHANGED <<store, edits, adrs, city>>

-----------------------------------------------------------------------------
(* The nodes, and the layout of what has been read.                          *)

\* Whatever is come to from S by going up, from x to up[x], as far as up leads.
Upward(up, S) ==
    LET after[k \in Nat] == IF k = 0 THEN S ELSE {up[x] : x \in after[k - 1] \intersect DOMAIN up}
    IN  UNION {after[k] : k \in 0..Cardinality(DOMAIN up)}

\* The entity and what is above it.
Chain(n) == Upward(build.parent, {n}) \intersect build.all

WithBoundariesAbove(S) ==
    LET B == build.boundaries
    IN  Upward([b \in DOMAIN B |-> B[b].parent], S) \intersect DOMAIN B

\* The boundaries a node is in: those that enclose it or what is above it, for a
\* boundary those it is nested in, and the boundaries above each.
BoundaryClosure(n) ==
    LET B      == build.boundaries
        chain  == Chain(n)
        around == {b \in DOMAIN B : B[b].members \intersect chain # {}}
        above  == IF TypeOf[n] # "boundary" THEN {}
                  ELSE {build.parent[m] : m \in chain} \intersect DOMAIN B
    IN  WithBoundariesAbove(around \union above)

\* What layoutCity is given.
CityInput ==
    [nodes      |-> build.present,
     type       |-> TypeOf,
     parent     |-> build.parent,
     staged     |-> {n \in build.present : TypeOf[n] # "adr" /\ build.staged[n] # {}},
     look       |-> LookOf,
     edges      |-> build.edges,
     boundaries |-> build.boundaries,
     flows      |-> build.flows]

\* The steps of layoutCity, none of which reads the store.
LayOut(before, after, c) ==
    /\ build.at = "built" /\ city.done = before
    /\ city' = [c EXCEPT !.done = after]
    /\ UNCHANGED <<store, edits, adrs, build>>

SignpostNodes == {n \in build.present : TypeOf[n] = "flow"}

LayoutCity ==
    \/ LayOut("none", "districts", AssignDistricts(CityInput, city))
    \/ LayOut("districts", "layers", LayerSectors(CityInput, city))
    \/ LayOut("layers", "plans", PlanSectors(CityInput, city))
    \/ LayOut("plans", "grid", GridSectors(CityInput, city))
    \/ LayOut("grid", "buildings", PlaceBuildings(CityInput, city))
    \/ LayOut("buildings", "roads", BuildRoads(CityInput, city))
    \/ LayOut("roads", "zones", PlaceZones(CityInput, city))
    \/ LayOut("zones", "docks", DockNodes(CityInput, city, build.present \ SignpostNodes))
    \/ LayOut("docks", "signposts", PlaceFlowNodes(CityInput, city))
    \/ LayOut("signposts", "ready", DockNodes(CityInput, city, SignpostNodes))
    \/ LayOut("ready", "laid out", RouteEdges(CityInput, city))

ExplorerNext ==
    \/ Edit
    \/ LoadEntities \/ CollectStaging \/ CollectBoundaries \/ ReadEdges \/ CollectFlows
    \/ ReadEvents \/ LayoutCity

ExplorerSpec == ExplorerInit /\ [][ExplorerNext]_explorerVars

-----------------------------------------------------------------------------
(* The gate, validateExplorePayload, and the properties.                     *)

Shown == city.done = "laid out"

EdgesSound ==
    \A e \in build.edges :
        /\ {e.from, e.to} \subseteq build.present
        /\ e.kind = "flow_step" <=> e.flow \in DOMAIN build.flows
BoundariesSound ==
    /\ \A b \in DOMAIN build.boundaries :
         build.boundaries[b].members \union {build.boundaries[b].parent}
            \subseteq build.present \union {0}
    /\ \A n \in build.present : BoundaryClosure(n) \subseteq DOMAIN build.boundaries
FlowsSound ==
    \A f \in DOMAIN build.flows : \A k \in DOMAIN build.flows[f] :
        /\ {build.flows[f][k].from, build.flows[f][k].to} \subseteq build.present
        /\ k > 1 => build.flows[f][k - 1].seq < build.flows[f][k].seq
TimelineReplays ==
    LET E == build.events
    IN  /\ DOMAIN E # {}
        /\ \A a \in DOMAIN E : E[a].creates \union E[a].modifies \subseteq build.present
        /\ \A n \in build.present : TypeOf[n] # "adr" =>
             \E a \in DOMAIN E :
                /\ n \in E[a].creates
                /\ \A b \in DOMAIN E \ {a} : n \notin E[b].creates
                                             /\ (n \in E[b].modifies => Earlier(a, b))
NodesSound ==
    \A n \in build.present : TypeOf[n] \notin {"boundary", "flow"} =>
        city.district[n] \in DOMAIN city.land
RoutesSound ==
    \A e \in build.edges :
        LET shared == IF SharedBy(CityInput, e) = {} THEN {e} ELSE SharedBy(CityInput, e)
        IN  e.kind \notin Unrouted =>
              Cardinality({r \in city.routes : r.edge \in shared}) = 1

Validated == /\ EdgesSound /\ BoundariesSound /\ FlowsSound /\ TimelineReplays
             /\ NodesSound /\ RoutesSound

\* Every payload that is built passes what validateExplorePayload asks of its nodes and
\* edges, whatever other commands change between two of its queries: edges, members,
\* steps and events are about nodes of the payload, every fact is created once and never
\* touched before, every building has its district and every edge its route.  (That
\* the routes stay on the roads is RoutesKeepToRoads.)
PayloadSound == Shown => Validated

\* In no city do two districts, two buildings, or a road and a building overlap; every
\* building is on the land of its district, a zone covers what its boundary encloses, and
\* the zone of a nested boundary is inside that of its parent (placeSectors, placeRow,
\* buildRoads, placeZones).
NothingCollides ==
    Shown => /\ DistrictsApart(city) /\ BuildingsApart(CityInput, city)
             /\ RoadsClear(CityInput, city) /\ ZonesNest(CityInput, city)

\* In its sector a building that is in no cycle of dependencies, nor below one, stands as
\* many rows from the north as the longest chain of dependencies that leads to it
\* (layerSector).
RowsAreLongestPaths == Shown => LongestPaths(CityInput, city)

\* A dock is crowded off its road when so many share the face of its building that it
\* lies beyond the end of the road.
OffRoad(d) == ~OnRoad(d.road, Projection(d))

\* The route of an edge follows the roads all the way from one dock to the other, unless
\* one of the docks has been crowded off its road (buildRoads, routeBetween: without a
\* path the two are joined across whatever is between them).
RoutesKeepToRoads ==
    Shown => \A r \in city.routes : r.found \/ OffRoad(r.from) \/ OffRoad(r.to)
=============================================================================
