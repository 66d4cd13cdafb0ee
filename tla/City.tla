------------------------------- MODULE City -------------------------------
(***************************************************************************)
(* The layout of the explorer (cli/cmd/explore_layout.go): layoutCity      *)
(* derives the geometry of a payload, as a city, from its nodes, edges,    *)
(* flows and boundaries.                                                   *)
(*                                                                         *)
(* A payload p is [nodes, type, parent, staged, look, edges, boundaries,   *)
(* flows]; node ids are numbers, in the order in which the code sorts the  *)
(* ids.  A city c is a record, of which every step of layoutCity makes some *)
(* fields.  Lengths are whole numbers of 1/80 of a world unit, which   *)
(* makes the arithmetic exact.  Heights, titles and lanes are left out,    *)
(* and of the path Dijkstra's algorithm finds, that there is one is kept.  *)
(***************************************************************************)
EXTENDS Integers, Sequences, FiniteSets, FiniteSetsExt

Unit       == 80
Pad        == 10 * Unit
RowGap     == 14 * Unit
MinGap     == 40 * Unit
HQOffset   == 60 * Unit
GovOffset  == 50 * Unit
TrunkOffset == 12 * Unit
BandGap    == 2 * TrunkOffset + 16 * Unit
Overshoot  == 3 * Unit
ZonePad    == 4 * Unit
EmptyZone  == 8 * Unit
DockStep   == (18 * Unit) \div 10
DockOffset == (14 * Unit) \div 10
FlowWest   == 3 * Unit

StreetWidth == 3 * Unit
TrunkWidth  == (42 * Unit) \div 10
AvenueWidth == (22 * Unit) \div 10

\* Districts that are no sector, and the lack of one.
HQ         == 0 - 1
Governance == 0 - 2
NoDistrict == 0 - 3

\* Width and depth of each class of building, in world units.
Footprint ==
    [headquarters |-> <<26, 20>>, command  |-> <<22, 17>>, comms    |-> <<9, 9>>,
     bunker       |-> <<18, 18>>, plant    |-> <<10, 10>>, transmit |-> <<14, 10>>,
     gatehouse    |-> <<7, 7>>,   outpost  |-> <<5, 5>>,   record   |-> <<3, 3>>,
     zone         |-> <<0, 0>>,   route    |-> <<2, 2>>]

\* Edge kinds that get no route, and all of them in the order of their names.
Unrouted == {"contains", "encloses", "flow_from", "flow_to"}
Kinds    == <<"affects", "contains", "depends_on", "encloses", "flow_from", "flow_step",
              "flow_to", "uses">>

Largest(S)    == IF S = {} THEN 0 ELSE Max(S)
Rank(n, S)    == Cardinality({m \in S : m < n})
Nodes(p, t)   == {n \in p.nodes : p.type[n] = t}
Sectors(p)    == Nodes(p, "container")

-----------------------------------------------------------------------------
(* Districts and archetypes.                                                 *)

\* The first container that is above n; a walk that has taken as many steps as there are
\* nodes has seen all that it will see.
NearestContainer(p, n) ==
    LET above[k \in Nat] ==
            IF k = 0 THEN n
            ELSE LET m == above[k - 1] IN IF m \in p.nodes THEN p.parent[m] ELSE m
        found == {k \in 1..Cardinality(p.nodes) : above[k] \in Sectors(p)}
    IN  IF found = {} THEN Governance ELSE above[Min(found)]

District(p, n) ==
    CASE p.type[n] = "system" -> HQ
      [] p.type[n] = "container" -> n
      [] p.type[n] \in {"ref", "rule", "adr"} -> Governance
      [] p.type[n] \in {"boundary", "flow"} -> NoDistrict
      [] OTHER -> NearestContainer(p, n)

\* What the type and the text say; "" is for a component whose class its sector
\* decides.  (The two regular expressions on title and goal are p.look.)
ArchetypeFor(p, n) ==
    CASE p.type[n] = "system" -> "headquarters"
      [] p.type[n] = "container" -> "gatehouse"
      [] p.type[n] \in {"ref", "rule"} -> "outpost"
      [] p.type[n] = "adr" -> "record"
      [] p.type[n] = "boundary" -> "zone"
      [] p.type[n] = "flow" -> "route"
      [] p.type[n] = "component" -> p.look[n]
      [] OTHER -> "plant"

Depends(p) == {e \in p.edges : e.kind = "depends_on"}

\* Of the components of district d that nothing in it depends on, those that depend
\* on something are comms; of the others one is in command: the first that is
\* staged, else the first of the highest degree.
SectorArchetype(p, district, n) ==
    LET here == {m \in Nodes(p, "component") :
                   district[m] = district[n] /\ ArchetypeFor(p, m) = ""}
        into(m) == Cardinality({e \in Depends(p) :
                                  e.to = m /\ district[e.from] = district[n]})
        from(m) == Cardinality({e \in Depends(p) : e.from = m})
        rest    == {m \in here : into(m) > 0 \/ from(m) = 0}
        degree(m) == into(m) + from(m)
        best    == IF rest \intersect p.staged # {} THEN rest \intersect p.staged
                   ELSE {m \in rest : \A k \in rest : degree(k) <= degree(m)}
    IN  IF n \notin rest THEN "comms"
        ELSE IF n = Min(best) THEN "command" ELSE "plant"

AssignDistricts(p, c) ==
    LET district == [n \in p.nodes |-> District(p, n)]
    IN  [c EXCEPT !.district = district,
                  !.arch = [n \in p.nodes |-> IF ArchetypeFor(p, n) # "" THEN ArchetypeFor(p, n)
                                              ELSE SectorArchetype(p, district, n)]]

Width(c, n) == Footprint[c.arch[n]][1] * Unit
Depth(c, n) == Footprint[c.arch[n]][2] * Unit
MaxWidth(c, S) == Largest({Width(c, n) : n \in S})
MaxDepth(c, S) == Largest({Depth(c, n) : n \in S})

-----------------------------------------------------------------------------
(* Sectors: layerSector, the plan of each, and their grid.                   *)

Buildings(p, c, s) == {n \in p.nodes : c.district[n] = s} \ {s}
Inner(p, S)        == {e \in Depends(p) : e.from \in S /\ e.to \in S /\ e.from # e.to}

\* (Mutant: the last dependency that is looked at decides.)
DeepenedByLast(p, layer, rest, v) ==
    [w \in DOMAIN layer |->
        IF w \in rest /\ \E e \in Depends(p) : e.from = v /\ e.to = w
        THEN layer[v] + 1 ELSE layer[w]]

Deepened(p, layer, rest, v) ==
    [w \in DOMAIN layer |->
        IF /\ w \in rest
           /\ \E e \in Depends(p) : e.from = v /\ e.to = w
           /\ layer[v] + 1 > layer[w]
        THEN layer[v] + 1 ELSE layer[w]]

\* The next node to take: the first on which nothing that is left depends, else,
\* in a cycle or below one, the first.
NextTaken(p, rest) ==
    LET free == {w \in rest : \A e \in Inner(p, rest) : e.to # w}
    IN  Min(IF free = {} THEN rest ELSE free)

LayerSector(p, members) ==
    LET after[k \in 0..Cardinality(members)] ==
            IF k = 0 THEN [rest |-> members, layer |-> [n \in members |-> 0]]
            ELSE LET s == after[k - 1]
                     v == NextTaken(p, s.rest)
                 IN  [rest |-> s.rest \ {v}, layer |-> Deepened(p, s.layer, s.rest \ {v}, v)]
    IN  after[Cardinality(members)].layer

LayerSectors(p, c) ==
    [c EXCEPT !.layer = [s \in Sectors(p) |-> LayerSector(p, Buildings(p, c, s))]]

InRow(c, s, r)    == {n \in DOMAIN c.layer[s] : c.layer[s][n] = r}
RowStep(c, row)   == (MaxWidth(c, row) * 5) \div 2
RowWidth(c, row)  == IF row = {} THEN 0
                     ELSE (Cardinality(row) - 1) * RowStep(c, row) + MaxWidth(c, row)

\* (Mutant: rows as deep as their deepest building, with no room for the streets.)
PlanWithoutGap(c, s) ==
    LET members == DOMAIN c.layer[s]
        rows    == Largest({c.layer[s][n] + 1 : n \in members})
    IN  [rows  |-> rows,
         pitch |-> MaxDepth(c, members),
         w     |-> Largest({RowWidth(c, InRow(c, s, r)) : r \in 0..rows - 1}) + 2 * Pad,
         d     |-> rows * MaxDepth(c, members) + 2 * Pad]

Plan(c, s) ==
    LET members == DOMAIN c.layer[s]
        rows    == Largest({c.layer[s][n] + 1 : n \in members})
        pitch   == MaxDepth(c, members) + RowGap
    IN  [rows  |-> rows,
         pitch |-> pitch,
         w     |-> Largest({RowWidth(c, InRow(c, s, r)) : r \in 0..rows - 1}) + 2 * Pad,
         d     |-> rows * pitch + 2 * Pad]

PlanSectors(p, c) == [c EXCEPT !.plan = [s \in Sectors(p) |-> Plan(c, s)]]

\* Up to three sectors are in one band; more wrap into a grid.
Columns(n) == IF n <= 3 THEN n ELSE CHOOSE k \in 1..n : k * k >= n /\ (k - 1) * (k - 1) < n
Band(p, s) == Rank(s, Sectors(p)) \div Columns(Cardinality(Sectors(p)))
InBand(p, b) == {s \in Sectors(p) : Band(p, s) = b}
LastBand(p)  == Largest({Band(p, s) : s \in Sectors(p)})

SectorGap(p, c) ==
    LET inside == {n \in p.nodes : c.district[n] \in Sectors(p)}
    IN  IF 3 * MaxWidth(c, inside) > MinGap THEN 3 * MaxWidth(c, inside) ELSE MinGap

BandDepth(p, c, b) == Largest({c.plan[s].d : s \in InBand(p, b)})
BandTop(p, c, b) ==
    SumFunction([k \in 0..b - 1 |-> BandDepth(p, c, k) + BandGap]) - BandDepth(p, c, 0) \div 2
BandWidth(p, c, b) ==
    SumFunction([s \in InBand(p, b) |-> c.plan[s].w])
      + (Cardinality(InBand(p, b)) - 1) * SectorGap(p, c)

\* Between band b and the next.
Boulevard(p, c, b) == BandTop(p, c, b) + BandDepth(p, c, b) + BandGap \div 2

SectorLand(p, c, s) ==
    LET b    == Band(p, s)
        west == {t \in InBand(p, b) : t < s}
        left == SumFunction([t \in west |-> c.plan[t].w + SectorGap(p, c)])
                  - BandWidth(p, c, b) \div 2
        top  == BandTop(p, c, b) + (BandDepth(p, c, b) - c.plan[s].d) \div 2
    IN  [x0 |-> left, x1 |-> left + c.plan[s].w, z0 |-> top, z1 |-> top + c.plan[s].d]

GridSectors(p, c) == [c EXCEPT !.land = [s \in Sectors(p) |-> SectorLand(p, c, s)]]

Spot(x, z) == [x |-> x, z |-> z]
MidX(b) == (b.x0 + b.x1) \div 2
MidZ(b) == (b.z0 + b.z1) \div 2

\* The gatehouse is in the corner of its sector, a building in the row of its layer.
InSector(c, n) ==
    LET s    == c.district[n]
        land == c.land[s]
        r    == c.layer[s][n]
        row  == InRow(c, s, r)
    IN  IF n = s THEN Spot(land.x0 + Pad \div 2, land.z0 + Pad \div 2)
        ELSE Spot(MidX(land) - RowWidth(c, row) \div 2 + MaxWidth(c, row) \div 2
                    + Rank(n, row) * RowStep(c, row),
                  land.z0 + Pad + r * c.plan[s].pitch + c.plan[s].pitch \div 2)

-----------------------------------------------------------------------------
(* Headquarters and governance.                                              *)

\* The extent of the sectors, a point when there are none.
Extent(p, c) ==
    LET L == {c.land[s] : s \in Sectors(p)}
    IN  IF L = {} THEN [x0 |-> 0, x1 |-> 0, z0 |-> 0, z1 |-> 0]
        ELSE [x0 |-> Min({b.x0 : b \in L}), x1 |-> Max({b.x1 : b \in L}),
              z0 |-> Min({b.z0 : b \in L}), z1 |-> Max({b.z1 : b \in L})]

InDistrict(p, c, d) == {n \in p.nodes : c.district[n] = d}
RowOf(p, c, d) ==
    LET S == InDistrict(p, c, d)
    IN  [step |-> 3 * MaxWidth(c, S),
         w    |-> (Cardinality(S) - 1) * 3 * MaxWidth(c, S) + MaxWidth(c, S),
         d    |-> MaxDepth(c, S)]

RowAt(p, c, d) == Spot(MidX(Extent(p, c)), IF d = HQ THEN Extent(p, c).z0 - HQOffset
                                           ELSE Extent(p, c).z1 + GovOffset)

RowLand(p, c, d) ==
    LET at == RowAt(p, c, d)
        w  == RowOf(p, c, d).w \div 2 + Pad
        h  == RowOf(p, c, d).d \div 2 + Pad
    IN  [x0 |-> at.x - w, x1 |-> at.x + w, z0 |-> at.z - h, z1 |-> at.z + h]

InRowOf(p, c, n) ==
    LET d   == c.district[n]
        row == RowOf(p, c, d)
        S   == InDistrict(p, c, d)
    IN  Spot(RowAt(p, c, d).x - row.w \div 2 + MaxWidth(c, S) \div 2
               + Rank(n, S) * row.step,
             RowAt(p, c, d).z)

\* Every building has its spot; a zone or a signpost is at the origin for now.
PlaceBuildings(p, c) ==
    LET rows == {d \in {HQ, Governance} : InDistrict(p, c, d) # {}}
    IN  [c EXCEPT !.land = [d \in Sectors(p) \union rows |->
                              IF d \in rows THEN RowLand(p, c, d) ELSE c.land[d]],
                  !.at   = [n \in p.nodes |->
                              CASE c.district[n] \in rows -> InRowOf(p, c, n)
                                [] c.district[n] \in Sectors(p) -> InSector(c, n)
                                [] OTHER -> Spot(0, 0)],
                  !.size = [n \in p.nodes |-> [w |-> Width(c, n), d |-> Depth(c, n)]]]

-----------------------------------------------------------------------------
(* Roads.                                                                    *)

Street(d, k, z, b, wide) ==
    [of |-> d, no |-> k, across |-> TRUE, pos |-> z, lo |-> b.x0 - Overshoot,
     hi |-> b.x1 + Overshoot, width |-> wide]
Avenue(d, x, z0, z1) ==
    [of |-> d, no |-> x, across |-> FALSE, pos |-> x, lo |-> z0, hi |-> z1,
     width |-> AvenueWidth]

Trunk(p, c)  == Extent(p, c).z0 - TrunkOffset
Trench(p, c) == Extent(p, c).z1 + TrunkOffset

\* The major roads an avenue of band b joins.
NorthRoad(p, c, b) == IF b > 0 THEN Boulevard(p, c, b - 1) ELSE Trunk(p, c)
SouthRoad(p, c, b) == IF b < LastBand(p) THEN Boulevard(p, c, b) ELSE Trench(p, c)

SectorRoads(p, c, s) ==
    LET b == c.land[s]
        ends == {b.x0 - Overshoot, b.x1 + Overshoot}
    IN  {Street(s, k, b.z0 + Pad + k * c.plan[s].pitch, b, StreetWidth) : k \in 0..c.plan[s].rows}
          \union {Avenue(s, x, NorthRoad(p, c, Band(p, s)), SouthRoad(p, c, Band(p, s))) :
                    x \in ends}

\* (Mutant: always down to the trunk.)
HQRoadsToTrunk(p, c) ==
    LET b == c.land[HQ]
    IN  {Avenue(HQ, x, b.z0, Trunk(p, c)) : x \in {b.x0 - Overshoot, b.x1 + Overshoot}}

\* Headquarters have avenues down to the trunk, or to the trench when there is nothing
\* else that joins the two.
HQRoads(p, c) ==
    LET b == c.land[HQ]
    IN  {Avenue(HQ, x, b.z0, IF Sectors(p) # {} THEN Trunk(p, c) ELSE Trench(p, c)) :
           x \in {b.x0 - Overshoot, b.x1 + Overshoot}}

BuildRoads(p, c) ==
    LET L     == {c.land[d] : d \in DOMAIN c.land}
        all   == [x0 |-> Min({b.x0 : b \in L}), x1 |-> Max({b.x1 : b \in L})]
        major == {Trunk(p, c), Trench(p, c)}
                   \union {Boulevard(p, c, b) : b \in 0..LastBand(p) - 1}
    IN  [c EXCEPT !.roads = IF L = {} THEN {}
                            ELSE {Street(NoDistrict, z, z, all, TrunkWidth) : z \in major}
                                   \union (UNION {SectorRoads(p, c, s) : s \in Sectors(p)})
                                   \union IF HQ \in DOMAIN c.land THEN HQRoads(p, c) ELSE {}]

-----------------------------------------------------------------------------
(* Zones: the box of what a boundary encloses.                               *)

BoxOf(c, n) ==
    [x0 |-> c.at[n].x - c.size[n].w \div 2, x1 |-> c.at[n].x + c.size[n].w \div 2,
     z0 |-> c.at[n].z - c.size[n].d \div 2, z1 |-> c.at[n].z + c.size[n].d \div 2]

\* A container counts as its whole sector; boundaries and flows do not count.
MemberBoxes(p, c, b) ==
    {IF n \in Sectors(p) THEN c.land[n] ELSE BoxOf(c, n) :
        n \in {m \in p.boundaries[b].members \intersect p.nodes :
                 p.type[m] \notin {"boundary", "flow"}}}

Marker == [x0 |-> 0 - EmptyZone \div 2, x1 |-> EmptyZone \div 2,
           z0 |-> 0 - EmptyZone \div 2, z1 |-> EmptyZone \div 2]

Around(boxes) ==
    IF boxes = {} THEN Marker
    ELSE [x0 |-> Min({x.x0 : x \in boxes}) - ZonePad, x1 |-> Max({x.x1 : x \in boxes}) + ZonePad,
          z0 |-> Min({x.z0 : x \in boxes}) - ZonePad, z1 |-> Max({x.z1 : x \in boxes}) + ZonePad]

\* Children come first, and the box of their parent covers theirs.
PlaceZones(p, c) ==
    LET zone[b \in DOMAIN p.boundaries] ==
            Around(MemberBoxes(p, c, b)
                     \union {zone[k] : k \in {m \in DOMAIN p.boundaries :
                                               p.boundaries[m].parent = b}})
        B == DOMAIN p.boundaries
    IN  [c EXCEPT !.at   = [n \in p.nodes |-> IF n \in B THEN Spot(MidX(zone[n]), MidZ(zone[n]))
                                              ELSE c.at[n]],
                  !.size = [n \in p.nodes |-> IF n \in B THEN [w |-> zone[n].x1 - zone[n].x0,
                                                               d |-> zone[n].z1 - zone[n].z0]
                                              ELSE c.size[n]]]

-----------------------------------------------------------------------------
(* Docks and signposts.                                                      *)

KindNo(k) == CHOOSE i \in DOMAIN Kinds : Kinds[i] = k
Key(e)    == <<e.from, e.to, KindNo(e.kind), e.flow, e.seq>>
Before(e, f) ==
    \E i \in 1..5 : Key(e)[i] < Key(f)[i] /\ \A j \in 1..i - 1 : Key(e)[j] = Key(f)[j]

\* The edge of which a flow step reuses the route.
SharedBy(p, e) == {d \in Depends(p) : e.kind = "flow_step" /\ d.from = e.from /\ d.to = e.to}
OwnRouteEdges(p) ==
    {e \in p.edges : /\ e.kind \notin Unrouted /\ SharedBy(p, e) = {}
                     /\ {e.from, e.to} \subseteq p.nodes}

\* The streets that pass the building on the given side, and how far away they are.
Beyond(c, n, south) ==
    {r \in c.roads : /\ r.across /\ r.lo <= c.at[n].x /\ c.at[n].x <= r.hi
                     /\ IF south THEN r.pos >= BoxOf(c, n).z1 ELSE r.pos <= BoxOf(c, n).z0}

Nearest(c, n, R) ==
    LET away(r) == IF r.pos > c.at[n].z THEN r.pos - c.at[n].z ELSE c.at[n].z - r.pos
    IN  CHOOSE r \in R : \A q \in R : away(r) <= away(q)

\* The side asked for, else the other one, else whatever street is nearest.  (Where there
\* is no district there is no street, and no building either: that an edge between two
\* boundaries or flows is then a straight line, without docks, is left out.)
ChooseFace(c, n, south) ==
    LET any  == {r \in c.roads : r.across}
        face == IF Beyond(c, n, south) # {} THEN south
                ELSE IF Beyond(c, n, ~south) # {} THEN ~south
                ELSE Nearest(c, n, any).pos > c.at[n].z
        R    == Beyond(c, n, face)
    IN  [south |-> face, road |-> Nearest(c, n, IF R = {} THEN any ELSE R)]

\* What docks node n needs: one at each end of each of its edges.
Wants(p, c, n) ==
    LET end(e, k) == IF k = 1 THEN e.from ELSE e.to
    IN  {[edge |-> w[1], end |-> w[2],
          face |-> ChooseFace(c, n, c.at[end(w[1], 3 - w[2])].z >= c.at[n].z)] :
            w \in {v \in OwnRouteEdges(p) \X {1, 2} : end(v[1], v[2]) = n}}

DocksOf(p, c, n) ==
    LET wants   == Wants(p, c, n)
        same(w) == {v \in wants : v.face.south = w.face.south}
        rank(w) == Cardinality({v \in same(w) : Before(v.edge, w.edge)
                                                  \/ (v.edge = w.edge /\ v.end < w.end)})
    IN  {[node |-> n, edge |-> w.edge, end |-> w.end, road |-> w.face.road,
          x |-> c.at[n].x + (2 * rank(w) - (Cardinality(same(w)) - 1)) * (DockStep \div 2),
          z |-> IF w.face.south THEN BoxOf(c, n).z1 + DockOffset
                ELSE BoxOf(c, n).z0 - DockOffset] : w \in wants}

DockNodes(p, c, S) == [c EXCEPT !.docks = @ \union UNION {DocksOf(p, c, n) : n \in S}]

\* Of the two docks an edge from a node to itself has there, the last is kept.
DockFor(c, e, n) ==
    LET D == {d \in c.docks : d.edge = e /\ d.node = n}
    IN  {d \in D : \A k \in D : k.end <= d.end}

\* A signpost is west of the dock at which the first step of its flow sets out.
SignpostAt(p, c, f) ==
    LET first == Head(p.flows[f])
        step  == [from |-> first.from, to |-> first.to, kind |-> "flow_step",
                  flow |-> f, seq |-> first.seq]
        along == IF SharedBy(p, step) = {} THEN {step} ELSE SharedBy(p, step)
        docks == UNION {DockFor(c, e, first.from) : e \in along}
    IN  IF p.flows[f] = <<>> \/ docks = {} THEN Spot(0, 0)
        ELSE LET d == CHOOSE d \in docks : TRUE IN Spot(d.x - FlowWest, d.z)

PlaceFlowNodes(p, c) ==
    [c EXCEPT !.at = [n \in p.nodes |-> IF n \in DOMAIN p.flows THEN SignpostAt(p, c, n) ELSE @[n]]]

-----------------------------------------------------------------------------
(* Routes.                                                                   *)

OnRoad(r, pt) ==
    IF r.across THEN pt.z = r.pos /\ r.lo <= pt.x /\ pt.x <= r.hi
    ELSE pt.x = r.pos /\ r.lo <= pt.z /\ pt.z <= r.hi

Projection(d) == Spot(d.x, d.road.pos)
Crossings(c) ==
    LET meet(w) == Spot(w[2].pos, w[1].pos)
    IN  {meet(w) : w \in {v \in {r \in c.roads : r.across} \X {r \in c.roads : ~r.across} :
                            OnRoad(v[1], meet(v)) /\ OnRoad(v[2], meet(v))}}

\* The points of the road graph that can be reached from some of them along the roads.
Reached(c, start, points) ==
    LET reached[S \in SUBSET points] ==
            LET next == S \union {q \in points : \E r \in c.roads :
                                    OnRoad(r, q) /\ \E s \in S : OnRoad(r, s)}
            IN  IF next = S THEN S ELSE reached[next]
    IN  reached[start]

\* A route of an edge: the projections of its two docks, and whether there is a path
\* along the roads from one to the other.  Without one they are joined directly.
RouteEdges(p, c) ==
    LET points == Crossings(c) \union {Projection(d) : d \in c.docks}
        route(e) ==
            LET from == CHOOSE d \in DockFor(c, e, e.from) : TRUE
                to   == CHOOSE d \in DockFor(c, e, e.to) : TRUE
            IN  [edge |-> e, from |-> from, to |-> to,
                 found |-> Projection(to) \in Reached(c, {Projection(from)}, points)]
    IN  [c EXCEPT !.routes = {route(e) : e \in OwnRouteEdges(p)}]

-----------------------------------------------------------------------------
(* What a layout has to be.                                                  *)

Overlap(a, b) == a.x0 < b.x1 /\ b.x0 < a.x1 /\ a.z0 < b.z1 /\ b.z0 < a.z1
Inside(a, b)  == b.x0 <= a.x0 /\ a.x1 <= b.x1 /\ b.z0 <= a.z0 /\ a.z1 <= b.z1

Housed(p, c) == {n \in p.nodes : c.district[n] # NoDistrict}
Strip(r) ==
    IF r.across THEN [x0 |-> r.lo, x1 |-> r.hi, z0 |-> r.pos - r.width \div 2,
                      z1 |-> r.pos + r.width \div 2]
    ELSE [x0 |-> r.pos - r.width \div 2, x1 |-> r.pos + r.width \div 2, z0 |-> r.lo, z1 |-> r.hi]

DistrictsApart(c) == \A d, e \in DOMAIN c.land : d # e => ~Overlap(c.land[d], c.land[e])
BuildingsApart(p, c) ==
    /\ \A n \in Housed(p, c) : Inside(BoxOf(c, n), c.land[c.district[n]])
    /\ \A n, m \in Housed(p, c) : n # m => ~Overlap(BoxOf(c, n), BoxOf(c, m))
RoadsClear(p, c) == \A r \in c.roads, n \in Housed(p, c) : ~Overlap(Strip(r), BoxOf(c, n))
ZonesNest(p, c) ==
    \A b \in DOMAIN p.boundaries :
        /\ \A x \in MemberBoxes(p, c, b) : Inside(x, BoxOf(c, b))
        /\ p.boundaries[b].parent \in DOMAIN p.boundaries =>
              Inside(BoxOf(c, b), BoxOf(c, p.boundaries[b].parent))

\* The members that are neither in a cycle of dependencies nor below one.
UpstreamOf(p, S, these) ==
    LET upstream[up \in SUBSET S] ==
            LET more == {e.from : e \in {d \in Inner(p, S) : d.to \in up}}
            IN  IF more \subseteq up THEN up ELSE upstream[up \union more]
    IN  upstream[these]
Sources(p, S, n) == {e.from : e \in {d \in Inner(p, S) : d.to = n}}
Cyclic(p, S, n)  == n \in UpstreamOf(p, S, Sources(p, S, n))
Ordered(p, S, n) == \A m \in UpstreamOf(p, S, {n}) : ~Cyclic(p, S, m)

LongestPaths(p, c) ==
    \A s \in Sectors(p) :
        LET S == DOMAIN c.layer[s]
        IN  \A n \in S : Ordered(p, S, n) =>
              c.layer[s][n] = Largest({c.layer[s][m] + 1 : m \in Sources(p, S, n)})
=============================================================================
