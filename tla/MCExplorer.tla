---------------------------- MODULE MCExplorer ----------------------------
(***************************************************************************)
(* An instance of Explorer for TLC: small projects of each shape.          *)
(***************************************************************************)
EXTENDS Explorer, TLC

\* 1: the system; 2..5: containers; 6..10: components; 11: a ref; 12, 13: decisions;
\* 14, 15: boundaries; 16: a flow; from 17 on: components that cite the ref.
Crowd == 17..48
TheNodes == 1..48
TheTypes == [n \in TheNodes |->
    CASE n = 1 -> "system" [] n \in 2..5 -> "container" [] n \in 6..10 -> "component"
      [] n = 11 -> "ref" [] n \in 12..13 -> "adr" [] n \in 14..15 -> "boundary"
      [] n = 16 -> "flow" [] OTHER -> "component"]
TheLooks == [n \in TheNodes |-> IF n = 8 THEN "bunker" ELSE ""]
TheDates == 12 :> 2 @@ 13 :> 1

Rel(f, t, k) == [from |-> f, to |-> t, kind |-> k]
TheLinks == {Rel(6, 7, "depends_on"), Rel(8, 6, "depends_on"), Rel(9, 6, "depends_on"),
             Rel(2, 3, "depends_on"), Rel(6, 11, "uses"), Rel(14, 11, "encloses")}

Row(n, f, t) == [seq |-> n, from |-> f, to |-> t]
Project(live, parent, rels, rows, patched, topology) ==
    [live     |-> live,
     parent   |-> [n \in TheNodes |-> IF n \in DOMAIN parent THEN parent[n] ELSE 0],
     rels     |-> rels,
     status   |-> 12 :> "open" @@ 13 :> "done",
     rows     |-> 16 :> rows,
     patched  |-> 12 :> patched @@ 13 :> {},
     topology |-> 12 :> topology @@ 13 :> topology]

UnderOne(S, q) == [n \in S |-> q]
Wired == {Rel(6, 7, "depends_on"), Rel(7, 8, "depends_on"), Rel(6, 8, "depends_on"),
          Rel(9, 11, "uses"), Rel(8, 11, "uses"), Rel(14, 2, "encloses"),
          Rel(15, 7, "encloses"), Rel(16, 6, "flow_from")}
Steps == <<Row(2, 6, 7), Row(2, 7, 9), Row(0, 9, 0), Row(0, 6, 6), Row(5, 6, 10)>>

Small == Project({1, 2, 3, 11, 12, 13, 14, 15, 16} \union 6..9,
                 UnderOne({6, 7, 8}, 2) @@ UnderOne({2, 3}, 1) @@ 9 :> 3 @@ 15 :> 14,
                 Wired, Steps, {6, 11}, {7, 3})
Wide  == Project({1, 11, 12, 14} \union 2..9,
                 6 :> 2 @@ 7 :> 3 @@ 8 :> 4 @@ 9 :> 5 @@ UnderOne(2..5, 1),
                 {Rel(6, 9, "depends_on"), Rel(7, 8, "depends_on"), Rel(4, 3, "depends_on"),
                  Rel(9, 11, "uses"), Rel(14, 4, "encloses"), Rel(14, 9, "encloses")},
                 <<>>, {9}, {2})
Looped == Project({1, 2} \union 6..10, UnderOne(6..9, 2) @@ 10 :> 9 @@ 2 :> 1,
                  {Rel(6, 7, "depends_on"), Rel(8, 9, "depends_on"), Rel(9, 8, "depends_on"),
                   Rel(9, 6, "depends_on"), Rel(10, 7, "depends_on")},
                  <<>>, {}, {})
Bare  == Project({1, 6, 11, 12, 16}, UnderOne({6}, 1), {Rel(6, 11, "uses")}, <<Row(1, 6, 11)>>,
                 {1, 11}, {})
\* A tower of components, each of which depends on the next, and all of which cite one ref.
Crowded == Project({1, 2, 11} \union Crowd, UnderOne(Crowd, 2),
                   {Rel(n, 11, "uses") : n \in Crowd}
                     \union {Rel(n, n + 1, "depends_on") : n \in Crowd \ {48}},
                   <<>>, {}, {})
\* Every way for four components to depend on one another along eight arrows.
Arrows  == {<<6, 7>>, <<7, 6>>, <<7, 8>>, <<8, 7>>, <<6, 8>>, <<8, 9>>, <<9, 6>>, <<9, 8>>}
Tangles == {Project({1, 2} \union 6..9, UnderOne(6..9, 2),
                    {Rel(a[1], a[2], "depends_on") : a \in A}, <<>>, {}, {}) : A \in SUBSET Arrows}
TheStores == {Small, Wide, Looped, Bare, Crowded} \union Tangles
Added  == {10}
Staged == {2, 7, 10, 14}

\* Two commands run beside the builds of the first project, one beside those of the next
\* three, none beside the rest.
FromSmallProjects ==
    /\ ExplorerInit
    /\ edits = CASE store = Small -> 0 [] store \in {Wide, Looped, Bare} -> 1 [] OTHER -> 2
MCExplorerSpec == FromSmallProjects /\ [][ExplorerNext]_explorerVars
=============================================================================
