----------------------------- MODULE MCSearch -----------------------------
(***************************************************************************)
(* Instances of Search for TLC.  A cast says which commands run, in which  *)
(* build, over which cache directory and which rows, and whether entities  *)
(* are edited beside them:                                                 *)
(*   First    two processes with an empty directory, and a third after     *)
(*            them, over two entities;                                     *)
(*   Beside   one search, its files in place, beside an edit;              *)
(*   Pair     two of them, beside an edit;                                 *)
(*   Ranked   one search that nothing disturbs, over many corpora.         *)
(***************************************************************************)
EXTENDS Search

CONSTANTS p1, p2, p3, a, b, c, d

ThreeProcs == {p1, p2, p3}
FirstTwo   == {p1, p2}
SecondOne  == {p2}
LastOne    == {p3}
FourEntities == {a, b, c, d}
Ids4 == <<a, b, c, d>>

AllTypes == {"component", "document"}
TypeOf   == [e \in Entity |-> IF e = d THEN "document" ELSE "component"]
Chain    == [e \in Entity |-> CASE e = a -> b [] e = b -> c [] OTHER -> Gone]
Cycle    == [e \in Entity |-> CASE e = a -> b [] e = b -> a [] e = c -> b [] OTHER -> Gone]
Orphans  == [e \in Entity |-> Gone]

Corpus(limit, sought, project, parent, edges, named, body, bodyAny, meta, metaAny, near) ==
    [limit |-> limit, pack |-> IF named = {} THEN limit ELSE 1, sought |-> sought,
     project |-> project, type |-> TypeOf, parent |-> parent, edges |-> edges,
     named |-> named, order |-> Ids4,
     body |-> body, bodyAny |-> bodyAny, meta |-> meta, metaAny |-> metaAny, near |-> near]

Simple == Corpus(1, AllTypes, FALSE, Orphans, {}, {}, <<a>>, <<a>>, <<>>, <<>>, <<b, a>>)

Disturbed ==
    {Corpus(1, AllTypes, project, parent, edges, {}, body, <<a, b>>, <<b>>, <<b>>, <<c>>) :
        project \in BOOLEAN, parent \in {Chain},
        edges \in {{<<b, a>>, <<d, a>>}, {<<c, a>>}}, body \in {<<>>, <<a>>}}

Varied ==
    {Corpus(limit, sought, project, parent, edges, named, body, <<c>>, meta, <<d, a>>, near) :
        limit \in {1, 2}, sought \in {AllTypes, {"component"}}, project \in BOOLEAN,
        parent \in {Chain, Cycle},
        edges \in {{<<b, a>>, <<d, a>>}, {<<c, a>>, <<c, b>>, <<a, d>>}, {<<d, b>>, <<c, d>>}},
        named \in {{}, {c}, {b, d}},
        body \in {<<>>, <<b, a>>, <<c, a, b>>, <<a, b, d, c>>},
        meta \in {<<>>, <<a, c>>, <<b, a, d>>},
        near \in {<<>>, <<b>>, <<d, a, c>>}}

Everything == {Simple} \union Disturbed \union Varied

Start(b0, jobs, there, made, warm) ==
    /\ build = b0 /\ job = jobs
    /\ store = [e \in Entity |-> IF e \in there THEN 0 ELSE Gone]
    /\ row = [e \in Entity |-> IF e \in there THEN made ELSE Gone]
    /\ final = [f \in File |-> IF warm THEN <<Gone, f>> ELSE Gone]
    /\ bytes = [i \in Inode |-> IF warm /\ i[1] = Gone THEN Chunks ELSE {}]

AreOver(ps) == pc = [p \in Proc |-> IF p \in ps THEN "done" ELSE "idle"]
Init ==
    /\ SemanticInit /\ SearchInit
    /\ \/ /\ corpus = Simple /\ edits = MaxEdits /\ AreOver({})
          /\ \E b0 \in {"thin", "fat"}, j \in {"search", "index"} :
                Start(b0, [p \in Proc |-> IF p = p2 THEN j ELSE "search"], {a, b}, Old, FALSE)
       \/ /\ corpus \in Disturbed /\ edits = 0 /\ AreOver({p2, p3})
          /\ \E j \in {"search", "pack", "index"}, made \in {0, Old} :
                Start("thin", [p \in Proc |-> j], {a, b, d}, made, TRUE)
       \/ /\ corpus = Simple /\ edits = 0 /\ AreOver({p3})
          /\ \E j \in {"search", "index"}, there \in {{a}, {a, b}} :
                Start("thin", [p \in Proc |-> IF p = p2 THEN j ELSE "search"], there, 0, TRUE)
       \/ /\ corpus \in Varied /\ edits = MaxEdits /\ AreOver({p2, p3})
          /\ \E j \in {"pack", "keyword"} :
                Start("fat", [p \in Proc |-> j], Entity, 0, TRUE)
    /\ Beginning

Spec == Init /\ [][Next]_searchVars
=============================================================================
