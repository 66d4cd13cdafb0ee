------------------------------ MODULE MCCheck ------------------------------
(***************************************************************************)
(* An instance of Check for TLC: a system with the containers K and L, the *)
(* component C, cut-down canvases of the built-in types and one of the     *)
(* project's own (a memo, which is a change document), and for each type   *)
(* the bodies its authors write: a good one and ones with one thing wrong. *)
(***************************************************************************)
EXTENDS Check

CONSTANTS S, K, L, C, D, R, RX, U, P, M, Gone, goal, own, must, short

Everything == {S, K, L, C, D, R, RX, U, P, M, Gone}
Order      == <<S, K, C, D, L, R, RX, U, P, M, Gone>>
Kinds      == {"system", "container", "component", "ref", "rule", "prd", "memo"}
Kinded     == [e \in Everything |->
                 CASE e = S -> "system" [] e \in {K, L} -> "container"
                   [] e \in {C, D} -> "component" [] e \in {R, RX} -> "ref"
                   [] e = P -> "prd" [] e = M -> "memo" [] OTHER -> "rule"]
Kids       == [k \in Kinds |-> CASE k = "system" -> "container"
                                 [] k = "container" -> "component" [] OTHER -> None]
Tabled     == [k \in Kinds |-> IF k = "system" THEN "Containers" ELSE "Components"]
Titles     == [e \in Everything |-> e]
Prefixed   == [e \in Everything |-> IF e = R THEN {RX} ELSE {}]
Scopes     == [e \in Everything |-> IF e = R THEN {K} ELSE {}]
Origins    == [e \in Everything |-> IF e = U THEN {Gone} ELSE {}]
LookAlikes == Everything \ {P, M}

GoalCell         == Word(goal)
Column(x, type)  == [name |-> x, type |-> type, words |-> {}, detail |-> FALSE, edge |-> FALSE]
Choice(x, words) == [Column(x, "enum") EXCEPT !.words = words]
Text(x)          == [name |-> x, table |-> FALSE, required |-> TRUE, free |-> FALSE,
                     long |-> FALSE, minRows |-> 0, columns |-> <<>>]
Tab(x, cols)     == [Text(x) EXCEPT !.table = TRUE, !.columns = cols]
Listing(x)       == Tab(x, <<Column("ID", "entity_id"), Column("Name", "text"),
                             Column("Note", "text")>>)

Definitions ==
    [k \in {"system", "container", "component", "ref", "prd", "memo"} |->
        [change |-> k \in {"prd", "memo"},
         sections |->
           CASE k = "system"    -> <<Listing("Containers")>>
             [] k = "container" -> <<Text("Goal"), Listing("Components")>>
             [] k = "component" ->
                  <<[Text("Goal") EXCEPT !.long = TRUE],
                    [Tab("Governance", <<[Column("Reference", "reference") EXCEPT !.edge = TRUE],
                       Choice("Type", {own, "NA"}),
                       [Column("Governs", "text") EXCEPT !.detail = TRUE]>>) EXCEPT !.minRows = 1],
                    [Tab("Safety", <<Column("Material", "filepath"), Column("Check", "evidence")>>)
                       EXCEPT !.required = FALSE]>>
             [] k = "ref"  -> <<Text("Goal")>>
             [] k = "prd"  -> <<[Text("Goal") EXCEPT !.free = TRUE],
                                Tab("Requirements", <<Choice("Priority", {must}),
                                                      Column("Evidence", "cite")>>),
                                [Tab("Traces", <<Column("Story", "edge"), Column("Status", "check")>>)
                                   EXCEPT !.required = FALSE]>>
             [] OTHER      -> <<Tab("Claims", <<Column("Fact", "ref_id"), Column("Evidence", "cite")>>)>>]]

Plain == Prose({})
Said1 == Section("Goal", Plain)
Listed1(c)  == [h \in {"ID", "Name", "Note"} |->
                  CASE h = "ID" -> Ids({c}) [] h = "Name" -> Word(c) [] OTHER -> Word(own)]
ListHeads   == <<"ID", "Name", "Note">>
Lists(seq)  == Table(ListHeads, [i \in DOMAIN seq |-> Listed1(seq[i])])
Box(said)   == <<Said1, Section("Components", said)>>
Boxes ==
    {Box(Lists(seq)) : seq \in {<<>>, <<C>>, <<C, C>>, <<C, L>>, <<D>>, <<Gone>>}}
    \union {Box(Nothing), Box(Plain), Box(Broken), Box(Lead(ListHeads, <<Listed1(C)>>)),
            Box(Table(<<"Name", "ID", "Note">>, <<Listed1(C)>>)),
            Box(Table(<<"ID", "Name">>, <<[h \in {"ID", "Name"} |-> Listed1(C)[h]]>>)),
            Tail(Box(Lists(<<C>>))), Box(Lists(<<C>>)) \o <<Section("More", Plain)>>,
            Box(Lists(<<C>>)) \o <<Section("Components", Broken)>>}

Rule1(c, t, g) == [h \in {"Reference", "Type", "Governs"} |->
                     CASE h = "Reference" -> c [] h = "Type" -> t [] OTHER -> g]
Governed(rows) == Section("Governance", Table(<<"Reference", "Type", "Governs">>, rows))
GoodRule == Rule1(Ids({R}), Word(own), Word(goal))
Part(x)  == <<Said1, x>>
Parts ==
    {Part(Governed(rows)) : rows \in {<<GoodRule>>, <<>>, <<GoodRule, GoodRule>>,
        <<Rule1(Ids({M}), Word(own), Word(goal))>>, <<Rule1(Ids({U}), Word(own), Word(goal))>>,
        <<Rule1(NA, NA, NA)>>, <<Rule1(HalfNA, Word(own), Todo)>>,
        <<GoodRule, Rule1(NA, Word(must), Blank)>>}}
    \union {<<Governed(<<GoodRule>>), Said1>>, Part(Section("Governance", Broken)),
            <<Section("Goal", Prose({short}))>> \o <<Governed(<<GoodRule>>)>>,
            Part(Governed(<<GoodRule>>)) \o <<Section("Safety", Table(<<"Material", "Check">>,
              <<[h \in {"Material", "Check"} |-> IF h = "Material" THEN File(goal) ELSE Word(own)]>>))>>}

Wants(p, c) == Section("Requirements", Table(<<"Priority", "Evidence">>,
                 <<[h \in {"Priority", "Evidence"} |-> IF h = "Priority" THEN p ELSE c]>>))
Papers ==
    {<<Said1, Wants(Word(must), Cite(K, v, Plain))>> : v \in {1, 2}}
    \union {<<Said1, Wants(NA, NA)>>, <<Said1, Wants(Word(own), NA)>>,
            <<Wants(Word(must), Word(own)), Section("Traces", Table(<<"Story", "Status">>,
                 <<[h \in {"Story", "Status"} |-> Todo]>>))>>}
Claim(rows)  == <<Section("Claims", Table(<<"Fact", "Evidence">>, rows))>>
Claims1(f, v) == [h \in {"Fact", "Evidence"} |->
                    IF h = "Fact" THEN Ids({f}) ELSE Cite(f, v, Plain)]
Memos == {Claim(<<Claims1(K, 1)>>), Claim(<<Claims1(K, 2), Claims1(R, 1)>>), Claim(<<>>)}

Writings == [k \in Kinds |->
    CASE k = "system"    -> {<<Section("Containers", Lists(seq))>> : seq \in {<<K>>, <<K, L>>}}
      [] k = "container" -> Boxes
      [] k = "component" -> Parts
      [] k = "prd"       -> Papers
      [] k = "memo"      -> Memos
      [] k = "rule"      -> {<<Said1>>}
      [] OTHER           -> {<<Said1>>, <<Section("Goal", Nothing)>>}]

Base ==
    [live    |-> Everything \ {D, Gone},
     parent  |-> [e \in Everything |-> CASE e \in {K, L} -> S [] e = C -> K [] OTHER -> None],
     body    |-> [e \in Everything |->
                    CASE e = S -> <<Section("Containers", Lists(<<K, L>>))>>
                      [] e = K -> Box(Lists(<<C>>)) [] e = L -> Box(Lists(<<>>))
                      [] e = C -> Part(Governed(<<GoodRule>>))
                      [] e = P -> <<Said1, Wants(Word(must), Cite(K, 1, Plain))>>
                      [] e = M -> Claim(<<Claims1(K, 1)>>)
                      [] e \in {D, Gone} -> <<>> [] OTHER -> <<Said1>>],
     version |-> [e \in Everything |-> IF e \in {D, Gone} THEN 0 ELSE 1],
     status  |-> [e \in Everything |-> IF e \in {P, M} THEN "accepted" ELSE "active"],
     broken  |-> {}, mapped |-> {C, Gone}, adrift |-> {C}, files |-> {}]
Cites2 == <<Said1, Wants(Word(must), Cite(K, 2, Plain))>>
Bases == {Base, [Base EXCEPT !.live = @ \ {U}, !.status[P] = "done"],
          [Base EXCEPT !.live = @ \ {U}, !.broken = {"memo"}]}
         \union {[Base EXCEPT !.body[K] = b, !.body[P] = Cites2, !.live = @ \ {U}] :
                    b \in {Box(Lists(<<C, C>>)), Box(Broken),
                           Box(Table(<<"Name", "ID", "Note">>, <<Listed1(C)>>))}}

Requests == {[targets |-> T, rules |-> {}] : T \in {{}, {P}, {M}, {K}, {R}, {Gone}, {C, "memo"}}}
            \union {[targets |-> {}, rules |-> {U}]}

\* The ids and the canvas of this instance are like those of c3x.
ASSUME NamesAreApart /\ ComponentCanvasIsStrict
=============================================================================
