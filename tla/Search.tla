------------------------------ MODULE Search ------------------------------
(***************************************************************************)
(* `c3x search`: after the semantic index has been brought up to date, the *)
(* hits of two full-text queries, the entities that point at those hits,   *)
(* and the nearest rows of the semantic index are put into one order, cut  *)
(* to the limit, replaced by their owners if that is asked for, and given  *)
(* their routes.  Each of these reads the cache by itself, so other        *)
(* commands may edit it in between.                                        *)
(*                                                                         *)
(* What the queries would say of each entity is given by `corpus`: the     *)
(* order of its hits in each of them, the entities the query names, edges, *)
(* parents.  An entity has one node, with its id.  The floor of ten hits   *)
(* and the ceiling of a hundred under a search's pool are left out, and so *)
(* are snippets, titles and the fields of a route: a route is what the     *)
(* entities about it say.                                                  *)
(***************************************************************************)
EXTENDS SemanticIndex, Sequences, SequencesExt

CONSTANTS
    Corpora     \* records of the facts below about the entities there are at first

Listing == {s \in Seq(Entity) : IsInjective(s)}
ASSUME CorporaAssumption ==
    \A c \in Corpora :
        /\ c.limit \in Nat \ {0} /\ c.pack \in 1..c.limit /\ c.project \in BOOLEAN
        /\ c.parent \in [Entity -> Entity \union {Gone}]
        /\ c.edges \subseteq Entity \X Entity /\ c.named \subseteq Entity
        /\ {c.body, c.bodyAny, c.meta, c.metaAny, c.near, c.order} \subseteq Listing
        /\ ToSet(c.order) = Entity

VARIABLES
    corpus,     \* limit; pack (of a pack, which has its own when none is given); sought
                \* (types of entities asked for); project (a structural search); type,
                \* parent, edges; named; body, bodyAny, meta, metaAny, near: hits of
                \* the queries, the best first; order: the ids in order
    direct,     \* what a process's probe found: entities by fields, and by nodes
    rows,       \* its rows: [id, why]
    own,        \* the rows that full-text queries found
    witness,    \* the witness of each row that a graph edge brought in, or Gone
    inbound,    \* the edges it is to follow
    hits,       \* what its last query found
    routed,     \* number of rows that have their route
    snapshot    \* the route of the next one

pipe == <<direct, rows, own, witness, inbound, hits, routed, snapshot>>
searchVars == <<semanticVars, corpus, pipe>>

-----------------------------------------------------------------------------
(* Pure parts.                                                               *)

\* The members of S in an order, a set of pairs; and parts of a sequence in its order.
InOrder(S, order) ==
    [k \in 1..Cardinality(S) |->
        CHOOSE x \in S : Cardinality({y \in S : <<y, x>> \in order}) = k - 1]
Sub(s, I)   == LET at == InOrder(I, {x \in I \X I : x[1] < x[2]})
               IN  [k \in DOMAIN at |-> s[at[k]]]
Filter(s, S)   == Sub(s, {i \in DOMAIN s : s[i] \in S})
FirstOfEach(s) == Sub(s, {i \in DOMAIN s : \A j \in 1..(i - 1) : s[j] # s[i]})
Cut(s, n)   == SubSeq(s, 1, IF Len(s) < n THEN Len(s) ELSE n)
Place(s, e) == IF e \in ToSet(s) THEN CHOOSE i \in DOMAIN s : s[i] = e ELSE 0

Pool        == 2 * corpus.limit
Exists(e)   == store[e] # Gone
Standing    == {e \in Entity : Exists(e)}
Sought      == {e \in Entity : corpus.type[e] \in corpus.sought}

Body == <<"content_fts">>
Meta == <<"entity_fts">>
Near == <<"semantic">>
Edge(e) == <<"graph", e>>
Child(e) == <<"containment_parent", e>>

IdsOf(rs)   == [i \in DOMAIN rs |-> rs[i].id]
Ids(rs)     == {rs[i].id : i \in DOMAIN rs}
At(rs, e)   == CHOOSE i \in DOMAIN rs : rs[i].id = e
RowOf(rs, e) == IF e \in Ids(rs) THEN rs[At(rs, e)] ELSE [id |-> e, why |-> <<>>]
Has(r, source) == source \in ToSet(r.why)
FromEdges(r) == {i \in DOMAIN r.why : r.why[i][1] = "graph"}
AddSources(r, sources) == [id |-> r.id, why |-> FirstOfEach(r.why \o sources)]

\* What a query finds now, within a limit; if all its words find nothing, any of
\* them may.  The query over fields filters by type, the one over nodes does not.
Hits(s, n)      == Cut(Filter(s, Standing), n)
OrElse(s, t)    == IF s # <<>> THEN s ELSE t
BodyHits        == OrElse(Hits(corpus.body, Pool), Hits(corpus.bodyAny, Pool))
MetaHits        == OrElse(Hits(Filter(corpus.meta, Sought), Pool),
                          Hits(Filter(corpus.metaAny, Sought), Pool))

\* sortSearchRows: hits of the body first, then documents that an edge brought, then
\* those found in more ways; at last the order they came in.
IsDocumentByEdge(r) == corpus.type[r.id] = "document" /\ FromEdges(r) # {}
Before(rs, i, j) ==
    LET r == rs[i]
        s == rs[j]
    IN  IF Has(r, Body) # Has(s, Body) THEN Has(r, Body)
        ELSE IF IsDocumentByEdge(r) # IsDocumentByEdge(s) THEN IsDocumentByEdge(r)
        ELSE IF Len(r.why) # Len(s.why) THEN Len(r.why) > Len(s.why)
        ELSE i < j
Sorted(rs) ==
    LET order == {x \in (DOMAIN rs) \X (DOMAIN rs) : Before(rs, x[1], x[2])}
        at    == InOrder(DOMAIN rs, order)
    IN  [k \in DOMAIN at |-> rs[at[k]]]

\* collectSearchRows.
Collected(body, meta) ==
    LET first == Filter(body, Sought)
        ids   == FirstOfEach(first \o meta)
        why(e) == (IF e \in ToSet(first) THEN <<Body>> ELSE <<>>)
                  \o (IF e \in ToSet(meta) THEN <<Meta>> ELSE <<>>)
    IN  Cut(Sorted([i \in DOMAIN ids |-> [id |-> ids[i], why |-> why(ids[i])]]), Pool)

\* expandHybridRows: the sources of the edges into the rows.
Expanded(rs, edges) ==
    LET follow  == Sub(edges, {i \in DOMAIN edges : edges[i][1] \in Sought})
        ids     == FirstOfEach(IdsOf(rs) \o [i \in DOMAIN follow |-> follow[i][1]])
        from(e) == Sub(follow, {i \in DOMAIN follow : follow[i][1] = e})
        new(e)  == [i \in DOMAIN from(e) |-> Edge(from(e)[i][2])]
    IN  Cut(Sorted([i \in DOMAIN ids |-> AddSources(RowOf(rs, ids[i]), new(ids[i]))]), Pool)

\* RelationshipsTo of one row after the other; those to one row by their sources' ids.
EdgesInto(rs) ==
    LET into == {x \in corpus.edges : x[2] \in Ids(rs) /\ Exists(x[2]) /\ Exists(x[1])}
        earlier(x, y) == \/ At(rs, x[2]) < At(rs, y[2])
                         \/ x[2] = y[2] /\ Place(corpus.order, x[1]) < Place(corpus.order, y[1])
    IN  InOrder(into, {z \in into \X into : earlier(z[1], z[2])})

\* expandHybridRowsWithProvenance: a row that only an edge brought in has a witness
\* if the probe of its anchor found neither its fields nor its nodes.
WitnessOf(r, p) ==
    LET anchors == {i \in FromEdges(r) : r.why[i][2] \in own[p]}
    IN  IF r.id \in own[p] \/ anchors = {} \/ r.id \in direct[p].meta \union direct[p].body
           \/ ~Exists(r.id)
        THEN Gone
        ELSE r.why[CHOOSE i \in anchors : \A j \in anchors : i <= j]

\* fuseSemanticRows: reciprocal ranks add up; a tie goes to the better first rank.
\* Scores are compared over their common denominator.
RrfK == 60
Score(i, j) ==      \* numerator and denominator of the score of ranks i and j, 0 for none
    IF i = 0 THEN <<1, RrfK + j>> ELSE IF j = 0 THEN <<1, RrfK + i>>
    ELSE <<2 * RrfK + i + j, (RrfK + i) * (RrfK + j)>>
FirstRank(i, j) == IF i = 0 \/ (j # 0 /\ j < i) THEN j ELSE i
Better(ids, found, e, f) ==
    LET x == Score(Place(ids, e), Place(found, e))
        y == Score(Place(ids, f), Place(found, f))
        i == FirstRank(Place(ids, e), Place(found, e))
        j == FirstRank(Place(ids, f), Place(found, f))
    IN  IF x[1] * y[2] # y[1] * x[2] THEN x[1] * y[2] > y[1] * x[2]
        ELSE IF i # j THEN i < j
        ELSE Place(corpus.order, e) < Place(corpus.order, f)

Named(e) == e \in corpus.named
Promote(ids) == Filter(ids, corpus.named) \o Filter(ids, Entity \ corpus.named)
CutThenPromote(rs, found) == Promote(Cut(IdsOf(rs), corpus.limit))      \* a mutant

Fused(rs, found) ==
    LET ids    == IdsOf(rs)
        all    == ToSet(ids) \union ToSet(found)
        better == {x \in all \X all : Better(ids, found, x[1], x[2])}
        ranked == IF found = <<>> THEN ids ELSE InOrder(all, better)
    IN  Cut(Promote(ranked), corpus.limit)

WithSources(rs, found, ids) ==
    [i \in DOMAIN ids |->
        AddSources(RowOf(rs, ids[i]), IF ids[i] \in ToSet(found) THEN <<Near>> ELSE <<>>)]

\* projectStructuralOwnerWitnessRows: one hop from a text hit to its parent; a row
\* that is the parent of another stays; what an edge brought in needs a witness.
Owned(found, owner) == {e \in found : owner[e] # Gone}
Kept(rs, found, brought) ==
    Sub(rs, {i \in DOMAIN rs : \/ rs[i].id \in found \/ brought[rs[i].id] # Gone
                               \/ FromEdges(rs[i]) = {}})
Gathered(kept, target) ==
    LET ids     == FirstOfEach([i \in DOMAIN kept |-> target[kept[i].id]])
        into(t) == Sub(kept, {i \in DOMAIN kept : target[kept[i].id] = t /\ kept[i].id # t})
        new(t)  == [i \in DOMAIN into(t) |-> Child(into(t)[i].id)]
    IN  [i \in DOMAIN ids |-> AddSources(RowOf(kept, ids[i]), new(ids[i]))]

Projected(rs, found, brought, owner) ==
    LET owners == {owner[e] : e \in Owned(found, owner)}
        target == [e \in Entity |-> IF e \in Owned(found, owner) \ owners THEN owner[e] ELSE e]
    IN  Gathered(Kept(rs, found, brought), target)

\* selectDiverseSearchRows: the first row, then whichever says most that is new, as many
\* as a pack has.
Around(S) == S \union {x[1] : x \in {y \in corpus.edges : y[2] \in S}}
               \union {x[2] : x \in {y \in corpus.edges : y[1] \in S}}
Ahead(S)  == S \union {x[2] : x \in {y \in corpus.edges : y[1] \in S}}
About(e)  == Around(Ahead(Ahead({e})))
Keys(e)   == {corpus.type[e]} \union {x \in About(e) : Exists(x) /\ corpus.type[x] # "document"}

Diverse(rs) ==
    LET Pick(acc, n) ==
            LET free == {i \in DOMAIN rs : i \notin acc.picked}
                gain(i) == Cardinality(Keys(rs[i].id) \ acc.keys)
                best == IF acc.picked = {} THEN 1
                        ELSE CHOOSE i \in free : \A j \in free :
                                 gain(i) > gain(j) \/ (gain(i) = gain(j) /\ i <= j)
            IN  [picked |-> acc.picked \union {best}, keys |-> acc.keys \union Keys(rs[best].id),
                 out |-> Append(acc.out, rs[best])]
    IN  Cut(FoldLeft(Pick, [picked |-> {}, keys |-> {}, out |-> <<>>], rs).out, corpus.pack)

-----------------------------------------------------------------------------
(* One search.                                                               *)

NoEntities == [e \in Entity |-> Gone]

SearchInit ==
    /\ corpus \in Corpora
    /\ direct = [p \in Proc |-> [meta |-> {}, body |-> {}]]
    /\ rows = [p \in Proc |-> <<>>] /\ own = [p \in Proc |-> {}]
    /\ witness = [p \in Proc |-> NoEntities] /\ inbound = [p \in Proc |-> <<>>]
    /\ hits = [p \in Proc |-> <<>>] /\ routed = [p \in Proc |-> 0]
    /\ snapshot = [p \in Proc |-> NoEntities]

Step(p, from, to) == pc[p] = from /\ Goto(p, to) /\ UNCHANGED <<build, job, stage, saw, index, pass,
                                                                 loaded, writing, disk, corpus>>
StepOrFail(p, from, to, fails) ==
    /\ pc[p] = from
    /\ IF fails THEN Finish(p, "failed") ELSE Goto(p, to)
    /\ UNCHANGED <<build, job, stage, saw, index, pass, loaded, writing, disk, corpus>>

\* ProbeDirectFTS: all the words of the query, filtered by type.
Probe(p) ==
    /\ Step(p, "probe", "collect body")
    /\ direct' = [direct EXCEPT ![p] =
                     [meta |-> ToSet(Hits(Filter(corpus.meta, Sought), Pool)),
                      body |-> ToSet(Hits(Filter(corpus.body, Sought), 3 * Pool))]]
    /\ UNCHANGED <<rows, own, witness, inbound, hits, routed, snapshot>>

CollectBody(p) ==
    /\ Step(p, "collect body", "collect fields")
    /\ hits' = [hits EXCEPT ![p] = BodyHits]
    /\ UNCHANGED <<direct, rows, own, witness, inbound, routed, snapshot>>

CollectFields(p) ==
    /\ Step(p, "collect fields", "inbound")
    /\ rows' = [rows EXCEPT ![p] = Collected(hits[p], MetaHits)]
    /\ own' = [own EXCEPT ![p] = Ids(rows'[p])]
    /\ hits' = [hits EXCEPT ![p] = <<>>]
    /\ UNCHANGED <<direct, witness, inbound, routed, snapshot>>

\* RelationshipsTo, and then the entity at the other end of each edge.
ReadInbound(p) ==
    /\ Step(p, "inbound", "expand")
    /\ inbound' = [inbound EXCEPT ![p] = EdgesInto(rows[p])]
    /\ UNCHANGED <<direct, rows, own, witness, hits, routed, snapshot>>

Expand(p) ==
    /\ StepOrFail(p, "expand", "semantic", \E i \in DOMAIN inbound[p] : ~Exists(inbound[p][i][1]))
    /\ rows' = [rows EXCEPT ![p] = Expanded(@, inbound[p])]
    /\ witness' = [witness EXCEPT ![p] =
                      [e \in Entity |-> IF e \in Ids(rows'[p])
                                        THEN WitnessOf(rows'[p][At(rows'[p], e)], p) ELSE Gone]]
    /\ UNCHANGED <<direct, own, inbound, hits, routed, snapshot>>

\* The rows of the index that are near the query, with the entities they are of.
JoinIndex(p) ==
    /\ Step(p, "join", "fuse")
    /\ hits' = [hits EXCEPT ![p] =
                   Cut(Filter(corpus.near, {e \in Standing \intersect Sought : Current(row[e])}),
                       Pool)]
    /\ UNCHANGED <<direct, rows, own, witness, inbound, routed, snapshot>>

Fuse(p) ==
    /\ Step(p, "fuse", IF corpus.project THEN "project" ELSE "route")
    /\ rows' = [rows EXCEPT ![p] = WithSources(@, hits[p], Fused(@, hits[p]))]
    /\ UNCHANGED <<direct, own, witness, inbound, hits, routed, snapshot>>

\* LookupImmediateParent: the parent now, unless it points back or is not sought.
OwnerOf(e) ==
    LET q == corpus.parent[e]
    IN  IF q # Gone /\ Exists(q) /\ corpus.parent[q] # e /\ q \in Sought THEN q ELSE Gone

Project(p) ==
    LET found == own[p] \intersect Ids(rows[p])
        owner == [e \in Entity |-> OwnerOf(e)]
        out == Projected(rows[p], found, witness[p], owner)
        witnessed == Owned(found, owner) # {} \/ \E e \in Ids(rows[p]) : witness[p][e] # Gone
    IN  /\ StepOrFail(p, "project", "route",
                      (\E e \in found : ~Exists(e)) \/ (~witnessed /\ out # <<>>))
        /\ rows' = [rows EXCEPT ![p] = out]
        /\ UNCHANGED <<direct, own, witness, inbound, hits, routed, snapshot>>

\* What the route of an entity is made from.
RouteView(e) == [x \in Entity |-> IF x \in About(e) THEN store[x] ELSE Gone]

SnapshotRoute(p) ==
    /\ routed[p] < Len(rows[p])
    /\ Step(p, "route", "enrich")
    /\ snapshot' = [snapshot EXCEPT ![p] = RouteView(rows[p][routed[p] + 1].id)]
    /\ UNCHANGED <<direct, rows, own, witness, inbound, hits, routed>>

\* The route is made again: if it does not come out the same, the search fails; a
\* change may not show in it.
Enrich(p) ==
    /\ \/ Step(p, "enrich", "route")
       \/ /\ pc[p] = "enrich" /\ RouteView(rows[p][routed[p] + 1].id) # snapshot[p]
          /\ StepOrFail(p, "enrich", "route", TRUE)
    /\ routed' = [routed EXCEPT ![p] = @ + 1]
    /\ UNCHANGED <<direct, rows, own, witness, inbound, hits, snapshot>>

\* The rows, or a pack of some, which reads the entity of each once more.
Answer(p) ==
    /\ pc[p] = "route" /\ routed[p] = Len(rows[p])
    /\ IF job[p] = "pack" /\ \E e \in Ids(rows[p]) \intersect Ids(Diverse(rows[p])) : ~Exists(e)
       THEN Finish(p, "failed") /\ UNCHANGED rows
       ELSE /\ Finish(p, IF p \in loaded /\ stage[p] = "query" THEN "hybrid" ELSE "lexical")
            /\ rows' = IF job[p] = "pack" THEN [rows EXCEPT ![p] = Diverse(@)] ELSE rows
    /\ UNCHANGED <<build, job, stage, saw, index, pass, loaded, writing, disk, corpus,
                   direct, own, witness, inbound, hits, routed, snapshot>>

Next ==
    \/ \E p \in Proc : SemanticStep(p) /\ UNCHANGED <<corpus, pipe>>
    \/ \E e \in Entity : Edit(e) /\ UNCHANGED <<corpus, pipe>>
    \/ \E p \in Proc :
          \/ Probe(p) \/ CollectBody(p) \/ CollectFields(p) \/ ReadInbound(p) \/ Expand(p)
          \/ JoinIndex(p) \/ Fuse(p) \/ Project(p) \/ SnapshotRoute(p) \/ Enrich(p) \/ Answer(p)

\* Any commands over any entities, rows and files; a row is there only for an entity.
Beginning ==
    /\ SemanticInit /\ SearchInit
    /\ build \in {"thin", "fat"} /\ job \in [Proc -> {"index", "search", "pack", "keyword"}]
    /\ pc \in [Proc -> {"idle", "done"}] /\ edits \in 0..MaxEdits
    /\ store \in [Entity -> (0..edits) \union {Gone}]
    /\ row \in [Entity -> (0..edits) \union {Gone, Old, Mixed}]
    /\ \A e \in Entity : ~Exists(e) => row[e] = Gone
    /\ bytes \in [Inode -> SUBSET Chunks] /\ \A p \in Proc, f \in File : bytes[<<p, f>>] = {}
    /\ final \in [File -> Inode \union {Gone}] /\ \A f \in File : final[f] \in {Gone, <<Gone, f>>}

SearchSpec == Beginning /\ [][Next]_searchVars

-----------------------------------------------------------------------------
(* Properties.                                                               *)

\* Nothing but this process has run, and nothing was edited, since it began.
Quiet(p) == saw[p] \intersect {"company", "edit"} = {}

\* FRESH WHEN ALONE: whatever edits, races and kills came before, a search or an
\* index that runs in quiet leaves one row for each entity, made from the text that
\* the entity has (EnsureSemanticIndexWithOptions: "makes the semantic index fresh
\* for the current entity set").
FreshWhenAlone ==
    [][\A p \in Proc :
          Quiet(p) /\ pc[p] \in {"rows", "commit"} /\ (pc'[p] = "count" \/ outcome'[p] = "indexed")
          => row' = store]_searchVars

\* A file that cannot be loaded and is taken for good.
TornForGood == \E f \in File : (build = "fat" \/ f = "lib") /\ Stands(final[f]) /\ ~Whole(final[f])

\* A QUIET SEARCH ANSWERS: it fails only if it is a structural one that found no
\* owner, or the disk refused it the model's files, and does without the model only if
\* it could not download it, if there are no entities, or if a torn file is taken for
\* the library (help.go: "If the semantic model is unavailable, search falls back to
\* keyword plus graph without failing"; a disk that refuses a directory, or a fat
\* build anything, is not taken for an unavailable model).
QuietSearchAnswers ==
    \A p \in Proc :
        Quiet(p) /\ job[p] \in {"search", "pack"} =>
            /\ outcome[p] = "failed" => corpus.project \/ "disk" \in saw[p]
            /\ outcome[p] = "lexical" => saw[p] # {} \/ TornForGood

\* LEFT WHOLE: when nobody is at work, each file is whole or does not stand under its
\* name, unless somebody that was killed, or met a disk that refuses, had been at work
\* beside another: all write to one temporary name, and whoever renames it first may
\* rename what another is still writing (writeExtractedFile, downloadURL).
CutShort(p) == pc[p] = "dead" \/ "disk" \in saw[p]
FilesLeftWhole ==
    (\A p \in Proc : ~Running(p)) /\ ~(\E p \in Proc : CutShort(p) /\ "company" \in saw[p])
    => \A f \in File : Stands(final[f]) => Whole(final[f])

\* FUSION KEEPS ORDER: of the rows and the semantic hits, those that the query names
\* come first, and between two that it names, or does not, one that is nowhere behind
\* the other and somewhere ahead of it stays ahead, up to the limit (promoteIdentifier-
\* Matches: "An exact id match is an unambiguous statement of intent, so it outranks
\* term-frequency evidence.  Relative order is otherwise preserved").
IsAhead(s, a, b) == Place(s, a) # 0 /\ (Place(s, b) = 0 \/ Place(s, a) < Place(s, b))
FusionKeepsOrder(p) ==
    LET ids == IdsOf(rows[p])
        out == IdsOf(rows'[p])
        all == ToSet(ids) \union ToSet(hits[p])
        leads(a, b) == /\ IsAhead(ids, a, b) \/ IsAhead(hits[p], a, b)
                       /\ ~IsAhead(ids, b, a) /\ ~IsAhead(hits[p], b, a)
    IN  /\ Len(out) = IF Cardinality(all) < corpus.limit THEN Cardinality(all) ELSE corpus.limit
        /\ \A a, b \in all :
              (Named(a) /\ ~Named(b)) \/ ((Named(a) <=> Named(b)) /\ leads(a, b))
              => ~IsAhead(out, b, a)

\* ONE HOP: a structural search puts a text hit or its parent in its place and loses
\* neither; a row that is the parent of another hit stays, and is not followed to its
\* own parent; nothing else comes in (projectStructuralOwnerWitnessRows: "a row that
\* is itself another row's parent is kept as that parent's exact row, never projected
\* to a grandparent").
OneHop(p) ==
    LET found == own[p] \intersect Ids(rows[p])
        parents == {OwnerOf(e) : e \in found} \ {Gone}
        out == Ids(rows'[p])
    IN  /\ Cardinality(out) = Len(rows'[p])
        /\ out \subseteq Ids(rows[p]) \union {OwnerOf(e) : e \in found \ parents}
        /\ \A e \in found : IF e \in parents THEN e \in out
                            ELSE e \in out \/ OwnerOf(e) \in out

\* What the hits say, the answer says: fusion keeps their order and the projection
\* on owners goes one hop (fuseSemanticRows, projectStructuralOwnerWitnessRows).
AnswerFollowsHits ==
    [][\A p \in Proc :
         /\ pc[p] = "fuse" /\ pc'[p] \notin {"fuse", "dead"} => FusionKeepsOrder(p)
         /\ pc[p] = "project" /\ pc'[p] = "route" => OneHop(p)]_searchVars
=============================================================================
