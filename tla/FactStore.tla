----------------------------- MODULE FactStore -----------------------------
(***************************************************************************)
(* The facts c3x keeps: entities with their parent, title, body and        *)
(* canvas-owned edges (cli/internal/store), the canvas a body must fit     *)
(* (cli/internal/schema, validateBodyContentWithDefinition) and the        *)
(* membership table a parent's body holds (changeset/membership.go).       *)
(*                                                                         *)
(* A body is a bag of blocks.  A block stands for its sha256 hash, so an   *)
(* anchor on a block is fresh while the bag holds the block, and the root  *)
(* merkle, which sorts the hashes of the nodes, is the bag.                *)
(***************************************************************************)
EXTENDS Integers, FiniteSets

CONSTANTS
    Fact, NoFact,       \* fact ids
    Type, NoType,       \* fact types: container, component, ref, ...
    TypeOf,             \* the type of each fact id
    ChildType,          \* per type: the child type its membership table lists
    Title,
    Text,               \* contents of an ordinary block or an authored cell
    Goal,               \* what the authored cell of a fresh row says
    Section,            \* section names
    Members,            \* the section that holds the membership table
    Cited               \* the section that holds the table of citations

ASSUME NamesAssumption ==
    /\ NoFact \notin Fact
    /\ NoType \notin Type
    /\ TypeOf \in [Fact -> Type]
    /\ ChildType \in [Type -> Type \union {NoType}]
    /\ Goal \in Text
    /\ {Members, Cited} \subseteq Section

-----------------------------------------------------------------------------
(* Bodies.                                                                   *)

TextBlock    == [kind : {"text"}, val : Text]
SectionBlock == [kind : {"section"}, name : Section]
CiteRow      == [kind : {"cite"}, ref : Fact]
MemberRow    == [kind : {"member"}, id : Fact, name : Title, note : Text]
Block        == TextBlock \union SectionBlock \union CiteRow \union MemberRow
NoBlock      == [kind |-> "none"]

Body  == [Block -> Nat]
Empty == [b \in Block |-> 0]

Has(body, b)     == body[b] > 0
Added(body, b)   == [body EXCEPT ![b] = @ + 1]
Removed(body, b) == [body EXCEPT ![b] = @ - 1]

Heading(x)  == [kind |-> "section", name |-> x]
Cites(body) == {r \in Fact : Has(body, [kind |-> "cite", ref |-> r])}
Rows(body)  == {m \in MemberRow : Has(body, m)}

\* Some table cell of the body names the fact.
Mentions(body, r) == r \in Cites(body) \/ \E m \in Rows(body) : m.id = r

\* A canvas is the set of sections it declares: each is required and no other
\* is allowed (optional sections are left out).  A required table may not be
\* empty, except that of the members, whose rows the tool fills in.
Shape == SUBSET Section
ValidBody(body, shape) ==
    /\ \A x \in Section : Has(body, Heading(x)) <=> x \in shape
    /\ Cited \in shape => Cites(body) # {}

-----------------------------------------------------------------------------
(* Stores.                                                                   *)

Store == [live   : SUBSET Fact,
          parent : [Fact -> Fact \union {NoFact}],
          title  : [Fact -> Title],
          body   : [Fact -> Body],
          edges  : [Fact -> SUBSET Fact]]

WithBody(s, f, body) == [s EXCEPT !.body[f] = body]

\* Foreign keys: children of a deleted fact lose their parent, and edges to and
\* from it go with it.
Deleted(s, f) ==
    [live   |-> s.live \ {f},
     parent |-> [c \in Fact |-> IF c = f \/ s.parent[c] = f THEN NoFact
                                ELSE s.parent[c]],
     title  |-> s.title,
     body   |-> [s.body EXCEPT ![f] = Empty],
     edges  |-> [c \in Fact |-> IF c = f THEN {} ELSE s.edges[c] \ {f}]]

\* The edges a body declares replace those the canvas owns; a citation of a
\* fact that does not exist is an error.
EdgesResolve(s, f) == Cites(s.body[f]) \subseteq s.live
WithEdges(s, f)    == [s EXCEPT !.edges[f] = Cites(s.body[f]) \ {f}]

-----------------------------------------------------------------------------
(* Membership tables.                                                        *)

Children(s, f) ==
    {c \in s.live : s.parent[c] = f /\ TypeOf[c] = ChildType[TypeOf[f]]}

\* The type owns a membership table and the body has the section for it.
KeepsMembers(s, f) ==
    /\ f \in s.live
    /\ ChildType[TypeOf[f]] # NoType
    /\ Has(s.body[f], Heading(Members))

\* (Mutant: a table rebuilt from the children alone.)
NotesForgotten(s, f, c) == {Goal}

\* The authored cell of a child's row: that of a row it already has.
Notes(s, f, c) ==
    LET kept == {m.note : m \in {r \in Rows(s.body[f]) : r.id = c}}
    IN  IF kept = {} THEN {Goal} ELSE kept

Row(s, c, note) ==
    [kind |-> "member", id |-> c, name |-> s.title[c], note |-> note]

\* The body with one row per child, each under the child's current title.
WithRows(s, f, note) ==
    LET rows == {Row(s, c, note[c]) : c \in Children(s, f)}
    IN  [b \in Block |-> IF b \in MemberRow
                         THEN IF b \in rows THEN 1 ELSE 0
                         ELSE s.body[f][b]]

\* Every outcome of ReconcileMembershipBody.  When two rows have the same id
\* the first is kept; bags have no order, so either may be.
ReconciledBodies(s, f) ==
    {WithRows(s, f, note) :
        note \in {n \in [Children(s, f) -> Text] :
                    \A c \in Children(s, f) : n[c] \in Notes(s, f, c)}}

RowsMatchChildren(s, f) ==
    /\ \A m \in Rows(s.body[f]) :
         s.body[f][m] = 1 /\ m.id \in Children(s, f) /\ m.name = s.title[m.id]
    /\ \A c \in Children(s, f) : \E m \in Rows(s.body[f]) : m.id = c
    /\ \A m, n \in Rows(s.body[f]) : m.id = n.id => m = n
=============================================================================
