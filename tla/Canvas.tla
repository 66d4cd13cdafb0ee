------------------------------- MODULE Canvas -------------------------------
(***************************************************************************)
(* What a canvas asks of the body of a document, as the three places that  *)
(* ask it read the body: the gate of add, write and apply                  *)
(* (validateBodyContentWithDefinition), the strict rules (validateStrictDoc)*)
(* and the loop of check (RunCheckV2, validateColumn).                     *)
(*                                                                         *)
(* A body is a sequence of named sections and what each says: nothing,     *)
(* prose, a table, or a table that does not parse.  Cells are what the     *)
(* validators tell apart, not text.                                        *)
(***************************************************************************)
EXTENDS Integers, Sequences, SequencesExt, FiniteSetsExt

CONSTANTS
    Id, None,       \* ids of documents, and of nothing
    Kind, KindOf,   \* types of documents; the type each id has
    BuiltIn,        \* the types c3x brings along
    Canvases,       \* per type with a canvas: its sections, whether it is a change document
    ChildKind,      \* per type: the type of the children its membership table lists, or None
    Members,        \* per such type: the section that holds the table
    Key,            \* the column of ids in those tables
    Shaped,         \* ids of a form that the pattern of strict references knows
    Needed          \* the word count a prose section may fall short of (a mark)

ASSUME CanvasAssumption ==
    /\ None \notin Id \union Kind
    /\ KindOf \in [Id -> Kind]
    /\ DOMAIN Canvases \subseteq Kind /\ BuiltIn \subseteq DOMAIN Canvases
    /\ ChildKind \in [Kind -> Kind \union {None}]
    /\ Shaped \subseteq Id

-----------------------------------------------------------------------------
(* Cells.                                                                    *)

Blank      == [kind |-> "blank"]
NA         == [kind |-> "NA"]                  \* N.A - reason
HalfNA     == [kind |-> "half"]                 \* N.A without a reason
Todo       == [kind |-> "todo"]                 \* TBD, FIXME, ...
Word(w)    == [kind |-> "word", word |-> w]
Ids(S)     == [kind |-> "ids", ids |-> S]
File(f)    == [kind |-> "file", file |-> f]     \* a path or a command
\* A handle: a version of a document and the block of it that is cited.
Cite(e, v, block) == [kind |-> "cite", id |-> e, version |-> v, block |-> block]

NamesIn(c) == IF c.kind = "ids" THEN c.ids ELSE IF c.kind = "cite" THEN {c.id} ELSE {}

\* isGroundedReference, isGroundedEvidence: by the form of the text.
LooksLikeReference(c) == c = NA \/ NamesIn(c) \intersect Shaped # {}
LooksLikeEvidence(c)  == LooksLikeReference(c) \/ c.kind = "file"

-----------------------------------------------------------------------------
(* Bodies.  said.kind is "blank", "prose", "table", "broken" (rows that do not *)
(* fit the header) or "lead" (a table after a line of prose).                *)

Section(x, said)  == [name |-> x, said |-> said]
Nothing           == [kind |-> "blank"]
Prose(flaws)      == [kind |-> "prose", flaws |-> flaws]
Table(heads, rows) == [kind |-> "table", heads |-> heads, rows |-> rows]
Broken            == [kind |-> "broken"]
Lead(heads, rows) == [kind |-> "lead", heads |-> heads, rows |-> rows]

Places(body, x) == {i \in DOMAIN body : body[i].name = x}
Present(body, x) == Places(body, x) # {}

\* A lookup by name finds the last section of the name; the readers of the
\* membership table find the first.
Said(body, x)  == body[Max(Places(body, x))].said
First(body, x) == body[Min(Places(body, x))].said

\* ParseTable wants nothing else in the section; ExtractTableFromSection finds
\* the first table in it.
Parses(said) == said.kind = "table"
Holds(said)  == said.kind \in {"table", "lead"}

WithSaid(body, x, said) == [body EXCEPT ![Min(Places(body, x))].said = said]

Heads(d)      == [i \in DOMAIN d.columns |-> d.columns[i].name]
Columns(d)    == ToSet(d.columns)
Required(defs) == {d \in ToSet(defs) : d.required}

IsMembers(k, d) == ChildKind[k] # None /\ d.name = Members[k]

-----------------------------------------------------------------------------
(* The strict rules.  An issue is what is wrong, and where.                  *)

IsStrictSection(d) == d.required /\ ~d.free
Strict(defs)       == {d \in ToSet(defs) : IsStrictSection(d)}

OutOfOrder(defs, body) ==
    {defs[j].name : j \in {k \in DOMAIN defs : \E i \in 1..(k - 1) :
        /\ IsStrictSection(defs[i]) /\ IsStrictSection(defs[k])
        /\ Present(body, defs[i].name) /\ Present(body, defs[k].name)
        /\ Min(Places(body, defs[k].name)) < Min(Places(body, defs[i].name))}}

Allowed(col) == col.words \ {"NA"}

CellFaults(d, row) ==
    (UNION {LET c == row[h]
               enums == {col \in Columns(d) : col.name = h /\ col.type = "enum"}
           IN  (IF c = Blank THEN {"blank"} ELSE {}) \union
               (IF c = Todo THEN {"placeholder"} ELSE {}) \union
               (IF c = HalfNA THEN {"invalidNA"} ELSE {}) \union
               (IF c \notin {Blank, NA} /\ \E col \in enums : Allowed(col) # {}
                     /\ ~(c.kind = "word" /\ c.word \in Allowed(col))
                THEN {"enum"} ELSE {}) : h \in DOMAIN row})
    \union (IF \A h \in DOMAIN row : row[h] = NA THEN {"allNA"} ELSE {})

CellsOf(t, cols) == {x \in (DOMAIN t.rows) \X cols : x[2] \in DOMAIN t.rows[x[1]]}
ColumnsOf(d, type) == {col.name : col \in {c \in Columns(d) : c.type = type}}

MeaningFaults(d, t) ==
    LET refs   == ColumnsOf(d, "reference")
        cell(x) == t.rows[x[1]][x[2]]
        detail == CellsOf(t, {col.name : col \in {c \in Columns(d) : c.detail}})
    IN  (IF \E x \in CellsOf(t, refs) : ~LooksLikeReference(cell(x))
         THEN {"ungroundedReference"} ELSE {}) \union
        (IF \E x \in CellsOf(t, ColumnsOf(d, "evidence")) : ~LooksLikeEvidence(cell(x))
         THEN {"ungroundedEvidence"} ELSE {}) \union
        (IF \E x, y \in detail : x # y /\ cell(x) = cell(y) /\ cell(x).kind = "word"
         THEN {"boilerplate"} ELSE {}) \union
        (IF /\ refs # {} /\ t.rows # <<>>
            /\ \A x \in CellsOf(t, refs) : cell(x) = NA \/ ~LooksLikeReference(cell(x))
         THEN {"noReference"} ELSE {})

TableFaults(d, said) ==
    IF ~Parses(said) THEN {"invalidTable"}
    ELSE (IF said.heads # Heads(d) THEN {"columns"} ELSE {}) \union
         (IF Len(said.rows) < d.minRows THEN {"tooFewRows"} ELSE {}) \union
         (UNION {CellFaults(d, said.rows[i]) : i \in DOMAIN said.rows}) \union
         MeaningFaults(d, said)

TextFaults(d, said) ==
    LET flaws == IF said.kind = "prose" THEN said.flaws
                 ELSE IF said = Nothing THEN {Needed} ELSE {}
    IN  IF d.long THEN flaws ELSE flaws \ {Needed}

StrictFaults(defs, body) ==
    LET of(d) ==
            IF ~Present(body, d.name) THEN {"missing"}
            ELSE LET said == Said(body, d.name)
                 IN  (IF Cardinality(Places(body, d.name)) > 1 THEN {"duplicate"} ELSE {})
                     \union (IF said = Nothing THEN {"empty"} ELSE {})
                     \union (IF d.table THEN TableFaults(d, said) ELSE TextFaults(d, said))
    IN  (UNION {{<<d.name, w>> : w \in of(d)} : d \in Strict(defs)})
        \union {<<x, "order">> : x \in OutOfOrder(defs, body)}

\* changeDocTouchesNothing
TouchesNothing(defs, body) ==
    LET rows == UNION {ToSet(Said(body, d.name).rows) : d \in {e \in Strict(defs) :
                   e.table /\ Present(body, e.name) /\ Parses(Said(body, e.name))}}
    IN  rows # {} /\ \A r \in rows : \A h \in DOMAIN r : r[h] = NA

-----------------------------------------------------------------------------
(* The gate.                                                                 *)

MissingColumns(d, said) == {col.name : col \in Columns(d)} \ ToSet(said.heads)

\* What the gate finds wrong with a section the canvas requires.
GateFaults(k, d, body) ==
    IF ~Present(body, d.name) THEN {"missing"}
    ELSE LET said == Said(body, d.name) IN
         CASE said = Nothing -> IF d.table /\ IsMembers(k, d) THEN {} ELSE {"empty"}
           [] said # Nothing /\ ~d.table -> {}
           [] said # Nothing /\ d.table /\ ~Parses(said) -> {"invalidTable"}
           [] d.table /\ Parses(said) ->
                IF said.rows = <<>> THEN IF IsMembers(k, d) THEN {} ELSE {"noRows"}
                ELSE {"columns" : h \in MissingColumns(d, said)}

Unknown(defs, body) ==
    {<<body[i].name, "unknown">> : i \in {j \in DOMAIN body :
        \A d \in ToSet(defs) : d.name # body[j].name}}

Refused(k, defs, body) ==
    Unknown(defs, body) \union
    (IF k = "component" THEN StrictFaults(defs, body)
     ELSE UNION {{<<d.name, w>> : w \in GateFaults(k, d, body)} : d \in Required(defs)})

-----------------------------------------------------------------------------
(* check, without the store: the shape of what the canvas requires.          *)

\* (A mutant: the section whose rows the tool fills in may not be empty.)
ShapeFaultsStern(k, d, body) ==
    IF ~Present(body, d.name) THEN {"missing"}
    ELSE LET said == Said(body, d.name) IN
         CASE said = Nothing -> {"empty"}
           [] d.table /\ Parses(said) ->
                IF said.rows = <<>> THEN {"noRows"}
                ELSE {"columns" : h \in MissingColumns(d, said)}
           [] OTHER -> {}

ShapeFaults(k, d, body) ==
    IF ~Present(body, d.name) THEN {"missing"}
    ELSE LET said == Said(body, d.name) IN
         CASE said = Nothing -> {"empty"}
           [] d.table /\ Parses(said) ->
                IF said.rows = <<>> THEN IF IsMembers(k, d) THEN {} ELSE {"noRows"}
                ELSE {"columns" : h \in MissingColumns(d, said)}
           [] OTHER -> {}
=============================================================================
