------------------------------- MODULE Check -------------------------------
(***************************************************************************)
(* check and check --fix (RunCheckV2 and, before it, RunVerify), beside    *)
(* the commands and the hand edits that make what they find: add, write,   *)
(* change accept, and documents edited in place and imported by repair.    *)
(*                                                                         *)
(* A report is a set of issues.  --fix first rebuilds every membership     *)
(* table and then finishes the change documents whose evidence is current. *)
(* An issue that is an error fails the command, and a failed command is    *)
(* rolled back.  The tree is in step with the cache and its seals are      *)
(* whole: how they come to be is the subject of CacheSync.  Adrs and the   *)
(* facts a unit retires are the subject of Lifecycle.                      *)
(***************************************************************************)
EXTENDS Canvas

CONSTANTS
    IdOrder,        \* all ids, sorted
    Title,          \* the title of each id
    Goal,           \* what a cell of a fresh row says, if the parent is to say it
    Derived,        \* columns of a membership table that repeat the child's title
    Longer,         \* per id: the ids whose file name begins with its own
    Scope, Origin,  \* links in the frontmatter of refs and of rules
    Drafts,         \* per type: the bodies that people write
    Starts,         \* the projects to begin with
    Asked,          \* the targets and rules that check is asked for
    MaxEdits        \* bound: number of commands other than check

\* A body: sections with a name, whose tables have a header.
IsList(s) == s \in Seq(ToSet(s))
IsBody(b) ==
    /\ IsList(b)
    /\ \A i \in DOMAIN b :
          /\ b[i] = Section(b[i].name, b[i].said)
          /\ Holds(b[i].said) => /\ IsList(b[i].said.heads) /\ b[i].said.heads # <<>>
                                 /\ IsList(b[i].said.rows)

\* A project: documents with their parents, bodies, versions and statuses; the types
\* whose canvas file is invalid, what the code map names, what its anchors have left, and
\* the files there are.
IsProject(p) ==
    /\ p = [live |-> p.live, parent |-> p.parent, body |-> p.body, version |-> p.version,
            status |-> p.status, broken |-> p.broken, mapped |-> p.mapped,
            adrift |-> p.adrift, files |-> p.files]
    /\ p.live \subseteq Id /\ p.broken \subseteq Kind
    /\ p.parent \in [Id -> Id \union {None}]
    /\ p.body = [e \in Id |-> p.body[e]] /\ \A e \in Id : IsBody(p.body[e])
    /\ p.version \in [Id -> Nat] /\ p.status = [e \in Id |-> p.status[e]]

\* Sections of a canvas have different names (ValidateCanvas), and types that list their
\* children have a canvas with the table for it.  No document is called as the report
\* calls the canvases.
ASSUME CheckAssumption ==
    /\ "canvas" \notin Id
    /\ IdOrder \in Seq(Id) /\ ToSet(IdOrder) = Id
    /\ \A i, j \in DOMAIN IdOrder : i # j => IdOrder[i] # IdOrder[j]
    /\ Longer \in [Id -> SUBSET Id]
    /\ \A k \in DOMAIN Canvases : LET s == Canvases[k].sections IN
          /\ IsList(s) /\ \A i \in DOMAIN s : IsList(s[i].columns)
          /\ \A i, j \in DOMAIN s : i # j => s[i].name # s[j].name
    /\ \A k \in Kind : ChildKind[k] # None =>
          /\ k \in DOMAIN Canvases
          /\ \E d \in ToSet(Canvases[k].sections) : d.name = Members[k] /\ d.columns # <<>>
    /\ \A p \in Starts : IsProject(p)
    /\ \A k \in Kind : \A body \in Drafts[k] : IsBody(body)
    /\ MaxEdits \in Nat

VARIABLES project, report, edits
checkVars == <<project, report, edits>>

NoReport == [kind |-> "none"]
Finished == {"done", "superseded"}

-----------------------------------------------------------------------------
(* The definition check has of a type: an invalid canvas file counts as none. *)

HasCanvas(p, k) == k \in DOMAIN Canvases /\ (k \in p.broken => k \in BuiltIn)
Sections(k)     == Canvases[k].sections

\* IsChangeDocDir, and IsChangeDoc, which knows the built-in types alone.
IsChangeDoc(p, k)   == HasCanvas(p, k) /\ Canvases[k].change
IsStrictChange(k)   == k \in BuiltIn /\ Canvases[k].change
IsStrict(k)         == k = "component" \/ IsStrictChange(k)

Children(p, e) ==
    {c \in p.live : p.parent[c] = e /\ KindOf[c] = ChildKind[KindOf[e]]}

\* What the columns with edges cite; a target of another type wires nothing.
Cited(p, e) ==
    LET cells == UNION {UNION {{r[h] : h \in DOMAIN r \intersect
                                 {col.name : col \in {c \in Columns(d) : c.edge}}} :
                    r \in ToSet(First(p.body[e], d.name).rows)} :
                    d \in {x \in ToSet(Sections(KindOf[e])) : x.table
                             /\ Present(p.body[e], x.name) /\ Holds(First(p.body[e], x.name))}}
    IN  (UNION {IF c.kind = "ids" THEN c.ids ELSE {} : c \in cells}) \ {e}
Uses(p, e) ==
    IF ~HasCanvas(p, KindOf[e]) THEN {}
    ELSE {r \in Cited(p, e) \intersect p.live : KindOf[r] \in {"ref", "rule"}}

-----------------------------------------------------------------------------
(* Which documents are asked for.                                            *)

Matches(T, e) == T = {} \/ e \in T \/ \E t \in T \intersect Id : e \in Longer[t]

Inspected(p, T) ==
    {e \in p.live : /\ Matches(T, e) /\ HasCanvas(p, KindOf[e])
                    /\ IsStrictChange(KindOf[e]) /\ p.status[e] \in Finished => e \in T}

\* The citers of a rule, or nothing if there are none.
Citers(p, R) == {e \in p.live : Uses(p, e) \intersect R # {}}
RulesResolve(p, R) == \A r \in R : r \in p.live /\ Citers(p, {r}) # {}

-----------------------------------------------------------------------------
(* One document.                                                             *)

Issue(e, x, what)   == [about |-> e, where |-> x, what |-> what, error |-> FALSE]
Error(e, x, what)   == [about |-> e, where |-> x, what |-> what, error |-> TRUE]

\* A handle is current if the version is and the block is still there.
IsCurrent(p, c) ==
    /\ c.kind = "cite"
    /\ c.id \in p.live
    /\ p.version[c.id] = c.version
    /\ \E i \in DOMAIN p.body[c.id] : p.body[c.id][i].said = c.block

Resolved(p, c) == c.kind = "ids" /\ Cardinality(c.ids) = 1 /\ c.ids \subseteq p.live

\* validateColumn
IsFaulty(p, col, c) ==
    CASE col.type = "filepath"  -> c # Blank /\ ~(c.kind = "file" /\ c.file \in p.files)
      [] col.type = "entity_id" -> c \notin {Blank, NA} /\ ~Resolved(p, c)
      [] col.type = "reference" -> c \notin {Blank, NA}
                                    /\ ~(c.kind = "ids" /\ c.ids \intersect p.live # {})
      [] col.type = "evidence"  -> c # Blank /\ ~LooksLikeEvidence(c)
      [] col.type = "cite"      -> c \notin {Blank, NA} /\ ~IsCurrent(p, c)
      [] col.type \in {"check", "edge"} -> c = Todo
      [] col.type = "enum"      -> /\ c # Blank
                                   /\ ~(c.kind = "word" /\ c.word \in col.words)
                                   /\ ~(c = NA /\ "NA" \in col.words)
      [] col.type = "ref_id"    -> c # Blank /\ ~Resolved(p, c)
      [] OTHER                  -> FALSE

ColumnIssues(p, e, d) ==
    LET said == Said(p.body[e], d.name) IN
    {Issue(e, d.name, col.type) : col \in {c \in Columns(d) :
        /\ c.name \in ToSet(said.heads)
        /\ \E i \in DOMAIN said.rows : IsFaulty(p, c, said.rows[i][c.name])}}

Tables(p, e) ==
    {d \in ToSet(Sections(KindOf[e])) :
        d.table /\ Present(p.body[e], d.name) /\ Parses(Said(p.body[e], d.name))}

ShapeIssues(p, e) ==
    UNION {{Issue(e, d.name, w) : w \in ShapeFaults(KindOf[e], d, p.body[e])} :
              d \in Required(Sections(KindOf[e]))}

StrictIssues(p, e) ==
    LET k == KindOf[e] IN
    IF ~IsStrict(k) THEN {}
    ELSE {Error(e, x[1], x[2]) : x \in StrictFaults(Sections(k), p.body[e])}
         \union (IF IsStrictChange(k) /\ TouchesNothing(Sections(k), p.body[e])
                 THEN {Error(e, "whole", "touchesNothing")} ELSE {})

OriginIssues(p, e) ==
    {Error(e, "whole", "origin") : o \in {x \in Origin[e] : x \notin p.live}}

\* autoDoneLatch: an accepted change document that cites something, and only what
\* is current.
IsReady(p, e) ==
    LET cites == (UNION {{r[col.name] : r \in ToSet(Said(p.body[e], d.name).rows),
                                      col \in {c \in Columns(d) : c.type = "cite"
                                         /\ c.name \in ToSet(Said(p.body[e], d.name).heads)}} :
                        d \in {t \in Tables(p, e) : ~t.free}}) \ {Blank, NA}
    IN  /\ IsChangeDoc(p, KindOf[e]) /\ p.status[e] = "accepted"
        /\ cites # {} /\ \A c \in cites : IsCurrent(p, c)

ReadyNote(e) == Issue(e, "whole", "ready")

DocumentIssues(p, e) ==
    (IF IsReady(p, e) THEN {ReadyNote(e)} ELSE {})
    \union ShapeIssues(p, e) \union StrictIssues(p, e) \union OriginIssues(p, e)
    \union UNION {ColumnIssues(p, e, d) : d \in Tables(p, e)}

-----------------------------------------------------------------------------
(* The project.                                                              *)

\* The id a cell of a membership table says, read as a whole.
IdIn(c) == IF c.kind = "ids" /\ Cardinality(c.ids) = 1
           THEN CHOOSE e \in c.ids : TRUE ELSE None

\* checkLayerDisconnectsStore: parents whose section is one table.
Listed(p, e) ==
    LET t == First(p.body[e], Members[KindOf[e]]) IN
    {IF Key \in DOMAIN r THEN IdIn(r[Key]) ELSE None : r \in ToSet(t.rows)}
KeepsTable(p, e) ==
    /\ ChildKind[KindOf[e]] # None
    /\ Present(p.body[e], Members[KindOf[e]])
    /\ Parses(First(p.body[e], Members[KindOf[e]]))
LayerIssues(p) ==
    {Issue(e, Members[KindOf[e]], "disconnect") : e \in {x \in p.live :
        /\ KeepsTable(p, x)
        /\ \/ \E c \in Children(p, x) : c \notin Listed(p, x)
           \/ \E c \in Listed(p, x) \intersect p.live : c \notin Children(p, x)}}

CodeMapIssues(p) == {Issue(e, "whole", "codeMap") : e \in p.mapped \ p.live}
AnchorIssues(p, T) ==
    {Issue(e, "whole", "anchor") : e \in {x \in p.adrift \intersect p.live : Matches(T, x)}}
CanvasIssues(p, T) ==
    IF p.broken # {} /\ (T = {} \/ T \intersect (DOMAIN Canvases \union p.broken) # {})
    THEN {Error("canvas", "whole", "invalid")} ELSE {}
\* (A mutant: only the documents whose file is named after the target count.)
UnknownTargetsByFile(p, T) ==
    {Error(t, "whole", "unknownTarget") : t \in {x \in T \intersect Id :
        \A e \in p.live : e \notin Longer[x]}}

UnknownTargets(p, T) ==
    {Error(t, "whole", "unknownTarget") : t \in {x \in T \intersect Id :
        \A e \in p.live : e # x /\ e \notin Longer[x]}}

\* A component under a container that a ref is scoped to cites the ref.
ScopeIssues(p, T) ==
    {Issue(c, "whole", "scope") : c \in {x \in p.live : KindOf[x] = "component" /\ Matches(T, x)
        /\ \E r \in p.live : KindOf[r] = "ref" /\ p.parent[x] \in Scope[r]
                              /\ r \notin Uses(p, x)}}

\* (A mutant: what is found by looking at the whole project is not filtered.)
IssuesUnfiltered(p, T) ==
    (UNION {DocumentIssues(p, e) : e \in Inspected(p, T)})
    \union LayerIssues(p)
    \union (IF T = {} THEN CodeMapIssues(p) ELSE {})
    \union AnchorIssues(p, T) \union CanvasIssues(p, T)
    \union UnknownTargets(p, T) \union ScopeIssues(p, T)

Issues(p, T) ==
    (UNION {DocumentIssues(p, e) : e \in Inspected(p, T)})
    \union {i \in LayerIssues(p) : Matches(T, i.about)}
    \union (IF T = {} THEN CodeMapIssues(p) ELSE {})
    \union AnchorIssues(p, T) \union CanvasIssues(p, T)
    \union UnknownTargets(p, T) \union ScopeIssues(p, T)

HasErrors(issues) == \E i \in issues : i.error

-----------------------------------------------------------------------------
(* The membership tables, made anew (ReconcileMembershipBody).               *)

\* Some naturals, in order.
Ascending(S) == [k \in 1..Cardinality(S) |->
                    CHOOSE n \in S : Cardinality({m \in S : m < n}) = k - 1]

\* (A mutant: a row that is no child's stays.)
SurvivorsAndOrphans(rows, key, kids) ==
    {i \in DOMAIN rows : \A j \in 1..(i - 1) : IdIn(rows[j][key]) # IdIn(rows[i][key])}

\* The rows of children, of each child the first.
Survivors(rows, key, kids) ==
    {i \in DOMAIN rows : /\ IdIn(rows[i][key]) \in kids
                         /\ \A j \in 1..(i - 1) : IdIn(rows[j][key]) # IdIn(rows[i][key])}

\* They stay in the order they are in; then come the children without one.  The first
\* column is the key, whatever it is called.
NewRows(p, e, heads, rows) ==
    LET key   == heads[1]
        kids  == Children(p, e)
        kept  == Ascending(Survivors(rows, key, kids))
        fresh == Ascending({i \in DOMAIN IdOrder : /\ IdOrder[i] \in kids
                              /\ \A j \in DOMAIN rows : IdIn(rows[j][key]) # IdOrder[i]})
        cell(c, h, said) == IF h = key THEN Ids({c})
                            ELSE IF h \in Derived THEN Word(Title[c]) ELSE said
        row(old)  == [h \in ToSet(heads) |-> cell(IdIn(old[key]), h, old[h])]
        fresh1(c) == [h \in ToSet(heads) |-> cell(c, h, Goal)]
    IN  [k \in DOMAIN kept |-> row(rows[kept[k]])]
        \o [k \in DOMAIN fresh |-> fresh1(IdOrder[fresh[k]])]

\* A section with a table no reader understands is left alone; one without a
\* table is given the columns of its canvas.
Reconciled(p, e) ==
    LET k == KindOf[e]
        body == p.body[e]
        canvasHeads == Heads(CHOOSE d \in ToSet(Sections(k)) : d.name = Members[k])
    IN  IF ChildKind[k] = None \/ ~Present(body, Members[k])
             \/ First(body, Members[k]).kind = "broken" THEN body
        ELSE LET said == First(body, Members[k])
                 heads == IF Holds(said) THEN said.heads ELSE canvasHeads
                 rows  == IF Holds(said) THEN said.rows ELSE <<>>
                 new   == NewRows(p, e, heads, rows)
             IN  IF Holds(said) /\ new = rows THEN body
                 ELSE WithSaid(body, Members[k], Table(heads, new))

\* Only a table that changed is held against the canvas again.
Refuses(p, e) ==
    /\ Reconciled(p, e) # p.body[e]
    /\ HasCanvas(p, KindOf[e])
    /\ Refused(KindOf[e], Sections(KindOf[e]), Reconciled(p, e)) # {}

\* Every body that changes is another version of its document.
Healed(p, S) ==
    LET body == [e \in Id |-> IF e \in S THEN Reconciled(p, e) ELSE p.body[e]]
    IN  [p EXCEPT !.body    = body,
                  !.version = [e \in Id |-> IF body[e] # p.body[e] THEN @[e] + 1 ELSE @[e]]]

-----------------------------------------------------------------------------
(* Commands.                                                                 *)

CheckInit == project \in Starts /\ report = NoReport /\ edits = 0

Edit(p) ==
    /\ p # project
    /\ edits' = edits + 1
    /\ report' = NoReport
    /\ project' = p

Passes(e, body) ==
    /\ HasCanvas(project, KindOf[e])
    /\ Refused(KindOf[e], Sections(KindOf[e]), body) = {}

\* The parent of what is added, and of nothing else, is reconciled.
Add(e, pa, body) ==
    LET p == [project EXCEPT !.live = @ \union {e}, !.parent[e] = pa, !.body[e] = body,
                             !.version[e] = 1, !.status[e] = "active"]
    IN  /\ e \notin project.live
        /\ IF KindOf[e] \in {"container", "component"}
           THEN pa \in project.live /\ ChildKind[KindOf[pa]] = KindOf[e] ELSE pa = None
        /\ Passes(e, body)
        /\ Cited(p, e) \subseteq p.live
        /\ pa # None => ~Refuses(p, pa)
        /\ Edit(Healed(p, {pa}))

\* write, whole and by section; only change documents may be written again.
Rewrite(e, body) ==
    /\ e \in project.live
    /\ IsChangeDoc(project, KindOf[e])
    /\ Passes(e, body)
    /\ Edit([project EXCEPT !.body[e] = body, !.version[e] = @ + 1])
WriteSection(e, x, said) ==
    /\ Present(project.body[e], x)
    /\ Rewrite(e, WithSaid(project.body[e], x, said))

AcceptDocument(e) ==
    /\ e \in project.live
    /\ IsChangeDoc(project, KindOf[e])
    /\ Edit([project EXCEPT !.status[e] = "accepted"])

\* A document is edited in place, and the cache built again: one version of each.
\* An import refuses an edge to nothing.
HandEdit(e, pa, body) ==
    LET p == [project EXCEPT !.parent[e] = pa, !.body[e] = body,
                             !.version = [f \in Id |-> IF f \in project.live THEN 1 ELSE 0]]
    IN  /\ e \in project.live
        /\ HasCanvas(p, KindOf[e]) => Cited(p, e) \subseteq p.live
        /\ Edit(p)

\* check: RunVerify first, then, with --fix, the tables and the latch.
RunCheck(T, R, fix) ==
    LET first  == Issues(project, T)
        p      == IF fix THEN Healed(project, project.live) ELSE project
        all    == T \union Citers(p, R)
        ready  == IF fix THEN {e \in Inspected(p, all) : IsReady(p, e)} ELSE {}
        issues == {i \in Issues(p, all) : ~(i.about \in ready) \/ i = ReadyNote(i.about)
                                            \/ i.what \in {"disconnect", "anchor"}}
        starts == /\ ~HasErrors(first)
                  /\ fix => \A e \in project.live : ~Refuses(project, e)
                  /\ RulesResolve(p, R)
        ok     == starts /\ ~HasErrors(issues)
    IN  /\ report' = [kind |-> "report", targets |-> T, rules |-> R, fix |-> fix, ok |-> ok,
                      issues |-> IF starts THEN issues ELSE first]
        /\ project' = IF ok
                      THEN [p EXCEPT !.status = [e \in Id |-> IF e \in ready THEN "done" ELSE @[e]]]
                      ELSE project
        /\ UNCHANGED edits

Edits ==
    \/ \E e \in Id : \E body \in Drafts[KindOf[e]] :
         \/ \E pa \in Id \union {None} : Add(e, pa, body)
         \/ Rewrite(e, body)
         \/ HandEdit(e, project.parent[e], body)
         \/ \E i \in DOMAIN body : WriteSection(e, body[i].name, body[i].said)
    \/ \E e \in Id : AcceptDocument(e)
    \/ \E e \in Id : \E pa \in project.live :
         ChildKind[KindOf[pa]] = KindOf[e] /\ HandEdit(e, pa, project.body[e])

\* A check comes after an edit, or is the --fix that a report asks for.  (A bound:
\* of checks in a row the others say nothing that one of them does not.)
Follows(fix, T) ==
    \/ report = NoReport
    \/ fix /\ report.kind = "report" /\ ~report.fix /\ \E e \in T : ReadyNote(e) \in report.issues

CheckNext ==
    \/ edits < MaxEdits /\ Edits
    \/ \E a \in Asked : \E fix \in BOOLEAN :
         /\ Follows(fix, a.targets)
         /\ RunCheck(a.targets, a.rules, fix)

CheckSpec == CheckInit /\ [][CheckNext]_checkVars

-----------------------------------------------------------------------------
(* What the ids that c3x makes are like, and the canvas of components that it *)
(* brings along.  Both may be edited, and nothing above depends on them.      *)

\* No document is called as a type is, and a file name that begins with an id begins with
\* what that one begins with.
NamesAreApart ==
    /\ Id \intersect Kind = {}
    /\ \A e \in Id : \A f \in Longer[e] : Longer[f] \subseteq Longer[e]

\* Every section the canvas requires is strict, and every table in them wants a row.
ComponentCanvasIsStrict ==
    \A d \in Required(Sections("component")) : ~d.free /\ (d.table => d.minRows \in Nat \ {0})

-----------------------------------------------------------------------------
(* Correctness.                                                              *)

\* The gate and check read a section alike: what one of them lets pass, so does
\* the other - but for what the cells of a table say, which check alone follows into
\* the project, tables that do not parse, which check passes over, a membership
\* section without a table, which the gate leaves to the tool, and the strict rules,
\* to which the gate holds components alone (validateBodyContentWithDefinition,
\* RunCheckV2, validateColumn).
ReadersAgree ==
    \A e \in project.live : HasCanvas(project, KindOf[e]) =>
        LET k == KindOf[e]
            body == project.body[e]
            gate(d)  == {x \in Refused(k, Sections(k), body) : x[1] = d.name}
            cells(d) == IF d \in Tables(project, e) THEN ColumnIssues(project, e, d) ELSE {}
            seen(d)  == {i \in ShapeIssues(project, e) \union StrictIssues(project, e) :
                           i.where = d.name} \union cells(d)
        IN  \A d \in Required(Sections(k)) :
              \/ (gate(d) = {}) = (seen(d) = {})
              \/ gate(d) = {} /\ cells(d) # {}
              \/ gate(d) = {} /\ IsStrictChange(k)
              \/ gate(d) = {} /\ IsMembers(k, d) /\ Said(body, d.name) = Nothing
              \/ seen(d) = {} /\ d.table /\ ~Parses(Said(body, d.name))

\* check --fix repairs what check calls a disconnect, on whatever path it arose,
\* and has nothing left to do after it has succeeded - but in a table whose first
\* column is not that of the ids, which one reader takes for the key and the
\* other does not (healMembership, checkLayerDisconnectsStore).
KeyComesFirst(p, e) == KeepsTable(p, e) => First(p.body[e], Members[KindOf[e]]).heads[1] = Key
FixSettles ==
    report.kind = "report" /\ report.fix /\ report.ok =>
        /\ \A i \in LayerIssues(project) : ~KeyComesFirst(project, i.about)
        /\ Healed(project, project.live) = project

\* A check of some documents says of them what a check of everything says, and
\* says nothing of others: it neither hides an issue nor finds one of its own,
\* but for a finished document, which only its name makes it look at
\* (checkTargetMatcher, filterIssuesByTargets).
FocusedSaysTheSame ==
    report.kind = "report" /\ ~report.fix /\ report.rules = {} =>
        LET full == Issues(project, {})
        IN  /\ \A i \in report.issues : Matches(report.targets, i.about) \/ i.about = "canvas"
            /\ \A e \in project.live : Matches(report.targets, e) =>
                 \/ IsStrictChange(KindOf[e]) /\ project.status[e] \in Finished
                 \/ {i \in report.issues : i.about = e} = {i \in full : i.about = e}

\* What check reports as ready, check --fix finishes, asked for it as the report
\* says, if the report has no error - unless there was a table to repair, which
\* makes another version of what the document may cite
\* (autoDoneLatch, healMembership).
ReadyIsFinished ==
    [][\A e \in project.live :
         /\ report.kind = "report" /\ report.ok /\ ~report.fix
         /\ ReadyNote(e) \in report.issues
         /\ Healed(project, project.live) = project
         /\ report'.kind = "report" /\ report'.fix /\ report'.targets = {e} /\ report'.rules = {}
         => project'.status[e] = "done"]_checkVars
=============================================================================
