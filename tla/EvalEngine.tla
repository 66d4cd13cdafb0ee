----------------------------- MODULE EvalEngine -----------------------------
(***************************************************************************)
(* Conformance: each fact may have a spec, a pipeline that gathers values  *)
(* from the project and judges them (cli/internal/eval/eval.go), and eval  *)
(* runs the specs and keeps the last verdict of each in the cache, to be   *)
(* used again as long as nothing it depends on has changed (cli/cmd/       *)
(* eval.go, cli/internal/store/eval_match.go).                             *)
(*                                                                         *)
(* A digest is the value digested, and the state a verdict is stamped with *)
(* the sequence of units that is hashed for it.  Evidence is left out, and *)
(* so is the outline gather, which runs another program.  A pipeline in a  *)
(* loop has no loop, and a gather in a list no list.                       *)
(***************************************************************************)
EXTENDS Integers, Sequences, SequencesExt, FiniteSets

CONSTANTS
    Paths,          \* the project's paths in the order of a listing
    Facts,          \* the fact ids in the order of a listing
    Content,        \* what a file may say
    MayHold,        \* the contents each path may have
    LinesOf,        \* the lines of a content; a line may be a path
    Root,           \* bodies of a fact
    SpecsOf,        \* the specs each fact may be given, Nil for no spec
    Absent, Nil,    \* no file, no fact; nothing else of its kind
    Item,           \* $item in a pipeline
    Failed,         \* the state of a child that has none
    Interferes,     \* whether the project may change while eval runs
    MaxEdits, MaxEvals  \* bounds

Path == Range(Paths)
Fact == Range(Facts)
Specs == UNION {SpecsOf[f] : f \in Fact}

ASSUME EvalAssumption ==
    /\ MayHold \in [Path -> SUBSET (Content \union {Absent})]
    /\ DOMAIN LinesOf = Content
    /\ DOMAIN SpecsOf = Fact
    /\ Absent \notin Content \union Root /\ Nil \notin Path \union Fact
    /\ Nil \notin [roots : [Fact -> Root \union {Absent}], specs : [Fact -> Specs]]
    /\ Interferes \in BOOLEAN /\ MaxEdits \in Nat /\ MaxEvals \in Nat

VARIABLES
    files,      \* what is at each path
    roots,      \* the body of each fact
    specs,      \* the spec of each fact, the same hash as long as the same spec
    matches,    \* the record kept for each fact
    loaded,     \* the facts and specs as they were when eval began
    todo,       \* the facts the running eval has still to look at
    probe,      \* the manifest it has taken for the next one
    records,    \* the verdicts it reports, as the records it will save
    edits, evals

world    == <<files, roots, specs>>
evalVars == <<world, matches, loaded, todo, probe, records, edits, evals>>

Verdict == {"holds", "drift", "needs-judgement"}

-----------------------------------------------------------------------------
(* Gathering.                                                                *)

Sub(x, item)     == IF x = Item THEN item ELSE x
Unit(k, key, v)  == <<k, key, v>>
Value(u)         == u[3]
Items(k, src, s) == [i \in 1..Len(s) |-> Unit(k, <<src, i>>, s[i])]
Good(frame)      == [ok |-> TRUE, frame |-> frame]
Bad              == [ok |-> FALSE, frame |-> <<>>]

\* GlobFiles; a glob is the set of paths it fits, and $item that of one path.
Globbed(g) == SelectSeq(Paths, LAMBDA p : p \in g /\ files[p] # Absent)

\* EvalBindings
Binding(f) == IF f \in Fact /\ loaded.specs[f] # Nil THEN loaded.specs[f].code ELSE <<>>

\* A command prints those lines of the files it reads that it looks for.
Stdout(c) ==
    LET from == Globbed(c.reads)
    IN  FlattenSeq([i \in 1..Len(from) |->
            SelectSeq(LinesOf[files[from[i]]], LAMBDA l : l \in c.looksFor)])

GatherOne(g, item) ==
    CASE g.from = "literal" -> Good(Items("literal", "literal",
                                   [i \in 1..Len(g.values) |-> Sub(g.values[i], item)]))
      [] g.from = "file"    ->
           LET p == Sub(g.path, item)
           IN  IF p \notin Path \/ files[p] = Absent THEN Bad
               ELSE Good(<<Unit("file", p, files[p])>>)
      [] g.from = "files"   -> Good(Items("path", g.glob, Globbed(g.glob)))
      [] g.from = "facts"   ->
           Good(Items("fact", g.glob,
                      SelectSeq(Facts, LAMBDA f : f \in g.glob /\ loaded.roots[f] # Absent)))
      [] g.from = "command" ->
           IF Globbed(g.reads) = <<>> THEN Bad
           ELSE Good(Items("command_line", g.reads, Stdout(g)))
      [] g.from = "code"    ->
           LET globs == Binding(Sub(g.fact, item))
               found == [i \in 1..Len(globs) |-> Globbed(globs[i])]
           IN  IF globs = <<>> \/ <<>> \in Range(found) THEN Bad
               ELSE Good(FlattenSeq([i \in 1..Len(globs) |->
                        [j \in 1..Len(found[i]) |->
                            Unit("code_path", <<Sub(g.fact, item), globs[i], found[i][j]>>,
                                 found[i][j])]]))

\* gather; several sources are put one after the other.
Gather(g, item) ==
    IF g.from # "each" THEN GatherOne(g, item)
    ELSE LET parts == [i \in 1..Len(g.gathers) |-> GatherOne(g.gathers[i], item)]
         IN  IF \E i \in DOMAIN parts : ~parts[i].ok THEN Bad
             ELSE Good(FlattenSeq([i \in DOMAIN parts |-> parts[i].frame]))

\* A file is split into lines.
Split(frame) ==
    FlattenSeq([i \in 1..Len(frame) |->
        LET lines == IF Value(frame[i]) \in Content THEN LinesOf[Value(frame[i])]
                     ELSE <<Value(frame[i])>>
        IN  [j \in 1..Len(lines) |-> Unit("line", <<frame[i][2], j>>, lines[j])]])

\* The frame that the steps before the last leave.
Frame(steps, item) ==
    LET Step(acc, st) ==
          CASE ~acc.ok           -> acc
            [] acc.ok /\ st.op = "gather" -> Gather(st.gather, item)
            [] acc.ok /\ st.op = "filter" ->
                 Good(SelectSeq(acc.frame, LAMBDA u : Value(u) \in st.keep))
            [] acc.ok /\ st.op = "lines"  -> Good(Split(acc.frame))
    IN  FoldLeft(Step, Good(<<>>), steps)

-----------------------------------------------------------------------------
(* Judging.                                                                  *)

Drift == [verdict |-> "drift", units |-> <<>>, failed |-> TRUE]
Found(verdict, units) == [verdict |-> verdict, units |-> units, failed |-> FALSE]

\* assert
Holds(test, frame) ==
    LET values == {Value(frame[i]) : i \in DOMAIN frame}
    IN  CASE test.is = "exists"    -> /\ frame # <<>>
                                      /\ \A p \in values : p \in Path /\ files[p] # Absent
          [] test.is = "all_equal" -> Cardinality(values) <= 1
          [] test.is = "equals"    -> values \subseteq {test.value}
          [] test.is = "count"     -> Len(frame) = test.n

Judged(test, frame) ==
    CASE test.is = "judgement" -> Found("needs-judgement", frame)
      [] test.is # "judgement" ->
           Found(IF Holds(test, frame) THEN "holds" ELSE "drift", frame)

\* A pipeline without a loop.
RunSteps(p, item) ==
    LET in == Frame(p.steps, item)
    IN  IF in.ok THEN Judged(p.test, in.frame) ELSE Drift

\* loop: a verdict of one drift is drift.
RunLoop(over, p) ==
    LET items == Gather(over, Nil)
        child == [i \in DOMAIN items.frame |-> RunSteps(p, Value(items.frame[i]))]
        said  == {child[i].verdict : i \in DOMAIN child}
    IN  IF ~items.ok \/ items.frame = <<>> THEN Drift
        ELSE Found(CASE "drift" \in said -> "drift"
                     [] "drift" \notin said /\ "needs-judgement" \in said -> "needs-judgement"
                     [] OTHER -> "holds",
                   [i \in DOMAIN child |->
                       Unit("child", <<"item", Value(items.frame[i])>>,
                            IF child[i].failed THEN Failed ELSE child[i].units)])

RunPipeline(p) == IF p.over = Nil THEN RunSteps(p, Nil) ELSE RunLoop(p.over, p)

\* What resolvePipeline makes of a code binding, for each glob in turn.
Guard(globs) ==
    LET found == [i \in 1..Len(globs) |-> Items("path", globs[i], Globbed(globs[i]))]
    IN  Found(IF <<>> \in Range(found) THEN "drift" ELSE "holds",
              [i \in 1..Len(globs) |-> Unit("child", <<"glob", globs[i]>>, found[i])])

\* Engine.Run
Run(s) ==
    CASE s.code # <<>> /\ Guard(s.code).verdict # "holds" -> Guard(s.code)
      [] s.code # <<>> /\ Guard(s.code).verdict = "holds" /\ s.pipeline = Nil ->
           Guard(s.code)
      [] OTHER -> RunPipeline(s.pipeline)

-----------------------------------------------------------------------------
(* The manifest of a spec.                                                   *)

Sources(g)     == IF g.from = "each" THEN Range(g.gathers) ELSE {g}
Gathers(p)     == UNION {Sources(st.gather) : st \in {x \in Range(p.steps) : x.op = "gather"}}
IsCommand(g)   == g.from = "command"
HasCommand(p)  == \E g \in Gathers(p) : IsCommand(g)

\* reusePolicyForPipeline: a command says what it depends on, and nobody is asked.
Mechanical(p) ==
    /\ \A g \in Gathers(p) \union (IF p.over = Nil THEN {} ELSE Sources(p.over)) :
          IsCommand(g) => g.inputs # <<>>
    /\ p.test.is # "judgement"

\* commandInputUnits: every input fits a file, and every file that the command
\* names is among them.
InputUnits(g) ==
    LET found   == [i \in 1..Len(g.inputs) |-> Globbed(g.inputs[i])]
        covered == UNION {Range(found[i]) : i \in DOMAIN found}
    IN  IF <<>> \in Range(found) \/ \E p \in g.names : files[p] # Absent /\ p \notin covered
        THEN Bad
        ELSE Good(<<Unit("command", g.reads, g.reads)>>
                  \o FlattenSeq([i \in DOMAIN found |->
                        [j \in 1..Len(found[i]) |->
                            Unit("command_input", <<g.reads, g.inputs[i], found[i][j]>>,
                                 files[found[i][j]])]]))

\* gatherDependencyUnits
Depends(g, item) ==
    LET parts == [i \in 1..(IF g.from = "each" THEN Len(g.gathers) ELSE 1) |->
                    LET h == IF g.from = "each" THEN g.gathers[i] ELSE g
                    IN  IF IsCommand(h) THEN InputUnits(h) ELSE GatherOne(h, item)]
    IN  IF \E i \in DOMAIN parts : ~parts[i].ok THEN Bad
        ELSE Good(FlattenSeq([i \in DOMAIN parts |-> parts[i].frame]))

\* dependencyManifest for a pipeline with a command, else pipelineManifest.
StepsManifest(p, item) ==
    LET gathers == SelectSeq(p.steps, LAMBDA st : st.op = "gather")
        units   == [i \in DOMAIN gathers |-> Depends(gathers[i].gather, item)]
    IN  CASE ~HasCommand(p) -> Frame(p.steps, item)
          [] HasCommand(p) /\ (\E i \in DOMAIN units : ~units[i].ok) -> Bad
          [] OTHER -> Good(FlattenSeq([i \in DOMAIN units |-> units[i].frame]))

ManifestOfLoopItems(over, p) ==     \* a mutant: of a loop, what it runs over
    LET items == Gather(over, Nil)
    IN  IF ~items.ok \/ items.frame = <<>> THEN Bad
        ELSE Good([i \in DOMAIN items.frame |-> Unit("child", <<"item", Value(items.frame[i])>>, <<>>)])

\* loopManifest
LoopManifest(over, p) ==
    LET items == Gather(over, Nil)
        child == [i \in DOMAIN items.frame |-> StepsManifest(p, Value(items.frame[i]))]
    IN  IF ~items.ok \/ items.frame = <<>> \/ \E i \in DOMAIN child : ~child[i].ok THEN Bad
        ELSE Good([i \in DOMAIN child |->
                      Unit("child", <<"item", Value(items.frame[i])>>, child[i].frame)])

ManifestUnguarded(s) ==     \* a mutant: the code binding is left to the live run
    IF s.pipeline # Nil /\ ~Mechanical(s.pipeline) THEN Bad
    ELSE IF s.pipeline = Nil THEN Good(Guard(s.code).units)
    ELSE IF s.pipeline.over # Nil THEN LoopManifest(s.pipeline.over, s.pipeline)
    ELSE StepsManifest(s.pipeline, Nil)

\* ReusableManifest
Manifest(s) ==
    IF \/ s.pipeline # Nil /\ ~Mechanical(s.pipeline)
       \/ s.code # <<>> /\ Guard(s.code).verdict # "holds" THEN Bad
    ELSE IF s.pipeline = Nil THEN Good(Guard(s.code).units)
    ELSE IF s.pipeline.over # Nil THEN LoopManifest(s.pipeline.over, s.pipeline)
    ELSE StepsManifest(s.pipeline, Nil)

-----------------------------------------------------------------------------
(* The command, and what happens around it.                                  *)

EvalInit ==
    /\ files \in [Path -> Content \union {Absent}]
    /\ \A p \in Path : files[p] \in MayHold[p]
    /\ roots \in [Fact -> Root] /\ specs \in [Fact -> Specs]
    /\ \A f \in Fact : specs[f] \in SpecsOf[f]
    /\ matches = [f \in Fact |-> Nil]
    /\ loaded = Nil /\ todo = <<>> /\ probe = Nil /\ records = <<>>
    /\ edits = 0 /\ evals = 0

MayEdit ==
    /\ edits < MaxEdits /\ edits' = edits + 1
    /\ Interferes \/ loaded = Nil
    /\ UNCHANGED <<matches, loaded, todo, probe, records, evals>>

EditFile(p) ==
    /\ MayEdit
    /\ \E c \in MayHold[p] \ {files[p]} : files' = [files EXCEPT ![p] = c]
    /\ UNCHANGED <<roots, specs>>

\* A change-unit changes a fact, creates it or retires it.
EditFact(f) ==
    /\ MayEdit
    /\ \E r \in (Root \union {Absent}) \ {roots[f]} : roots' = [roots EXCEPT ![f] = r]
    /\ UNCHANGED <<files, specs>>

EditSpec(f) ==
    /\ MayEdit
    /\ \E s \in SpecsOf[f] \ {specs[f]} : specs' = [specs EXCEPT ![f] = s]
    /\ UNCHANGED <<files, roots>>

\* The cache is built again: records are in no document.
DropRecords ==
    /\ loaded = Nil
    /\ matches' = [f \in Fact |-> Nil]
    /\ UNCHANGED <<world, loaded, todo, probe, records, edits, evals>>

\* LoadEvalSpecs and AllEntities; eval of every fact or of one.
BeginEval(which) ==
    /\ loaded = Nil
    /\ \E f \in which : specs[f] # Nil
    /\ evals < MaxEvals /\ evals' = evals + 1
    /\ loaded' = [roots |-> roots, specs |-> specs]
    /\ todo' = SelectSeq(Facts, LAMBDA f : f \in which /\ specs[f] # Nil)
    /\ UNCHANGED <<world, matches, probe, records, edits>>

\* cachedEvalVerdict, sameEvalUnits
IsReusable(f, m) ==
    LET r == matches[f] IN
    /\ m.ok
    /\ r # Nil
    /\ r.root = loaded.roots[f] /\ r.spec = loaded.specs[f]
    /\ r.units = m.frame

\* evalMatchRecord, and what SaveEvalMatch puts for units of none.  The record
\* also tells whether files changed after the manifest was taken, and whether
\* the pipeline failed.
Record(f, v, m, torn) ==
    [fact |-> f, root |-> loaded.roots[f], spec |-> loaded.specs[f],
     verdict |-> v.verdict,
     units |-> IF m.ok /\ m.frame # <<>> THEN m.frame ELSE v.units,
     torn |-> torn, failed |-> v.failed]

Report(f, v, m, torn) ==
    /\ records' = Append(records, Record(f, v, m, torn))
    /\ todo' = Tail(todo)
    /\ probe' = Nil
    /\ UNCHANGED <<world, matches, loaded, edits, evals>>

Probe ==
    /\ todo # <<>> /\ probe = Nil
    /\ probe' = [manifest |-> Manifest(loaded.specs[Head(todo)]), of |-> files]
    /\ UNCHANGED <<world, matches, loaded, todo, records, edits, evals>>

Reuse ==
    /\ probe # Nil
    /\ LET f == Head(todo)
           r == matches[f]
       IN  /\ IsReusable(f, probe.manifest)
           /\ Report(f, [verdict |-> r.verdict, units |-> probe.manifest.frame,
                         failed |-> r.failed], probe.manifest, r.torn)

\* The files are read once more.
RunLive ==
    /\ probe # Nil
    /\ LET f == Head(todo)
       IN  /\ ~IsReusable(f, probe.manifest)
           /\ Report(f, Run(loaded.specs[f]), probe.manifest, probe.of # files)

EndEval == loaded' = Nil /\ todo' = <<>> /\ probe' = Nil /\ records' = <<>>

\* saveEvalMatches: all of them in one transaction.
Save ==
    /\ loaded # Nil /\ todo = <<>>
    /\ matches' = [f \in Fact |->
           LET of == SelectSeq(records, LAMBDA r : r.fact = f)
           IN  IF of = <<>> THEN matches[f] ELSE Last(of)]
    /\ EndEval
    /\ UNCHANGED <<world, edits, evals>>

EvalKilled ==
    /\ loaded # Nil
    /\ EndEval
    /\ UNCHANGED <<world, matches, edits, evals>>

EvalNext ==
    \/ \E p \in Path : EditFile(p)
    \/ \E f \in Fact : EditFact(f) \/ EditSpec(f) \/ BeginEval({f})
    \/ BeginEval(Fact)
    \/ DropRecords \/ Probe \/ Reuse \/ RunLive \/ Save \/ EvalKilled

EvalSpec == EvalInit /\ [][EvalNext]_evalVars
-----------------------------------------------------------------------------
\* The manifest says which values were gathered.  Whether a path among them
\* exists it says only if it was found by looking for it.
StatsValues(p) ==
    p.test.is = "exists" /\ \E g \in Gathers(p) : g.from \notin {"files", "code"}

\* A command that reads a file that is neither an input of it nor named by it.
ReadsMore(p) ==
    \E g \in Gathers(p) : IsCommand(g) /\ ~(g.reads \subseteq UNION Range(g.inputs))

Bounded(s) == s.pipeline = Nil \/ ~(StatsValues(s.pipeline) \/ ReadsMore(s.pipeline))

\* A verdict used again is the one that the pipeline would give on the files
\* the manifest was taken of: eval.go:124-129 and cachedEvalVerdict.  Not so
\* for a record taken while files changed (the verdict is of later files than
\* the manifest), for one of a pipeline that failed (it is kept with no units,
\* which is also the manifest of a pipeline that gathers nothing), and for a
\* spec that looks at more than its manifest says.
ReuseIsSound ==
    [][Reuse => LET r == matches[Head(todo)]
                IN  \/ r.torn \/ r.failed \/ ~Bounded(r.spec)
                    \/ probe.of # files
                    \/ r.verdict = Run(loaded.specs[Head(todo)]).verdict]_evalVars

\* A fact whose code has gone is never said to hold, whatever its pipeline
\* makes of nothing, and whether the verdict is new or used again: Run, eval.go:165-168.
NoVacuousHolds ==
    [][records' # records /\ records' # <<>> /\ Last(records').verdict = "holds" /\ probe.of = files
         => LET s == loaded.specs[Head(todo)]
            IN  \A i \in 1..Len(s.code) : Globbed(s.code[i]) # <<>>]_evalVars
=============================================================================
