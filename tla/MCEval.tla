------------------------------- MODULE MCEval -------------------------------
(* Two files, two facts, and a spec of each shape the code tells apart.      *)
EXTENDS EvalEngine

A == "a.go"
B == "b.go"
ThePaths == <<A, B>>
TheFacts == <<"api", "db">>
TheContent == {"todo", "done"}
TheMayHold == (A :> {"todo", "done", Absent}) @@ (B :> {"todo", Absent})
TheLines == ("todo" :> <<"TODO", B>>) @@ ("done" :> <<B>>)

Gth(g) == [op |-> "gather", gather |-> g]
Keep(k) == [op |-> "filter", keep |-> k]
Lines == [op |-> "lines"]
Files(ps) == [from |-> "files", glob |-> ps]
File(p) == [from |-> "file", path |-> p]
Grep(ps, in, named) == [from |-> "command", reads |-> ps, looksFor |-> {"TODO"},
                        inputs |-> in, names |-> named]
CodeOf(f) == [from |-> "code", fact |-> f]
Literal(vs) == [from |-> "literal", values |-> vs]
Each(gs) == [from |-> "each", gathers |-> gs]

Count(n) == [is |-> "count", n |-> n]
Exists == [is |-> "exists"]
Steps(ss, t) == [over |-> Nil, steps |-> ss, test |-> t]
Loop(o, ss, t) == [over |-> o, steps |-> ss, test |-> t]
Pipe(code, p) == [code |-> code, pipeline |-> p]

CodeOnly == Pipe(<<{A}, {A, B}>>, Nil)
NoTodo   == Pipe(<<{B}>>, Steps(<<Gth(Grep({A}, <<{A}>>, {A}))>>, Count(0)))
Unnamed  == Pipe(<<>>, Steps(<<Gth(Grep({A, B}, <<{A}>>, {B}))>>, Count(0)))
Folder   == Pipe(<<>>, Steps(<<Gth(Grep({A, B}, <<{A}>>, {}))>>, Count(0)))
Filtered == Pipe(<<>>, Steps(<<Gth(File(A)), Lines, Keep({"TODO"})>>, Count(0)))
Listed   == Pipe(<<>>, Steps(<<Gth(Literal(<<A, B>>))>>, Exists))
Every    == Pipe(<<>>, Loop([from |-> "facts", glob |-> {"api", "db"}],
                            <<Gth(CodeOf(Item))>>, Exists))
Loops    == Pipe(<<{A}>>, Loop(Files({A, B}), <<Gth(File(Item)), Lines>>, Count(2)))
Same     == Pipe(<<>>, Steps(<<Gth(Each(<<File(A), File(B)>>))>>, [is |-> "all_equal"]))
Says     == Pipe(<<>>, Steps(<<Gth(File(A))>>, [is |-> "equals", value |-> "done"]))
Asked    == Pipe(<<{A}>>, Loop(Files({A, B}), <<Gth(File(Item))>>, [is |-> "judgement"]))
Live     == Pipe(<<>>, Steps(<<Gth(Grep({A}, <<>>, {}))>>, Count(0)))

TheSpecs == [f \in {"api", "db"} |->
    IF f = "api" THEN {CodeOnly, NoTodo, Unnamed, Folder, Filtered, Listed, Loops, Same, Says, Asked, Live}
    ELSE {Nil, Pipe(<<{B}>>, Nil), Every}]
ListedSpecs == [f \in {"api", "db"} |-> IF f = "api" THEN {Listed} ELSE {Nil}]
\* Every file is there, and has something to do.
FullTree == EvalInit /\ files = [p \in Path |-> "todo"]
FromAFullTree == FullTree /\ [][EvalNext]_evalVars
OneRoot == {"r1"}
=============================================================================
