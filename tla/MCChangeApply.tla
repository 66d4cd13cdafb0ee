--------------------------- MODULE MCChangeApply ---------------------------
(***************************************************************************)
(* Instances of ChangeApply for TLC: one system with a container K1 that   *)
(* holds component A, which cites the refs R1 and R2, and the units that   *)
(* move, rename, create, retire and reshape them.                          *)
(***************************************************************************)
EXTENDS ChangeApply

CONSTANTS S, K1, K2, A, B, R1, R2           \* facts
CONSTANTS old, new, goal, own, Scope        \* titles, texts, a section
CONSTANTS rename, reparent, make, makeBox, dropBox, dropRef, dropA, reword,
          climb, clash, addText       \* units

Facts    == {S, K1, K2, A, B, R1, R2}
Types    == {"system", "container", "component", "ref"}
Kinds    == [f \in Facts |->
                CASE f = S         -> "system"
                  [] f \in {K1, K2} -> "container"
                  [] f \in {A, B}   -> "component"
                  [] OTHER          -> "ref"]
Kids     == [t \in Types |-> CASE t = "system"    -> "container"
                               [] t = "container" -> "component"
                               [] OTHER           -> NoType]
Titles   == {old, new}
Texts    == {goal, own}
Sections == {"Members", "Cited", Scope}

Text1(v)         == [kind |-> "text", val |-> v]
Cite(r)          == [kind |-> "cite", ref |-> r]
Member(c, t, n)  == [kind |-> "member", id |-> c, name |-> t, note |-> n]
BodyOf(blocks)   == [b \in Block |-> IF b \in blocks THEN 1 ELSE 0]

Shapes == [t \in Types |-> CASE t \in {"system", "container"} -> {Members}
                             [] t = "component"               -> {Cited}
                             [] OTHER                         -> {}]

Start ==
    LET body == [f \in Facts |->
            CASE f = S  -> BodyOf({Heading(Members), Member(K1, old, goal)})
              [] f = K1 -> BodyOf({Heading(Members), Member(A, old, goal)})
              [] f = A  -> BodyOf({Heading(Cited), Cite(R1), Cite(R2)})
              [] f \in {R1, R2} -> BodyOf({Text1(goal)})
              [] OTHER -> Empty]
    IN  [live   |-> {S, K1, A, R1, R2},
         parent |-> [f \in Facts |-> CASE f = A  -> K1
                                       [] f = K1 -> S
                                       [] OTHER  -> NoFact],
         title  |-> [f \in Facts |-> old],
         body   |-> body,
         edges  |-> [f \in Facts |-> IF f = A THEN {R1, R2} ELSE {}]]

Block1(f, b, c)   == [scope |-> "block", target |-> f, base |-> b, to |-> c]
Insert(f, b, c)   == [scope |-> "insert", target |-> f, base |-> b, to |-> c]
Append1(f, x)     == [scope |-> "append", target |-> f, to |-> Heading(x)]
Whole(f, p, body) == [scope |-> "whole", target |-> f, parent |-> p,
                      title |-> old, body |-> body]
Front(f, p, t)    == [scope |-> "frontmatter", target |-> f, parent |-> p, title |-> t]
Retire(f)         == [scope |-> "retire", target |-> f]
Canvas(t, shape)  == [scope |-> "canvas", type |-> t, shape |-> shape]

Box      == BodyOf({Heading(Members)})
NewPart  == BodyOf({Heading(Cited), Cite(R1)})

Plans(u) ==
    CASE u = rename   -> <<Front(A, NoFact, new)>>
      [] u = reparent -> <<Front(A, K2, NoTitle)>>
      [] u = make     -> <<Whole(B, K1, NewPart)>>
      [] u = makeBox  -> <<Whole(K2, S, Box)>>
      [] u = dropBox  -> <<Retire(K2)>>
      [] u = dropA    -> <<Retire(A)>>
      [] u = dropRef  -> <<Block1(A, Cite(R1), NoBlock), Retire(R1)>>
      [] u = clash    -> <<Block1(A, Cite(R1), Cite(R2)), Block1(A, Cite(R1), NoBlock),
                           Retire(R1)>>
      [] u = reword   -> <<Block1(K1, Member(A, old, goal), Member(A, new, own))>>
      [] u = climb    -> <<Canvas("container", {Members, Scope}), Append1(K1, Scope)>>
      [] u = addText       -> <<Insert(R2, Text1(goal), Text1(own))>>
PlanOf == [u \in Unit |-> Plans(u)]

EveryDay   == {rename, reparent, make, makeBox, dropBox, dropA, dropRef, reword, climb,
               clash, addText}
=============================================================================
