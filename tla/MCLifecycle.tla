---------------------------- MODULE MCLifecycle ----------------------------
(***************************************************************************)
(* Instances of Lifecycle for TLC: two adrs and a prd; a container with    *)
(* one component, which the unit of an adr may retire.                     *)
(***************************************************************************)
EXTENDS Lifecycle

CONSTANTS adr1, adr2, prd1      \* decisions, in the order of their ids
CONSTANTS c31, c3101            \* facts: a container and its component
CONSTANTS text1, text2

TwoAdrs  == {adr1, adr2}
OnePrd   == {prd1}
TwoFacts == {c31, c3101}
ListedBy == [f \in Fact |-> IF f = c3101 THEN c31 ELSE NoFact]
IdOrder  == <<adr1, adr2, c31, c3101, prd1>>
TwoTexts == {text1, text2}
Retiring == [d \in ChangeDoc |-> IF d = adr1 THEN {c3101} ELSE {}]

Blank(s) == [status |-> s, supersedes |-> {}, rows |-> {}]
Listing(s1, s2, s3, t) ==
    [decision |-> [d \in ChangeDoc |-> CASE d = adr1 -> Blank(s1)
                                         [] d = adr2 -> Blank(s2)
                                         [] d = prd1 -> Blank(s3)],
     text |-> t]
Written  == [f \in Fact |-> text1]
Seeded   == [f \in Fact |-> IF f = c31 THEN Unwritten ELSE NoFact]

Linked(t, l) == [t EXCEPT !.decision = [d \in ChangeDoc |->
                    [@[d] EXCEPT !.supersedes = {e \in ChangeDoc : <<d, e>> \in l}]]]

\* A project with finished decisions, one of before the canonical statuses, and
\* one that has just been made by init.
History  == Linked(Listing("superseded", "superseded", "done", Written),
                   {<<prd1, adr2>>, <<adr2, adr1>>})
OldStyle == Listing("implemented", "provisioned", "accepted", Written)
Working  == Listing("accepted", "proposed", "open", Written)
NewStart == [decision |-> [d \in ChangeDoc |-> IF d = adr1 THEN Blank("proposed") ELSE NoDoc],
             text |-> Seeded]
AllOrigins == {History, OldStyle, Working, NewStart}
=============================================================================
