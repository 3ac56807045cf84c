--------------------------- MODULE MCPromptGraph ---------------------------
(***************************************************************************)
(* Payloads over three nodes for the model checker.  Graphs has every      *)
(* shape of interest of sound payloads: fan-out, joins reached twice,      *)
(* cycles, a conditional edge with and without default.  Faults has, for a *)
(* few of these shapes, everything the checks are there to find.           *)
(***************************************************************************)
EXTENDS PromptGraph

CONSTANTS a, b, c, ghost

AllFields == {"bok_id", "topic", "docs", "result"}

\* A conditional edge of node a, or none.
Branches ==
    {<<>>} \cup
    {[s \in {a} |-> [on |-> "topic", map |-> m, default |-> d]] :
        m \in {[v \in {"yes", "none"} |-> IF v = "yes" THEN b ELSE c],
               [v \in {"yes"} |-> a]},
        d \in {NoTarget, c, "END"}}

Sound(kinds, plain, branch) ==
    [shape |-> TRUE, kind |-> kinds, plain |-> plain, branch |-> branch,
     declares |-> AllFields, fields |-> {"bok_id", "topic"},
     collection |-> {"bok_id"}, query |-> "topic", output |-> "docs", source |-> "docs"]

KindsOf(x, y, z) == [n \in {a, b, c} |-> IF n = a THEN x ELSE IF n = b THEN y ELSE z]

Graphs ==
    {Sound(KindsOf("fields", y, z), {<<"START", a>>} \cup plain, branch) :
        y \in {"retrieve", "text"}, z \in {"echo", "retrieve"},
        plain \in SUBSET {<<"START", c>>, <<a, b>>, <<a, c>>, <<b, c>>, <<c, a>>},
        branch \in Branches}

Shapes ==
    {Sound(KindsOf("fields", "retrieve", "echo"), plain, branch) :
        plain \in {{<<"START", a>>, <<a, b>>, <<b, c>>},
                   {<<"START", a>>, <<"START", b>>, <<a, c>>, <<b, c>>},
                   {<<"START", b>>, <<b, a>>}, {<<"START", "END">>}},
        branch \in {<<>>, [s \in {a} |-> [on |-> "topic", map |-> [v \in {"yes"} |-> b],
                                          default |-> c]],
                    [s \in {"START"} |-> [on |-> "bok_id", map |-> [v \in {"own"} |-> a],
                                          default |-> NoTarget]]}}

Faults ==
    Shapes
    \cup {[p EXCEPT !.shape = FALSE] : p \in Shapes}
    \cup {[p EXCEPT !.kind[b] = "unknown"] : p \in Shapes}
    \cup {[p EXCEPT !.kind = KindsOf("fields", "text", "echo")] : p \in Shapes}
    \cup {[p EXCEPT !.kind = KindsOf("fields", "fields", "retrieve")] : p \in Shapes}
    \cup {[p EXCEPT !.plain = @ \cup {e}] : p \in Shapes,
            e \in {<<ghost, c>>, <<c, ghost>>, <<c, "START">>, <<"END", c>>}}
    \cup {[p EXCEPT !.plain = {e \in @ : e[1] # "START"}] : p \in Shapes}
    \cup {[p EXCEPT !.branch = [s \in {x} |-> [on |-> "topic", map |-> [v \in {"yes"} |-> t],
                                               default |-> d]]] :
            p \in Shapes, x \in {a, ghost}, t \in {c, ghost}, d \in {c, ghost, NoTarget}}
    \cup {[p EXCEPT !.declares = d] : p \in Shapes,
            d \in {{}} \cup {AllFields \ {k} : k \in AllFields}}
    \cup {[p EXCEPT !.collection = @ \cup {"topic"}] : p \in Shapes}
    \cup {[p EXCEPT !.query = "bok_id"] : p \in Shapes}

Payloads == Graphs \cup Faults
=============================================================================
