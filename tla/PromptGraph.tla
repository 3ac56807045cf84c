---------------------------- MODULE PromptGraph ----------------------------
(***************************************************************************)
(* A request that carries a prompt graph, on the generic engine:           *)
(* GenericPlugin._handle_with_graph refuses what it cannot run, parses the *)
(* payload (from_definition), compiles it and runs it.  A run goes in      *)
(* supersteps of LangGraph: the nodes of one run concurrently on the state *)
(* it began with, what they return is merged at its end, and the targets   *)
(* of their edges run next.                                                *)
(*                                                                         *)
(* State values are abstract: what a member or a model may write into a    *)
(* field, the body of knowledge, passages, and the text of an answer.      *)
(***************************************************************************)
EXTENDS Integers, FiniteSets

CONSTANTS Node,           \* names a payload may give to nodes
          Payload,        \* the definitions that may arrive
          Key,            \* fields of the state
          Reply,          \* values a model writes into a field
          NoValue,        \* None, or a field that is not declared
          NoTarget,       \* no default; a route that matches nothing
          RecursionLimit  \* _GRAPH_RECURSION_LIMIT

Kind == {"text", "fields", "retrieve", "echo"}  \* llm without, with an output
Ends == {"START", "END"}
Value == Reply \cup {NoValue, "own", "", "passages", "answer"}

ASSUME GraphAssumption ==
    /\ RecursionLimit \in Nat \ {0}
    /\ {"bok_id", "result"} \subseteq Key
    /\ Node \cap (Ends \cup {NoTarget}) = {}
    /\ \A p \in Payload : /\ IsFiniteSet(DOMAIN p.kind)
                          /\ p.declares \cup p.fields \subseteq Key

VARIABLES payload,    \* the definition in the event
          engine,     \* the event's body of knowledge, the engine's store
          stage,      \* received, running, answered or failed
          error,      \* why it failed
          values,     \* the declared fields
          task,       \* per node: its part in the superstep
          superstep,  \* supersteps begun, counted up to RecursionLimit
          spent,      \* whether a model has been called
          queried     \* the bodies of knowledge that were queried

vars == <<payload, engine, stage, error, values, task, superstep, spent, queried>>

Nodes == DOMAIN payload.kind
IdleTask == [state |-> "idle", returned |-> <<>>, targets |-> {}]
Errors == {"refused", "unbound", "call", "unmatched", "conflict", "outOfSteps"}

Init ==
    /\ payload \in Payload
    /\ engine \in [bok : {"own", ""}, store : {"none", "cannotEmbed", "ok"}]
    /\ stage = "received"
    /\ error = "none"
    /\ values = [k \in payload.declares |-> NoValue]
    /\ task = [n \in Node |-> IdleTask]
    /\ superstep = 0
    /\ spent = FALSE
    /\ queried = {}

-----------------------------------------------------------------------------
(* What is checked before anything runs.                                   *)

HasKind(k) == \E n \in Nodes : payload.kind[n] = k

\* Mutant: a store that cannot embed a query passes.
ServesUnprobed == HasKind("retrieve") => engine.bok # ""

\* The checks of the plugin itself.
Serves ==
    HasKind("retrieve") => engine.bok # "" /\ engine.store # "cannotEmbed"

BranchTargets(s) ==
    {payload.branch[s].map[v] : v \in DOMAIN payload.branch[s].map}
        \cup ({payload.branch[s].default} \ {NoTarget})

\* from_definition, the nodes.  "shape" stands for the checks of single
\* definitions: counts, types, ranges, duplicates and fields of a template.
NodesParse ==
    /\ payload.shape
    /\ \A n \in Nodes : payload.kind[n] \in Kind
    /\ HasKind("retrieve") => payload.collection \subseteq {"bok_id"}

\* from_definition, the edges: every end is a node, START or END.
EdgesParse ==
    /\ \A e \in payload.plain : {e[1], e[2]} \subseteq Nodes \cup Ends
    /\ \A s \in DOMAIN payload.branch :
         {s} \cup BranchTargets(s) \subseteq Nodes \cup Ends

\* A plain edge counts only where its source has no conditional edge.
PlainEdges == {e \in payload.plain : e[1] \notin DOMAIN payload.branch}

\* Mutant: the field of a retrieve node need not be declared.
CompilesUndeclared ==
    /\ payload.declares # {}
    /\ HasKind("retrieve") => engine.store # "none"
    /\ HasKind("echo") => "result" \in payload.declares

\* compile: the checks of PromptGraph.
Compiles ==
    /\ payload.declares # {}
    /\ HasKind("retrieve") => /\ engine.store # "none"
                              /\ payload.output \in payload.declares
    /\ HasKind("echo") => "result" \in payload.declares

\* compile: those of LangGraph, which knows START only as the source and
\* END only as the target of an edge, and wants an entry.
Builds ==
    LET sources == {e[1] : e \in PlainEdges} \cup DOMAIN payload.branch
        targets == {e[2] : e \in PlainEdges}
                       \cup UNION {BranchTargets(s) : s \in DOMAIN payload.branch}
    IN  /\ "START" \in sources
        /\ sources \subseteq Nodes \cup {"START"}
        /\ targets \subseteq Nodes \cup {"END"}

-----------------------------------------------------------------------------
(* One superstep.                                                          *)

Read(v, k) == IF k \in DOMAIN v THEN v[k] ELSE NoValue

\* What is returned for a field that is not declared is dropped.
Merge(v, returned) ==
    [k \in DOMAIN v |-> IF k \in DOMAIN returned THEN returned[k] ELSE v[k]]

\* The router: None matches no key of the map.
Route(b, v) ==
    LET value == Read(v, b.on)
    IN  IF value # NoValue /\ value \in DOMAIN b.map THEN b.map[value] ELSE b.default

Successors(s, v) ==
    IF s \in DOMAIN payload.branch THEN {Route(payload.branch[s], v)}
    ELSE {e[2] : e \in {e \in PlainEdges : e[1] = s}}

\* The end of a node: its router sees the state of the superstep's beginning
\* and what the node itself returned.
Ended(n, v, returned) ==
    LET targets == Successors(n, Merge(v, returned))
    IN  [state |-> IF NoTarget \in targets THEN "unmatched" ELSE "done",
         returned |-> returned,
         targets |-> targets]

EchoReturns(v) ==
    [k \in {"result"} |-> IF Read(v, payload.source) = NoValue THEN ""
                          ELSE Read(v, payload.source)]

\* A node runs up to its call, to a variable without a value, or to its end.
Begun(n, v) ==
    IF payload.kind[n] = "echo" THEN Ended(n, v, EchoReturns(v))
    ELSE IF /\ payload.kind[n] = "retrieve"
            /\ \E k \in payload.collection \cup {payload.query} : Read(v, k) = NoValue
         THEN [IdleTask EXCEPT !.state = "unbound"]
         ELSE [IdleTask EXCEPT !.state = "calling"]

\* Mutant: the rendered collection.
RenderedCollection(v) == Read(v, "bok_id")

\* The body of knowledge a retrieve node asks: that of the event, whatever
\* its collection template renders to.
Collection(v) == engine.bok

Begin(S, v) ==
    LET begun == [n \in Node |-> IF n \in S THEN Begun(n, v) ELSE IdleTask]
        calling(kinds) == {n \in S : begun[n].state = "calling" /\ payload.kind[n] \in kinds}
    IN  /\ task' = begun
        /\ spent' = (spent \/ calling({"text", "fields"}) # {})
        /\ queried' = queried \cup {Collection(v) : n \in calling({"retrieve"})}

Fail(e) ==
    /\ stage' = "failed"
    /\ error' = e

\* Mutant: no recursion limit.
NeverOver == superstep > RecursionLimit

\* Mutant: one superstep too early.
OverEarly == superstep + 1 >= RecursionLimit

OverLimit == superstep >= RecursionLimit

\* The next superstep, if there is one and the limit allows it.  A run that
\* is done in the very last superstep may be refused as well.
Advance(targets, v) ==
    LET S == targets \ {"END"}
    IN  /\ values' = v
        /\ UNCHANGED <<payload, engine>>
        /\ \/ /\ OverLimit
              /\ Fail("outOfSteps")
              /\ UNCHANGED <<task, superstep, spent, queried>>
           \/ /\ S = {}
              /\ stage' = "answered"
              /\ task' = [n \in Node |-> IdleTask]
              /\ UNCHANGED <<error, superstep, spent, queried>>
           \/ /\ S # {} /\ ~OverLimit
              /\ stage' = "running"
              /\ superstep' = IF superstep < RecursionLimit THEN superstep + 1
                              ELSE superstep
              /\ Begin(S, v)
              /\ UNCHANGED error

-----------------------------------------------------------------------------
(* The request.                                                            *)

\* Mutant: a field that is not declared is seeded.
SeedUndeclared ==
    [k \in payload.declares \cup {"bok_id"} |-> IF k = "bok_id" THEN engine.bok ELSE NoValue]

\* The initial state, as far as it is declared; bok_id stands for all its fields.
Seed == [k \in payload.declares |-> IF k = "bok_id" THEN engine.bok ELSE NoValue]

Refuse ==
    /\ stage = "received"
    /\ ~(Serves /\ NodesParse /\ EdgesParse /\ Compiles /\ Builds)
    /\ Fail("refused")
    /\ UNCHANGED <<payload, engine, values, task, superstep, spent, queried>>

\* From the checks to the first superstep there is no await but LangGraph's.
Start ==
    /\ stage = "received"
    /\ Serves /\ NodesParse /\ EdgesParse /\ Compiles /\ Builds
    /\ IF NoTarget \in Successors("START", Seed)
       THEN /\ Fail("unmatched")
            /\ values' = Seed
            /\ UNCHANGED <<payload, engine, task, superstep, spent, queried>>
       ELSE Advance(Successors("START", Seed), Seed)

\* A structured reply has a value for each field of the output, parsed, or
\* recovered from the text and filled in with defaults.
FieldsReturned == [payload.fields -> Reply \cup {NoValue}]

\* The model replies with text, or with the fields of its output.
Replies(n) ==
    /\ stage = "running" /\ task[n].state = "calling"
    /\ \/ /\ payload.kind[n] = "text"
          /\ task' = [task EXCEPT ![n] = Ended(n, values, [k \in {"result"} |-> "answer"])]
       \/ /\ payload.kind[n] = "fields"
          /\ \E r \in FieldsReturned :
               task' = [task EXCEPT ![n] = Ended(n, values, r)]
    /\ UNCHANGED <<payload, engine, stage, error, values, superstep, spent, queried>>

\* The store answers: passages within the node's budget, or none.
Retrieves(n) ==
    /\ stage = "running" /\ task[n].state = "calling"
    /\ payload.kind[n] = "retrieve" /\ engine.store = "ok"
    /\ \E docs \in {"passages", ""} :
         task' = [task EXCEPT ![n] = Ended(n, values, [k \in {payload.output} |-> docs])]
    /\ UNCHANGED <<payload, engine, stage, error, values, superstep, spent, queried>>

\* A call fails, or a reply cannot be parsed: the other nodes are cancelled.
CallFails(n) ==
    /\ stage = "running" /\ task[n].state = "calling"
    /\ Fail("call")
    /\ UNCHANGED <<payload, engine, values, task, superstep, spent, queried>>

\* A node raised by itself: no value for a variable, or no route.
NodeRaises(n) ==
    /\ stage = "running" /\ task[n].state \in {"unbound", "unmatched"}
    /\ Fail(task[n].state)
    /\ UNCHANGED <<payload, engine, values, task, superstep, spent, queried>>

Ran == {n \in Node : task[n].state = "done"}

Writers(k) == {n \in Ran : k \in DOMAIN task[n].returned}

Conflict == \E k \in payload.declares : Cardinality(Writers(k)) > 1

SuperstepDone == stage = "running" /\ \A n \in Node : task[n].state \in {"idle", "done"}

\* Two writers of one field fail the run; else all the writes are merged.
EndSuperstep ==
    /\ SuperstepDone
    /\ IF Conflict
       THEN /\ Fail("conflict")
            /\ UNCHANGED <<payload, engine, values, task, superstep, spent, queried>>
       ELSE Advance(UNION {task[n].targets : n \in Ran},
                    [k \in payload.declares |->
                        IF Writers(k) = {} THEN values[k]
                        ELSE task[CHOOSE n \in Writers(k) : TRUE].returned[k]])

Terminated == stage \in {"answered", "failed"}

Next ==
    \/ Refuse \/ Start \/ EndSuperstep
    \/ \E n \in Node : Replies(n) \/ Retrieves(n) \/ CallFails(n) \/ NodeRaises(n)
    \/ Terminated /\ UNCHANGED vars

Spec == Init /\ [][Next]_vars

\* The event loop runs what is ready; a call ends, if only because the pipeline
\* timeout around handle cancels the request, which CallFails stands for.
FairSpec == Spec /\ WF_vars(Next)

-----------------------------------------------------------------------------
(* Properties.                                                             *)

TypeOK ==
    /\ payload \in Payload
    /\ engine \in [bok : {"own", ""}, store : {"none", "cannotEmbed", "ok"}]
    /\ stage \in {"received", "running", "answered", "failed"}
    /\ error \in Errors \cup {"none"}
    /\ values \in [payload.declares -> Value]
    /\ \A n \in Node :
         /\ task[n].state \in {"idle", "calling", "done", "unbound", "unmatched"}
         /\ task[n].targets \subseteq Nodes \cup {"END", NoTarget}
         /\ DOMAIN task[n].returned \subseteq Key
    /\ superstep \in 0 .. RecursionLimit
    /\ spent \in BOOLEAN
    /\ queried \subseteq Value

\* Retrieval is scoped to the body of knowledge of the event, whatever the
\* nodes have written into bok_id before: the code computes the collection
\* once and ignores the rendered template (_handle_with_graph, _retrieve).
OwnCollection == queried \subseteq {"own"}

\* A payload that retrieves where nothing can be retrieved is refused before
\* any model is called and paid for (_handle_with_graph, compile).
FreeRefusal ==
    HasKind("retrieve") /\ (engine.bok = "" \/ engine.store # "ok")
        => ~spent /\ queried = {}

\* What a retrieve or an echo node returns is in the state when its superstep
\* has been merged: compile refuses a state that would drop it, and a second
\* writer of the field fails the run.
NothingDropped ==
    [][SuperstepDone /\ error' # "conflict"
         => \A n \in Ran : payload.kind[n] \in {"retrieve", "echo"}
              => \A k \in DOMAIN task[n].returned : Read(values', k) = task[n].returned[k]]_vars

Follows(n) ==
    IF n \in DOMAIN payload.branch THEN BranchTargets(n) ELSE {e[2] : e \in {e \in PlainEdges : e[1] = n}}

\* Some nodes lead to one another for ever.
Cyclic == \E S \in (SUBSET Nodes) \ {{}} : \A n \in S : Follows(n) \cap S # {}

\* The recursion limit cuts off cyclic graphs only, as the comment of
\* _GRAPH_RECURSION_LIMIT has it, where a graph has fewer nodes than the limit.
CeilingIsForCycles ==
    error = "outOfSteps" /\ Cardinality(Nodes) < RecursionLimit => Cyclic

\* Every run ends, a cyclic one by the limit.
RequestEnds == <>(stage \in {"answered", "failed"})
=============================================================================
