------------------------- MODULE PromptGraphProofs -------------------------
(***************************************************************************)
(* For any payloads, fields, replies and limit: a run only ever reaches    *)
(* nodes of its payload, so that what was checked of the payload before    *)
(* the run holds of every node that runs.  The nodes of superstep k end    *)
(* ways of k nodes, so that a run that reaches the limit has been at some  *)
(* node twice.                                                             *)
(***************************************************************************)
EXTENDS PromptGraph, FiniteSetTheorems, TLAPS

Accepted == Serves /\ NodesParse /\ EdgesParse /\ Compiles /\ Builds

\* Nothing is called before the payload is accepted.
CallsWhenAccepted ==
    /\ stage = "received" => ~spent /\ queried = {}
    /\ stage = "running" \/ spent \/ queried # {} => Accepted

\* Only a payload that retrieves queries anything, and only for its event.
QueriesOfEvent ==
    /\ queried # {} => HasKind("retrieve")
    /\ queried \subseteq {engine.bok}

\* A node that has ended leads to nodes of the payload or to the end.
LeadsToNodes ==
    \A n \in Node : task[n].state = "done" => task[n].targets \subseteq Nodes \cup {"END"}

Inv == /\ engine \in [bok : {"own", ""}, store : {"none", "cannotEmbed", "ok"}]
       /\ spent \in BOOLEAN
       /\ task = [n \in Node |-> task[n]]
       /\ CallsWhenAccepted
       /\ QueriesOfEvent
       /\ LeadsToNodes

-----------------------------------------------------------------------------
\* What was accepted stays accepted: the payload and the engine do not change.
LEMMA AcceptedStable ==
    ASSUME payload' = payload, engine' = engine
    PROVE  Accepted' <=> Accepted
<1>1. \A k : HasKind(k)' <=> HasKind(k)
  BY DEF HasKind, Nodes
<1>2. \A s : BranchTargets(s)' = BranchTargets(s)
  BY DEF BranchTargets
<1>3. PlainEdges' = PlainEdges
  BY DEF PlainEdges
<1>4. Serves' <=> Serves
  BY <1>1 DEF Serves
<1>5. (NodesParse' <=> NodesParse) /\ (EdgesParse' <=> EdgesParse)
  BY <1>1, <1>2 DEF NodesParse, EdgesParse, Nodes
<1>6. Compiles' <=> Compiles
  BY <1>1 DEF Compiles
<1>7. Builds' <=> Builds
  BY <1>2, <1>3 DEF Builds, Nodes
<1> QED BY <1>4, <1>5, <1>6, <1>7 DEF Accepted

\* What follows a node or START, by plain or conditional edges, is a node of
\* the payload, the end, or no route.
LEMMA SuccessorsKnown ==
    ASSUME Builds, NEW STATE s, NEW STATE v, NoTarget \notin Successors(s, v)
    PROVE  Successors(s, v) \subseteq Nodes \cup {"END"}
<1>1. CASE s \in DOMAIN payload.branch
  <2>1. Successors(s, v) = {Route(payload.branch[s], v)}
    BY <1>1 DEF Successors
  <2>2. Route(payload.branch[s], v) # NoTarget
    BY <2>1
  <2>3. Route(payload.branch[s], v) \in BranchTargets(s)
    BY <2>2 DEF Route, BranchTargets
  <2>4. BranchTargets(s) \subseteq Nodes \cup {"END"}
    BY <1>1 DEF Builds
  <2> QED BY <2>1, <2>3, <2>4
<1>2. CASE s \notin DOMAIN payload.branch
  BY <1>2 DEF Successors, Builds
<1> QED BY <1>1, <1>2

\* A node that ends without an error leads to nodes of the payload.
LEMMA EndedLeadsToNodes ==
    ASSUME Builds, NEW STATE n, NEW STATE v, NEW STATE r, Ended(n, v, r).state = "done"
    PROVE  Ended(n, v, r).targets \subseteq Nodes \cup {"END"}
<1> DEFINE targets == Successors(n, Merge(v, r))
<1>1. Ended(n, v, r) = [state |-> IF NoTarget \in targets THEN "unmatched" ELSE "done",
                        returned |-> r, targets |-> targets]
  BY DEF Ended
<1>2. NoTarget \notin targets
  BY <1>1
<1>3. targets \subseteq Nodes \cup {"END"}
  BY <1>2, SuccessorsKnown
<1> QED BY <1>1, <1>3

\* A superstep over nodes of an accepted payload keeps the invariant.
LEMMA BeginKeeps ==
    ASSUME Inv, Accepted, NEW STATE S, S \subseteq Nodes, NEW STATE v, Begin(S, v),
           payload' = payload, engine' = engine
    PROVE  /\ spent' \in BOOLEAN
           /\ task' = [n \in Node |-> task'[n]]
           /\ QueriesOfEvent'
           /\ LeadsToNodes'
<1> DEFINE begun == [n \in Node |-> IF n \in S THEN Begun(n, v) ELSE IdleTask]
           asking == {n \in S : begun[n].state = "calling" /\ payload.kind[n] \in {"retrieve"}}
<1>1. /\ task' = begun
      /\ spent' \in BOOLEAN
      /\ queried' = queried \cup {Collection(v) : n \in asking}
  BY DEF Begin
<1>2. QueriesOfEvent'
  <2>1. queried' \subseteq {engine.bok}
    BY <1>1 DEF Inv, QueriesOfEvent, Collection
  <2>2. queried' # {} => HasKind("retrieve")
    BY <1>1 DEF Inv, QueriesOfEvent, HasKind, Nodes
  <2> QED BY <2>1, <2>2 DEF QueriesOfEvent, HasKind, Nodes
<1>3. ASSUME NEW n \in Node, begun[n].state = "done"
      PROVE  begun[n].targets \subseteq Nodes \cup {"END"}
  <2>1. n \in S /\ begun[n] = Begun(n, v)
    BY <1>3 DEF IdleTask
  <2>2. payload.kind[n] = "echo"
    BY <1>3, <2>1 DEF Begun, IdleTask
  <2>3. begun[n] = Ended(n, v, EchoReturns(v))
    BY <2>1, <2>2 DEF Begun
  <2> QED BY <1>3, <2>3, EndedLeadsToNodes DEF Accepted
<1>4. LeadsToNodes'
  BY <1>1, <1>3 DEF LeadsToNodes, Nodes
<1> QED BY <1>1, <1>2, <1>4

\* So does going on to known targets, whether by a superstep, an answer or
\* the limit.
LEMMA AdvanceKeeps ==
    ASSUME Inv, Accepted, NEW STATE targets, targets \subseteq Nodes \cup {"END"},
           NEW STATE v, Advance(targets, v)
    PROVE  Inv'
<1> DEFINE S == targets \ {"END"}
<1>0. payload' = payload /\ engine' = engine
  BY DEF Advance
<1>1. Accepted'
  BY <1>0, AcceptedStable
<1>2. CASE OverLimit /\ Fail("outOfSteps") /\ UNCHANGED <<task, superstep, spent, queried>>
  BY <1>0, <1>1, <1>2
  DEF Fail, Inv, CallsWhenAccepted, QueriesOfEvent, LeadsToNodes, HasKind, Nodes
<1>3. CASE S = {} /\ stage' = "answered" /\ task' = [n \in Node |-> IdleTask]
           /\ UNCHANGED <<error, superstep, spent, queried>>
  BY <1>0, <1>1, <1>3
  DEF Inv, CallsWhenAccepted, QueriesOfEvent, LeadsToNodes, HasKind, Nodes, IdleTask
<1>4. CASE stage' = "running" /\ Begin(S, v)
  <2>1. S \subseteq Nodes
    OBVIOUS
  <2>2. /\ spent' \in BOOLEAN
        /\ task' = [n \in Node |-> task'[n]]
        /\ QueriesOfEvent'
        /\ LeadsToNodes'
    BY <1>0, <1>4, <2>1, BeginKeeps
  <2>3. CallsWhenAccepted'
    BY <1>1, <1>4 DEF CallsWhenAccepted
  <2> QED BY <1>0, <2>2, <2>3 DEF Inv
<1> QED BY <1>2, <1>3, <1>4 DEF Advance

\* The end of one node keeps the invariant.
LEMMA EndKeeps ==
    ASSUME Inv, stage = "running", NEW n \in Node, NEW STATE r,
           task' = [task EXCEPT ![n] = Ended(n, values, r)],
           UNCHANGED <<payload, engine, stage, spent, queried>>
    PROVE  Inv'
<1>1. Builds
  BY DEF Inv, CallsWhenAccepted, Accepted
<1>2. Ended(n, values, r).state = "done"
         => Ended(n, values, r).targets \subseteq Nodes \cup {"END"}
  BY <1>1, EndedLeadsToNodes
<1>3. /\ task' = [m \in Node |-> task'[m]]
      /\ LeadsToNodes'
  BY <1>2 DEF Inv, LeadsToNodes, Nodes
<1>4. Accepted' <=> Accepted
  BY AcceptedStable
<1> QED BY <1>3, <1>4 DEF Inv, CallsWhenAccepted, QueriesOfEvent, HasKind, Nodes

\* A failure keeps it.
LEMMA FailKeeps ==
    ASSUME Inv, NEW e, Fail(e), UNCHANGED <<payload, engine, task, spent, queried>>
    PROVE  Inv'
<1>1. Accepted' <=> Accepted
  BY AcceptedStable
<1> QED BY <1>1 DEF Fail, Inv, CallsWhenAccepted, QueriesOfEvent, LeadsToNodes, HasKind, Nodes

LEMMA InitInv == Init => Inv
<1> SUFFICES ASSUME Init PROVE Inv
  OBVIOUS
<1>1. spent = FALSE /\ queried = {} /\ stage = "received"
  BY DEF Init
<1>2. CallsWhenAccepted /\ QueriesOfEvent
  BY <1>1 DEF CallsWhenAccepted, QueriesOfEvent
<1>3. task = [n \in Node |-> IdleTask]
  BY DEF Init
<1>4. task = [n \in Node |-> task[n]] /\ LeadsToNodes
  BY <1>3 DEF LeadsToNodes, IdleTask
<1>5. engine \in [bok : {"own", ""}, store : {"none", "cannotEmbed", "ok"}]
  BY DEF Init
<1> QED BY <1>1, <1>2, <1>4, <1>5 DEF Inv

LEMMA StepInv == Inv /\ [Next]_vars => Inv'
<1> SUFFICES ASSUME Inv, [Next]_vars PROVE Inv'
  OBVIOUS
<1>1. CASE Refuse
  BY <1>1, FailKeeps DEF Refuse
<1>2. CASE Start
  <2>1. Accepted
    BY <1>2 DEF Start, Accepted
  <2>2. CASE NoTarget \in Successors("START", Seed)
    BY <1>2, <2>2, FailKeeps DEF Start
  <2>3. CASE NoTarget \notin Successors("START", Seed)
    <3>1. Successors("START", Seed) \subseteq Nodes \cup {"END"}
      BY <2>1, <2>3, SuccessorsKnown DEF Accepted
    <3>2. Advance(Successors("START", Seed), Seed)
      BY <1>2, <2>3 DEF Start
    <3> QED BY <2>1, <3>1, <3>2, AdvanceKeeps
  <2> QED BY <2>2, <2>3
<1>3. CASE EndSuperstep
  <2>1. Accepted
    BY <1>3 DEF EndSuperstep, SuperstepDone, Inv, CallsWhenAccepted
  <2>2. CASE Conflict
    BY <1>3, <2>2, FailKeeps DEF EndSuperstep
  <2>3. CASE ~Conflict
    <3> DEFINE targets == UNION {task[n].targets : n \in Ran}
               v == [k \in payload.declares |->
                        IF Writers(k) = {} THEN values[k]
                        ELSE task[CHOOSE n \in Writers(k) : TRUE].returned[k]]
    <3>1. targets \subseteq Nodes \cup {"END"}
      <4>1. \A n \in Ran : task[n].targets \subseteq Nodes \cup {"END"}
        BY DEF Ran, Inv, LeadsToNodes
      <4> QED BY <4>1
    <3>2. Advance(targets, v)
      BY <1>3, <2>3 DEF EndSuperstep
    <3> HIDE DEF targets, v
    <3> QED BY <2>1, <3>1, <3>2, AdvanceKeeps
  <2> QED BY <2>2, <2>3
<1>4. ASSUME NEW n \in Node, Replies(n) PROVE Inv'
  <2>1. PICK r : task' = [task EXCEPT ![n] = Ended(n, values, r)]
    BY <1>4 DEF Replies
  <2> QED BY <1>4, <2>1, EndKeeps DEF Replies
<1>5. ASSUME NEW n \in Node, Retrieves(n) PROVE Inv'
  <2>1. PICK r : task' = [task EXCEPT ![n] = Ended(n, values, r)]
    BY <1>5 DEF Retrieves
  <2> QED BY <1>5, <2>1, EndKeeps DEF Retrieves
<1>6. ASSUME NEW n \in Node, CallFails(n) \/ NodeRaises(n) PROVE Inv'
  BY <1>6, FailKeeps DEF CallFails, NodeRaises
<1>7. CASE UNCHANGED vars
  <2>1. UNCHANGED <<payload, engine, stage, task, spent, queried>>
    BY <1>7 DEF vars
  <2>2. Accepted' <=> Accepted
    BY <2>1, AcceptedStable
  <2> QED BY <2>1, <2>2 DEF Inv, CallsWhenAccepted, QueriesOfEvent, LeadsToNodes, HasKind, Nodes
<1> QED BY <1>1, <1>2, <1>3, <1>4, <1>5, <1>6, <1>7 DEF Next

LEMMA Invariant == Spec => []Inv
  BY InitInv, StepInv, PTL DEF Spec

-----------------------------------------------------------------------------
\* Whatever a payload's nodes write into the state, the store is only ever
\* asked for the body of knowledge of the event, and never for an empty one
\* (_handle_with_graph of the generic plugin).
THEOREM AlwaysOwnCollection == Spec => []OwnCollection
<1>1. Inv => OwnCollection
  BY DEF Inv, CallsWhenAccepted, QueriesOfEvent, OwnCollection, Accepted, Serves
<1> QED BY <1>1, Invariant, PTL

\* A payload that cannot retrieve what it asks for costs no model call and no
\* query, however its graph is laid out (_handle_with_graph, compile).
THEOREM RefusedForFree == Spec => []FreeRefusal
<1>1. Inv => FreeRefusal
  BY DEF Inv, CallsWhenAccepted, FreeRefusal, Accepted, Serves, Compiles
<1> QED BY <1>1, Invariant, PTL
-----------------------------------------------------------------------------
(* Supersteps: types, what is merged, and how far a run gets.              *)

\* There is a way of k nodes along edges, up to node n.
Walk(k, n) ==
    \E w \in [1 .. k -> Nodes] :
        /\ w[k] = n
        /\ \A i \in 1 .. k - 1 : w[i + 1] \in Follows(w[i])

\* The part t that node n has in a superstep: it goes on along its edges, and a
\* retrieve or an echo node returns the field that compile asked for.
TaskInv(n, t) ==
    /\ t.state \in {"idle", "calling", "done", "unbound", "unmatched"}
    /\ t.targets \subseteq Nodes \cup {"END", NoTarget}
    /\ DOMAIN t.returned \subseteq Key
    /\ \A k \in DOMAIN t.returned : t.returned[k] \in Value
    /\ t.state # "idle" => n \in Nodes
    /\ t.state = "done" => t.targets \subseteq Follows(n)
    /\ t.state = "done" /\ payload.kind[n] = "retrieve" => DOMAIN t.returned = {payload.output}
    /\ t.state = "done" /\ payload.kind[n] = "echo" => DOMAIN t.returned = {"result"}

\* The nodes of the k-th superstep end ways of k nodes.
StepsInv ==
    /\ payload \in Payload
    /\ stage \in {"received", "running", "answered", "failed"}
    /\ error \in Errors \cup {"none"}
    /\ values \in [payload.declares -> Value]
    /\ superstep \in 0 .. RecursionLimit
    /\ queried \subseteq Value
    /\ \A n \in Node : TaskInv(n, task[n])
    /\ superstep > 0 => \E n \in Nodes : Walk(superstep, n)
    /\ stage = "received" => superstep = 0
    /\ stage = "running" =>
         superstep > 0 /\ \A n \in Node : task[n].state # "idle" => Walk(superstep, n)
    /\ stage # "failed" => error = "none"
    /\ error = "outOfSteps" => superstep = RecursionLimit

\* A route leads along an edge, or nowhere.
LEMMA SuccessorsFollow ==
    ASSUME NEW STATE s, NEW STATE v PROVE Successors(s, v) \subseteq Follows(s) \cup {NoTarget}
<1>1. CASE s \in DOMAIN payload.branch
  <2>1. Successors(s, v) = {Route(payload.branch[s], v)} /\ Follows(s) = BranchTargets(s)
    BY <1>1 DEF Successors, Follows
  <2>2. Route(payload.branch[s], v) \in BranchTargets(s) \cup {NoTarget}
    BY DEF Route, BranchTargets
  <2> QED BY <2>1, <2>2
<1>2. CASE s \notin DOMAIN payload.branch
  BY <1>2 DEF Successors, Follows
<1> QED BY <1>1, <1>2

LEMMA FollowsKnown ==
    ASSUME Builds, NEW STATE s PROVE Follows(s) \subseteq Nodes \cup {"END"}
<1>1. CASE s \in DOMAIN payload.branch
  <2>1. BranchTargets(s) \subseteq Nodes \cup {"END"}
    BY <1>1 DEF Builds
  <2> QED BY <1>1, <2>1 DEF Follows
<1>2. CASE s \notin DOMAIN payload.branch
  BY <1>2 DEF Follows, Builds
<1> QED BY <1>1, <1>2

LEMMA ReadType ==
    ASSUME NEW STATE v, NEW D, v \in [D -> Value], NEW k PROVE Read(v, k) \in Value
BY DEF Read, Value

\* The graph does not change during a run.
LEMMA GraphStable ==
    ASSUME payload' = payload
    PROVE  Nodes' = Nodes /\ \A n : Follows(n)' = Follows(n)
<1>1. Nodes' = Nodes /\ PlainEdges' = PlainEdges /\ \A s : BranchTargets(s)' = BranchTargets(s)
  BY DEF Nodes, PlainEdges, BranchTargets
<1> QED BY <1>1 DEF Follows

LEMMA WalkStable ==
    ASSUME payload' = payload, NEW n PROVE Walk(superstep', n) <=> Walk(superstep, n)'
<1>1. Nodes' = Nodes /\ \A m : Follows(m)' = Follows(m)
  BY GraphStable
<1> QED BY <1>1 DEF Walk

LEMMA TaskStable ==
    ASSUME payload' = payload, NEW n PROVE TaskInv(n, task'[n]) <=> TaskInv(n, task[n])'
<1>1. Nodes' = Nodes /\ \A m : Follows(m)' = Follows(m)
  BY GraphStable
<1> QED BY <1>1 DEF TaskInv

LEMMA IdleTaskInv == ASSUME NEW n PROVE TaskInv(n, IdleTask)
<1>1. DOMAIN IdleTask.returned = {} /\ IdleTask.targets = {} /\ IdleTask.state = "idle"
  BY DEF IdleTask
<1> QED BY <1>1 DEF TaskInv

LEMMA EndedInv ==
    ASSUME Builds, NEW STATE n, n \in Nodes, NEW STATE v, NEW STATE r,
           DOMAIN r \subseteq Key, \A k \in DOMAIN r : r[k] \in Value,
           payload.kind[n] = "retrieve" => DOMAIN r = {payload.output},
           payload.kind[n] = "echo" => DOMAIN r = {"result"}
    PROVE  TaskInv(n, Ended(n, v, r)) /\ Ended(n, v, r).state # "idle"
<1> DEFINE targets == Successors(n, Merge(v, r))
           t == Ended(n, v, r)
<1>1. /\ t.state = (IF NoTarget \in targets THEN "unmatched" ELSE "done")
      /\ t.returned = r /\ t.targets = targets
  BY DEF Ended
<1>2. targets \subseteq Follows(n) \cup {NoTarget}
  BY SuccessorsFollow
<1>3. Follows(n) \subseteq Nodes \cup {"END"}
  BY FollowsKnown
<1> HIDE DEF t, targets
<1>4. t.state = "done" => targets \subseteq Follows(n)
  BY <1>1, <1>2
<1> QED BY <1>1, <1>2, <1>3, <1>4 DEF TaskInv, t

\* A node that begins.
LEMMA BegunInv ==
    ASSUME Accepted, payload \in Payload, NEW STATE n, n \in Nodes, NEW STATE v,
           v \in [payload.declares -> Value]
    PROVE  TaskInv(n, Begun(n, v)) /\ Begun(n, v).state # "idle"
<1>1. CASE payload.kind[n] = "echo"
  <2>1. /\ DOMAIN EchoReturns(v) = {"result"}
        /\ \A k \in DOMAIN EchoReturns(v) : EchoReturns(v)[k] \in Value
    <3>1. Read(v, payload.source) \in Value /\ "" \in Value
      BY ReadType DEF Value
    <3> QED BY <3>1 DEF EchoReturns
  <2>2. Begun(n, v) = Ended(n, v, EchoReturns(v))
    BY <1>1 DEF Begun
  <2>3. DOMAIN EchoReturns(v) \subseteq Key
    BY <2>1, GraphAssumption
  <2> QED BY <1>1, <2>1, <2>2, <2>3, EndedInv DEF Accepted
<1>2. CASE payload.kind[n] # "echo"
  <2>1. PICK s \in {"unbound", "calling"} : Begun(n, v) = [IdleTask EXCEPT !.state = s]
    BY <1>2 DEF Begun
  <2>2. /\ DOMAIN Begun(n, v).returned = {} /\ Begun(n, v).targets = {}
        /\ Begun(n, v).state = s
    BY <2>1 DEF IdleTask
  <2> HIDE DEF Begun
  <2> QED BY <2>2 DEF TaskInv
<1> QED BY <1>1, <1>2

\* A way goes on along an edge.
LEMMA WalkOn ==
    ASSUME NEW STATE k, k \in Nat \ {0}, NEW STATE m, Walk(k, m), NEW STATE n, n \in Nodes,
           n \in Follows(m)
    PROVE  Walk(k + 1, n)
<1>1. PICK w \in [1 .. k -> Nodes] : w[k] = m /\ \A i \in 1 .. k - 1 : w[i + 1] \in Follows(w[i])
  BY DEF Walk
<1> DEFINE x == [i \in 1 .. k + 1 |-> IF i = k + 1 THEN n ELSE w[i]]
<1>2. x \in [1 .. k + 1 -> Nodes] /\ x[k + 1] = n /\ \A i \in 1 .. k : x[i] = w[i]
  OBVIOUS
<1> HIDE DEF x
<1>3. ASSUME NEW i \in 1 .. k PROVE x[i + 1] \in Follows(x[i])
  <2>1. CASE i = k
    BY <1>1, <1>2, <2>1
  <2>2. CASE i # k
    <3>1. i \in 1 .. k - 1 /\ i + 1 \in 1 .. k
      BY <2>2
    <3> QED BY <1>1, <1>2, <3>1
  <2> QED BY <2>1, <2>2
<1>4. (k + 1) - 1 = k
  OBVIOUS
<1> QED BY <1>2, <1>3, <1>4 DEF Walk

LEMMA WalkBegins == ASSUME NEW STATE n, n \in Nodes PROVE Walk(1, n)
<1> DEFINE x == [i \in 1 .. 1 |-> n]
<1>1. x \in [1 .. 1 -> Nodes] /\ x[1] = n /\ 1 .. 1 - 1 = {}
  OBVIOUS
<1> QED BY <1>1 DEF Walk

\* A failure leaves the run where it is.
LEMMA FailSteps ==
    ASSUME StepsInv, NEW e, e \in Errors, Fail(e), values' \in [payload.declares -> Value],
           UNCHANGED <<payload, task, superstep, queried>>,
           e = "outOfSteps" => superstep = RecursionLimit
    PROVE  StepsInv'
<1>1. \A n \in Node : TaskInv(n, task[n])'
  <2>1. \A n \in Node : TaskInv(n, task'[n])
    BY DEF StepsInv
  <2> QED BY <2>1, TaskStable
<1>2. superstep > 0 => \E n \in Nodes' : Walk(superstep, n)'
  BY GraphStable, WalkStable DEF StepsInv
<1>3. stage' = "failed" /\ error' = e
  BY DEF Fail
<1> QED BY <1>1, <1>2, <1>3 DEF StepsInv

\* Going on to targets that end ways of one more node.
LEMMA AdvanceSteps ==
    ASSUME Inv, StepsInv, Accepted, NEW STATE targets, targets \subseteq Nodes \cup {"END"},
           NEW STATE v, v \in [payload.declares -> Value], Advance(targets, v),
           \A n \in targets \ {"END"} : Walk(superstep + 1, n), error = "none"
    PROVE  StepsInv'
<1> DEFINE S == targets \ {"END"}
<1>1. payload' = payload /\ engine' = engine /\ values' = v
  BY DEF Advance
<1>2. superstep \in Nat /\ superstep <= RecursionLimit /\ RecursionLimit \in Nat
  BY GraphAssumption DEF StepsInv
<1>3. CASE OverLimit /\ Fail("outOfSteps") /\ UNCHANGED <<task, superstep, spent, queried>>
  <2>1. superstep = RecursionLimit
    BY <1>2, <1>3 DEF OverLimit
  <2>2. "outOfSteps" \in Errors
    BY DEF Errors
  <2>3. values' \in [payload.declares -> Value]
    BY <1>1
  <2>4. Fail("outOfSteps") /\ UNCHANGED <<payload, task, superstep, queried>>
    BY <1>1, <1>3
  <2> QED BY <2>1, <2>2, <2>3, <2>4, FailSteps
<1>4. CASE S = {} /\ stage' = "answered" /\ task' = [n \in Node |-> IdleTask]
           /\ UNCHANGED <<error, superstep, spent, queried>>
  <2>1. \A n \in Node : TaskInv(n, task'[n])
    BY <1>4, IdleTaskInv
  <2>2. \A n \in Node : TaskInv(n, task[n])'
    BY <1>1, <2>1, TaskStable
  <2>3. (\E n \in Nodes : Walk(superstep, n)) => \E n \in Nodes' : Walk(superstep, n)'
    BY <1>1, <1>4, GraphStable, WalkStable
  <2>4. superstep' = superstep /\ stage' = "answered" /\ error' = error /\ queried' = queried
    BY <1>4
  <2> QED BY <1>1, <2>2, <2>3, <2>4 DEF StepsInv
<1>5. CASE S # {} /\ ~OverLimit /\ stage' = "running" /\ Begin(S, v) /\ error' = error
           /\ superstep' = IF superstep < RecursionLimit THEN superstep + 1 ELSE superstep
  <2>1. superstep' = superstep + 1 /\ superstep' \in 0 .. RecursionLimit /\ superstep' > 0
    BY <1>2, <1>5 DEF OverLimit
  <2>2. S \subseteq Nodes
    OBVIOUS
  <2>3. /\ task' = [n \in Node |-> IF n \in S THEN Begun(n, v) ELSE IdleTask]
        /\ queried' \subseteq queried \cup {engine.bok}
    BY <1>5 DEF Begin, Collection
  <2>4. queried' \subseteq Value
    BY <2>3 DEF StepsInv, Inv, Value
  <2>5. \A n \in Node : TaskInv(n, task'[n]) /\ (task'[n].state # "idle" => n \in S)
    <3> SUFFICES ASSUME NEW n \in Node
                 PROVE  TaskInv(n, task'[n]) /\ (task'[n].state # "idle" => n \in S)
      OBVIOUS
    <3>1. CASE n \in S
      BY <2>2, <2>3, <3>1, BegunInv DEF StepsInv
    <3>2. CASE n \notin S
      <4>1. task'[n] = IdleTask
        BY <2>3, <3>2
      <4> QED BY <4>1, IdleTaskInv DEF IdleTask
    <3> QED BY <3>1, <3>2
  <2>6. \A n \in S : Walk(superstep, n)'
    BY <1>1, <2>1, WalkStable
  <2>7. \E n \in Nodes' : Walk(superstep, n)'
    BY <1>1, <1>5, <2>2, <2>6, GraphStable
  <2>8. \A n \in Node : TaskInv(n, task[n])'
    BY <1>1, <2>5, TaskStable
  <2>9. error' = "none"
    BY <1>5
  <2> QED BY <1>1, <1>5, <2>1, <2>4, <2>5, <2>6, <2>7, <2>8, <2>9 DEF StepsInv
<1> QED BY <1>3, <1>4, <1>5 DEF Advance

\* The end of one node, with what it returned.
LEMMA EndSteps ==
    ASSUME Inv, StepsInv, stage = "running", NEW n \in Node, task[n].state = "calling",
           NEW STATE r, DOMAIN r \subseteq Key, \A k \in DOMAIN r : r[k] \in Value,
           payload.kind[n] = "retrieve" => DOMAIN r = {payload.output},
           payload.kind[n] # "echo",
           task' = [task EXCEPT ![n] = Ended(n, values, r)],
           UNCHANGED <<payload, engine, stage, error, values, superstep, spent, queried>>
    PROVE  StepsInv'
<1>1. Builds
  BY DEF Inv, CallsWhenAccepted, Accepted
<1>2. n \in Nodes /\ Walk(superstep, n)
  BY DEF StepsInv, TaskInv
<1>3. TaskInv(n, Ended(n, values, r))
  BY <1>1, <1>2, EndedInv
<1>4. \A m \in Node : task'[m] = IF m = n THEN Ended(n, values, r) ELSE task[m]
  BY DEF Inv
<1>5. \A m \in Node : TaskInv(m, task'[m])
  BY <1>3, <1>4 DEF StepsInv
<1>6. \A m \in Node : TaskInv(m, task[m])'
  BY <1>5, TaskStable
<1>7. \A m \in Node : task'[m].state # "idle" => Walk(superstep', m)
  BY <1>2, <1>4 DEF StepsInv
<1>8. \A m \in Node : task'[m].state # "idle" => Walk(superstep, m)'
  BY <1>7, WalkStable
<1>9. \E m \in Nodes' : Walk(superstep, m)'
  BY <1>2, GraphStable, WalkStable
<1> QED BY <1>6, <1>8, <1>9 DEF StepsInv

LEMMA StepsInit == Init => StepsInv
<1> SUFFICES ASSUME Init PROVE StepsInv
  OBVIOUS
<1>1. \A n \in Node : TaskInv(n, task[n])
  BY IdleTaskInv DEF Init
<1>2. values \in [payload.declares -> Value]
  BY DEF Init, Value
<1>3. superstep = 0 /\ 0 \in 0 .. RecursionLimit /\ ~(superstep > 0)
  <2>1. superstep = 0
    BY DEF Init
  <2>2. 0 \in 0 .. RecursionLimit
    BY GraphAssumption
  <2> QED BY <2>1, <2>2
<1>4. payload \in Payload /\ stage = "received" /\ error = "none" /\ queried = {}
  BY DEF Init
<1>5. superstep \in 0 .. RecursionLimit /\ stage # "running" /\ error # "outOfSteps"
  BY <1>3, <1>4
<1> QED BY <1>1, <1>2, <1>3, <1>4, <1>5 DEF StepsInv

LEMMA StartSteps == ASSUME Inv, StepsInv, Start PROVE StepsInv'
<1>1. Accepted /\ stage = "received" /\ superstep = 0 /\ error = "none"
  BY DEF Start, Accepted, StepsInv
<1>2. Seed \in [payload.declares -> Value]
  BY DEF Seed, Value, Inv
<1> HIDE DEF Seed
<1>3. CASE NoTarget \in Successors("START", Seed)
  <2>1. /\ Fail("unmatched") /\ values' = Seed
        /\ UNCHANGED <<payload, task, superstep, queried>>
    BY <1>3 DEF Start
  <2> QED BY <1>2, <2>1, FailSteps DEF Errors
<1>4. CASE NoTarget \notin Successors("START", Seed)
  <2>1. Successors("START", Seed) \subseteq Nodes \cup {"END"}
    BY <1>1, <1>4, SuccessorsKnown DEF Accepted
  <2>2. Advance(Successors("START", Seed), Seed)
    BY <1>4 DEF Start
  <2>3. \A n \in Successors("START", Seed) \ {"END"} : Walk(superstep + 1, n)
    <3>1. superstep + 1 = 1
      BY <1>1
    <3> QED BY <2>1, <3>1, WalkBegins
  <2> QED BY <1>1, <1>2, <2>1, <2>2, <2>3, AdvanceSteps
<1> QED BY <1>3, <1>4

LEMMA EndSuperstepSteps == ASSUME Inv, StepsInv, EndSuperstep PROVE StepsInv'
<1>1. stage = "running" /\ error = "none" /\ Accepted /\ superstep \in Nat \ {0}
  <2>1. stage = "running"
    BY DEF EndSuperstep, SuperstepDone
  <2>2. Accepted
    BY <2>1 DEF Inv, CallsWhenAccepted
  <2>3. error = "none" /\ superstep > 0 /\ superstep \in 0 .. RecursionLimit
    BY <2>1 DEF StepsInv
  <2>4. superstep \in Nat \ {0}
    BY <2>3, GraphAssumption
  <2> QED BY <2>1, <2>2, <2>3, <2>4
<1>2. CASE Conflict
  <2>1. /\ Fail("conflict") /\ UNCHANGED <<payload, values, task, superstep, queried>>
    BY <1>2 DEF EndSuperstep
  <2>2. values' \in [payload.declares -> Value]
    BY <2>1 DEF StepsInv
  <2> QED BY <2>1, <2>2, FailSteps DEF Errors
<1>3. CASE ~Conflict
  <2> DEFINE targets == UNION {task[n].targets : n \in Ran}
             v == [k \in payload.declares |->
                      IF Writers(k) = {} THEN values[k]
                      ELSE task[CHOOSE n \in Writers(k) : TRUE].returned[k]]
  <2>1. Advance(targets, v)
    BY <1>3 DEF EndSuperstep
  <2>2. v \in [payload.declares -> Value]
    <3> SUFFICES ASSUME NEW k \in payload.declares PROVE v[k] \in Value
      OBVIOUS
    <3>1. CASE Writers(k) = {}
      BY <3>1 DEF StepsInv
    <3>2. CASE Writers(k) # {}
      <4>1. PICK n : n = CHOOSE m \in Writers(k) : TRUE
        OBVIOUS
      <4>2. n \in Writers(k)
        BY <3>2, <4>1
      <4>3. task[n].returned[k] \in Value
        BY <4>2 DEF Writers, Ran, StepsInv, TaskInv
      <4> QED BY <3>2, <4>1, <4>3
    <3> QED BY <3>1, <3>2
  <2>3. ASSUME NEW n \in targets
        PROVE  n \in Nodes \cup {"END"} /\ (n # "END" => Walk(superstep + 1, n))
    <3>1. PICK m \in Ran : n \in task[m].targets
      OBVIOUS
    <3>2. m \in Node /\ task[m].state = "done"
      BY <3>1 DEF Ran
    <3>3. Walk(superstep, m) /\ n \in Follows(m) /\ n \in Nodes \cup {"END"}
      BY <1>1, <3>1, <3>2 DEF StepsInv, TaskInv, Inv, LeadsToNodes
    <3> QED BY <1>1, <3>3, WalkOn
  <2> HIDE DEF targets, v
  <2> QED BY <1>1, <2>1, <2>2, <2>3, AdvanceSteps
<1> QED BY <1>2, <1>3

LEMMA StepsNext == Inv /\ StepsInv /\ [Next]_vars => StepsInv'
<1> SUFFICES ASSUME Inv, StepsInv, [Next]_vars PROVE StepsInv'
  OBVIOUS
<1>1. CASE Refuse
  <2>1. Fail("refused") /\ UNCHANGED <<payload, values, task, superstep, queried>>
    BY <1>1 DEF Refuse
  <2>2. values' \in [payload.declares -> Value]
    BY <2>1 DEF StepsInv
  <2> QED BY <2>1, <2>2, FailSteps DEF Errors
<1>2. CASE Start
  BY <1>2, StartSteps
<1>3. CASE EndSuperstep
  BY <1>3, EndSuperstepSteps
<1>4. ASSUME NEW n \in Node, Replies(n) PROVE StepsInv'
  <2>1. PICK r : /\ task' = [task EXCEPT ![n] = Ended(n, values, r)]
                 /\ \/ r = [k \in {"result"} |-> "answer"]
                    \/ r \in FieldsReturned
                 /\ payload.kind[n] \in {"text", "fields"}
    BY <1>4 DEF Replies
  <2>2. payload.fields \subseteq Key /\ "result" \in Key
    BY GraphAssumption DEF StepsInv
  <2>3. DOMAIN r \subseteq Key /\ \A k \in DOMAIN r : r[k] \in Value
    BY <2>1, <2>2 DEF FieldsReturned, Value
  <2> QED BY <1>4, <2>1, <2>3, EndSteps DEF Replies
<1>5. ASSUME NEW n \in Node, Retrieves(n) PROVE StepsInv'
  <2>1. PICK docs \in {"passages", ""} :
          task' = [task EXCEPT ![n] = Ended(n, values, [k \in {payload.output} |-> docs])]
    BY <1>5 DEF Retrieves
  <2>2. PICK r : r = [k \in {payload.output} |-> docs]
    OBVIOUS
  <2>3. n \in Nodes /\ payload.kind[n] = "retrieve" /\ Accepted
    BY <1>5 DEF Retrieves, StepsInv, TaskInv, Inv, CallsWhenAccepted
  <2>4. payload.output \in payload.declares
    BY <2>3 DEF Accepted, Compiles, HasKind
  <2>5. payload.output \in Key
    BY <2>4, GraphAssumption DEF StepsInv
  <2>6. DOMAIN r = {payload.output} /\ \A k \in DOMAIN r : r[k] \in Value
    BY <2>2 DEF Value
  <2>7. task' = [task EXCEPT ![n] = Ended(n, values, r)]
    BY <2>1, <2>2
  <2> QED BY <1>5, <2>3, <2>5, <2>6, <2>7, EndSteps DEF Retrieves
<1>6. ASSUME NEW n \in Node, CallFails(n) \/ NodeRaises(n) PROVE StepsInv'
  <2>1. PICK e \in {"call", "unbound", "unmatched"} :
          Fail(e) /\ UNCHANGED <<payload, values, task, superstep, queried>>
    BY <1>6 DEF CallFails, NodeRaises
  <2>2. values' \in [payload.declares -> Value]
    BY <2>1 DEF StepsInv
  <2> QED BY <2>1, <2>2, FailSteps DEF Errors
<1>7. CASE UNCHANGED vars
  <2>1. UNCHANGED <<payload, stage, error, values, task, superstep, queried>>
    BY <1>7 DEF vars
  <2>2. \A n \in Node : TaskInv(n, task[n])' <=> TaskInv(n, task[n])
    BY <2>1, TaskStable
  <2>3. Nodes' = Nodes /\ \A n : Walk(superstep, n)' <=> Walk(superstep, n)
    BY <2>1, GraphStable, WalkStable
  <2> QED BY <2>1, <2>2, <2>3 DEF StepsInv
<1> QED BY <1>1, <1>2, <1>3, <1>4, <1>5, <1>6, <1>7 DEF Next

LEMMA StepsInvariant == Spec => [](Inv /\ StepsInv)
  BY InitInv, StepInv, StepsInit, StepsNext, PTL DEF Spec

\* The fields of the state hold values of the kinds that members, models and the
\* store write, nodes lead to known targets, and the supersteps never exceed
\* _GRAPH_RECURSION_LIMIT.
THEOREM TypeCorrect == Spec => []TypeOK
<1>1. Inv /\ StepsInv => TypeOK
  BY DEF Inv, StepsInv, TaskInv, TypeOK
<1> QED BY <1>1, StepsInvariant, PTL

\* In every payload that compile accepts, the field of a retrieve or an echo node
\* is declared, so that what it returns is in the merged state unless a second
\* writer fails the run (compile, and LangGraph's merge of a superstep).
THEOREM ReturnsAreMerged == Spec => NothingDropped
<1> DEFINE Kept == SuperstepDone /\ error' # "conflict"
              => \A n \in Ran : payload.kind[n] \in {"retrieve", "echo"}
                   => \A k \in DOMAIN task[n].returned : Read(values', k) = task[n].returned[k]
<1>1. ASSUME Inv, StepsInv, Next, SuperstepDone, error' # "conflict", NEW n \in Ran,
             payload.kind[n] \in {"retrieve", "echo"}, NEW k \in DOMAIN task[n].returned
      PROVE  Read(values', k) = task[n].returned[k]
  <2>1. stage = "running" /\ \A m \in Node : task[m].state \in {"idle", "done"}
    BY <1>1 DEF SuperstepDone
  <2>2. EndSuperstep
    BY <1>1, <2>1 DEF Next, Refuse, Start, Replies, Retrieves, CallFails, NodeRaises, Terminated
  <2>3. ~Conflict
    BY <1>1, <2>2 DEF EndSuperstep, Fail
  <2>4. values' = [i \in payload.declares |->
                     IF Writers(i) = {} THEN values[i]
                     ELSE task[CHOOSE m \in Writers(i) : TRUE].returned[i]]
    BY <2>2, <2>3 DEF EndSuperstep, Advance
  <2>5. n \in Nodes /\ task[n].state = "done" /\ n \in Node
    BY <1>1 DEF Ran, StepsInv, TaskInv
  <2>6. Accepted
    BY <1>1, <2>1 DEF Inv, CallsWhenAccepted
  <2>7. k \in payload.declares
    <3>1. CASE payload.kind[n] = "retrieve"
      <4>1. k = payload.output
        BY <1>1, <2>5, <3>1 DEF StepsInv, TaskInv
      <4> QED BY <2>5, <2>6, <3>1, <4>1 DEF Accepted, Compiles, HasKind
    <3>2. CASE payload.kind[n] = "echo"
      <4>1. k = "result"
        BY <1>1, <2>5, <3>2 DEF StepsInv, TaskInv
      <4> QED BY <2>5, <2>6, <3>2, <4>1 DEF Accepted, Compiles, HasKind
    <3> QED BY <1>1, <3>1, <3>2
  <2>8. n \in Writers(k)
    BY <1>1 DEF Writers
  <2>9. Writers(k) = {n}
    <3>1. Writers(k) \subseteq Nodes /\ IsFiniteSet(Nodes)
      BY <1>1, GraphAssumption DEF Writers, Ran, StepsInv, TaskInv, Nodes
    <3>2. IsFiniteSet(Writers(k)) /\ Cardinality(Writers(k)) \in Nat
      BY <3>1, FS_Subset, FS_CardinalityType
    <3>3. ~(Cardinality(Writers(k)) > 1)
      BY <2>3, <2>7 DEF Conflict
    <3>4. Cardinality({n}) = 1 /\ IsFiniteSet({n})
      BY FS_Singleton
    <3>5. Cardinality({n}) <= Cardinality(Writers(k))
      BY <2>8, <3>2, FS_Subset
    <3>6. Cardinality({n}) = Cardinality(Writers(k))
      BY <3>2, <3>3, <3>4, <3>5
    <3> QED BY <2>8, <3>2, <3>6, FS_Subset
  <2> QED BY <2>4, <2>7, <2>9 DEF Read
<1>2. Inv /\ StepsInv /\ [Next]_vars => [Kept]_vars
  BY <1>1
<1> QED BY <1>2, StepsInvariant, PTL DEF Spec, NothingDropped

\* A way of more nodes than there are goes round in a circle.
LEMMA LongWalkIsCyclic ==
    ASSUME IsFiniteSet(Nodes), NEW STATE k, k \in Nat, Cardinality(Nodes) < k,
           NEW STATE n, Walk(k, n)
    PROVE  Cyclic
<1>1. PICK w \in [1 .. k -> Nodes] : \A i \in 1 .. k - 1 : w[i + 1] \in Follows(w[i])
  BY DEF Walk
<1>2. IsFiniteSet(1 .. k) /\ Cardinality(1 .. k) = k
  <2>1. k > 0
    BY FS_CardinalityType
  <2> QED BY <2>1, FS_Interval
<1>3. \E x, y \in 1 .. k : x # y /\ w[x] = w[y]
  BY <1>1, <1>2, FS_PigeonHole
<1>4. PICK x \in 1 .. k, y \in 1 .. k : x < y /\ w[x] = w[y]
  BY <1>3
<1> DEFINE S == {w[i] : i \in x .. y - 1}
<1>5. S \subseteq Nodes /\ S # {}
  <2>1. x \in x .. y - 1 /\ x .. y - 1 \subseteq 1 .. k
    BY <1>4
  <2> QED BY <1>1, <2>1
<1>6. ASSUME NEW m \in S PROVE Follows(m) \cap S # {}
  <2>1. PICK i \in x .. y - 1 : m = w[i]
    OBVIOUS
  <2>2. w[i + 1] \in Follows(m)
    <3>1. i \in 1 .. k - 1
      BY <1>4
    <3> QED BY <1>1, <2>1, <3>1
  <2>3. w[i + 1] \in S
    <3>1. CASE i = y - 1
      <4>1. x \in x .. y - 1 /\ i + 1 = y
        BY <1>4, <3>1
      <4> QED BY <1>4, <4>1
    <3>2. CASE i # y - 1
      <4>1. i + 1 \in x .. y - 1
        BY <1>4, <3>2
      <4> QED BY <4>1
    <3> QED BY <3>1, <3>2
  <2> QED BY <2>2, <2>3
<1> HIDE DEF S
<1>7. S \in (SUBSET Nodes) \ {{}}
  <2>1. S \subseteq Nodes /\ S # {}
    BY <1>5
  <2>2. S \in SUBSET Nodes /\ S \notin {{}}
    BY <2>1
  <2> QED BY <2>2
<1> QED BY <1>6, <1>7 DEF Cyclic

\* A run that _GRAPH_RECURSION_LIMIT cuts off has gone round in a circle: a
\* payload without a cycle and with fewer nodes than the limit always ends by
\* itself, whatever its models reply and its routers choose.
THEOREM OnlyCyclesAreCut == Spec => []CeilingIsForCycles
<1>1. Inv /\ StepsInv => CeilingIsForCycles
  <2> SUFFICES ASSUME Inv, StepsInv, error = "outOfSteps", Cardinality(Nodes) < RecursionLimit
               PROVE  Cyclic
    BY DEF CeilingIsForCycles
  <2>1. superstep = RecursionLimit /\ RecursionLimit \in Nat /\ RecursionLimit > 0
    BY GraphAssumption DEF StepsInv
  <2>2. PICK n \in Nodes : Walk(superstep, n)
    BY <2>1 DEF StepsInv
  <2>3. IsFiniteSet(Nodes)
    BY GraphAssumption DEF StepsInv, Nodes
  <2> QED BY <2>1, <2>2, <2>3, LongWalkIsCyclic
<1> QED BY <1>1, StepsInvariant, PTL
============================================================================
