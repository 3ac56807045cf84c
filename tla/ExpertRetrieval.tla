-------------------------- MODULE ExpertRetrieval --------------------------
(***************************************************************************)
(* One request of the expert plugin: ExpertPlugin.handle opens the scope   *)
(* of QueryEmbeddings, decides what to retrieve on, retrieves by hierarchy *)
(* routing, scoped detail and flat fallback, each stage with up to two     *)
(* concurrent arms (hybrid_retrieval.retrieve), asks the model and leaves  *)
(* the scope.  The request is cancelled by the pipeline timeout of the     *)
(* consumer and by the shutdown of the engine, wherever it is.             *)
(*                                                                         *)
(* Passages are abstract: a store call finds usable ones ("hits") or none, *)
(* where usable means: left after fusion, threshold, cut and budget, or,   *)
(* for routing, selecting at least one subspace.                           *)
(***************************************************************************)
EXTENDS QueryEmbeddings

CONSTANTS StoreAttempts,  \* MAX_RETRIES of the Chroma adapter
          MaxRetrievals   \* bound: runs of a graph's retrieve node

ASSUME ExpertAssumption ==
    /\ Caller = {"primary", "lexical"}   \* the arms of a stage
    /\ StoreAttempts \in Nat \ {0}
    /\ MaxRetrievals \in Nat

VARIABLES settings,  \* the configuration, and whether the event has a graph
          stage,     \* where the request is
          outcome,   \* how it leaves the scope
          query,     \* the text it retrieves on
          terms,     \* the joined terms of the lexical arm, or NoText
          rounds,    \* retrievals so far
          arm,       \* per arm: its call of query or query_lexical
          cancels    \* cancellations so far

requestVars == <<settings, stage, outcome, query, terms, rounds, arm, cancels>>
vars == <<embeddingVars, requestVars>>

Retrieving == {"routing", "detail", "flat"}
Running == {"resolving", "answering"} \cup Retrieving
Errors == {"embeddingError", "storeError"}

IdleArm == [state |-> "idle", attempt |-> 0, result |-> "none"]

TypeOK ==
    /\ EmbeddingTypeOK
    /\ settings \in [hybrid : {"off", "both", "lexicalOnly"},
                     hierarchical : BOOLEAN, graph : BOOLEAN]
    /\ stage \in Running \cup {"unwinding", "closing", "returned"}
    /\ outcome \in {"none", "answer", "error", "siblingError", "cancelled"} \cup Errors
    /\ query \in Text \cup {NoText}
    /\ terms \in Text \cup {NoText}
    /\ rounds \in 0 .. MaxRetrievals
    /\ arm \in [Caller -> [state : {"idle", "embedding", "store", "done"},
                           attempt : 0 .. StoreAttempts,
                           result : {"none", "hits", "empty"} \cup Errors]]
    /\ cancels \in 0 .. 2

Init ==
    /\ EmbeddingInit
    /\ settings \in [hybrid : {"off", "both", "lexicalOnly"},
                     hierarchical : BOOLEAN, graph : BOOLEAN]
    /\ stage = "resolving"
    /\ outcome = "none"
    /\ query = NoText
    /\ terms = NoText
    /\ rounds = 0
    /\ arm = [a \in Caller |-> IdleArm]
    /\ cancels = 0

-----------------------------------------------------------------------------
(* The stages of a retrieval.                                              *)

\* The arms of a stage: routing asks the store directly; retrieve asks for
\* the dense arm alone when the lexical one is off or has no terms, and for
\* the lexical one alone only when there are terms and the dense one is muted.
ArmsOf(s, l) ==
    IF s = "routing" \/ settings.hybrid = "off" \/ l = NoText THEN {"primary"}
    ELSE IF settings.hybrid = "lexicalOnly" THEN {"lexical"}
    ELSE {"primary", "lexical"}

\* Both arms run up to their first await before anything else of the request.
StartStage(s, q, l) ==
    /\ stage' = s
    /\ arm' = [a \in Caller |-> IF a \in ArmsOf(s, l)
                                THEN [IdleArm EXCEPT !.state = "embedding"]
                                ELSE IdleArm]
    /\ EmbedQueries(ArmsOf(s, l), [a \in ArmsOf(s, l) |-> IF a = "primary" THEN q ELSE l])

\* The arm goes on to the store, or ends with the embedding's exception.
VectorsArrive(a) ==
    /\ arm[a].state = "embedding"
    /\ arm' = [arm EXCEPT ![a] = IF waiter[a].state = "vectors"
                                 THEN [state |-> "store", attempt |-> 1, result |-> "none"]
                                 ELSE [state |-> "done", attempt |-> 0, result |-> "embeddingError"]]
    /\ Resume(a)
    /\ UNCHANGED <<settings, stage, outcome, query, terms, rounds, cancels>>

ArmEnds(a, result) ==
    arm' = [arm EXCEPT ![a] = [state |-> "done", attempt |-> @.attempt, result |-> result]]

\* One attempt of ChromaDBAdapter._retry: passages, a validation error that
\* ends the call at once, or a failure that is retried while attempts remain.
StoreAttempt(a) ==
    /\ arm[a].state = "store"
    /\ \/ \E result \in {"hits", "empty", "storeError"} : ArmEnds(a, result)
       \/ /\ arm[a].attempt < StoreAttempts
          /\ arm' = [arm EXCEPT ![a].attempt = @ + 1]
    /\ UNCHANGED <<embeddingVars, settings, stage, outcome, query, terms, rounds, cancels>>

\* Mutant: gather without return_exceptions, a failed primary arm ends it.
FirstFailure == \/ \A a \in Caller : arm[a].state \in {"idle", "done"}
                \/ arm["primary"].result \in Errors

\* gather returns only when every arm has ended.
ArmsDone == \A a \in Caller : arm[a].state \in {"idle", "done"}

\* What the stage raises: the error of the primary arm; of the lexical arm
\* only an embedding error, any other degrades it to no results.
Raised ==
    IF arm["primary"].result \in Errors THEN arm["primary"].result
    ELSE IF arm["lexical"].result = "embeddingError" THEN "embeddingError"
    ELSE "none"

Found == Raised = "none" /\ \E a \in Caller : arm[a].result = "hits"

-----------------------------------------------------------------------------
(* The request.                                                            *)

\* The request leaves the scope's body with this outcome.
Leave(o) ==
    /\ stage' = "closing"
    /\ outcome' = o
    /\ LeaveScope

\* A retrieval begins: after _resolve_question, or at a retrieve node of the
\* graph.  The query is the message, its rewrite or what the graph wrote; its
\* joined terms are a text of their own, or the query's (extract_terms).
Retrieve ==
    /\ stage = "resolving" \/ (stage = "answering" /\ settings.graph)
    /\ rounds < MaxRetrievals
    /\ \E q \in Text, l \in Text \cup {NoText} :
         /\ settings.hybrid = "off" => l = NoText
         /\ query' = q
         /\ terms' = l
         /\ StartStage(IF settings.hierarchical THEN "routing" ELSE "flat", q, l)
    /\ rounds' = rounds + 1
    /\ UNCHANGED <<settings, outcome, cancels>>

\* Small talk, or a graph that reaches its answer without a retrieve node.
SkipRetrieval ==
    /\ stage = "resolving"
    /\ stage' = "answering"
    /\ UNCHANGED <<embeddingVars, settings, outcome, query, terms, rounds, arm, cancels>>

Routed ==
    /\ stage = "routing" /\ ArmsDone /\ Found
    /\ StartStage("detail", query, terms)
    /\ UNCHANGED <<settings, outcome, query, terms, rounds, cancels>>

\* No usable branch or detail, or an exception that is not an EmbeddingError.
FallBack ==
    /\ stage \in {"routing", "detail"} /\ ArmsDone
    /\ Raised = "storeError" \/ (Raised = "none" /\ ~ Found)
    /\ StartStage("flat", query, terms)
    /\ UNCHANGED <<settings, outcome, query, terms, rounds, cancels>>

\* Scoped passages, or whatever the flat retrieval returned.
Retrieved ==
    /\ ArmsDone
    /\ (stage = "detail" /\ Found) \/ (stage = "flat" /\ Raised = "none")
    /\ stage' = "answering"
    /\ UNCHANGED <<embeddingVars, settings, outcome, query, terms, rounds, arm, cancels>>

RetrievalFails ==
    /\ stage \in Retrieving /\ ArmsDone
    /\ Raised = "embeddingError" \/ (Raised = "storeError" /\ stage = "flat")
    /\ Leave(Raised)
    /\ UNCHANGED <<settings, query, terms, rounds, arm, cancels>>

\* The model answers, or raises; a graph may also fail before it retrieves
\* (SiblingFails: while it does).
Answer ==
    /\ \/ stage = "answering" /\ \E o \in {"answer", "error"} : Leave(o)
       \/ stage = "resolving" /\ settings.graph /\ Leave("error")
    /\ UNCHANGED <<settings, query, terms, rounds, arm, cancels>>

\* The body of the scope is left by an exception from outside the retrieval:
\* what it awaits is cancelled, its arms with it, but no provider task.
Abandon ==
    /\ stage' = "unwinding"
    /\ arm' = [a \in Caller |-> IdleArm]
    /\ CancelCallers(Caller)

\* The event's graph may fan out: a node in the superstep of the retrieve node
\* raises, and the engine of the graph cancels the retrieve node.
SiblingFails ==
    /\ settings.graph
    /\ stage \in Retrieving
    /\ outcome' = "siblingError"
    /\ Abandon
    /\ UNCHANGED <<settings, query, terms, rounds, cancels>>

\* The pipeline timeout, or the shutdown, cancels the request.  While it unwinds
\* the cancellation replaces the exception; in the clean-up it interrupts the
\* gather.
Cancel ==
    /\ cancels < 2
    /\ cancels' = cancels + 1
    /\ outcome' = "cancelled"
    /\ \/ /\ stage \in Running
          /\ Abandon
       \/ /\ stage = "unwinding"
          /\ UNCHANGED <<embeddingVars, stage, arm>>
       \/ /\ stage = "closing"
          /\ InterruptScope
          /\ UNCHANGED <<stage, arm>>
    /\ UNCHANGED <<settings, query, terms, rounds>>

\* The exception reaches the end of the scope's body.
Unwind ==
    /\ stage = "unwinding"
    /\ Leave(outcome)
    /\ UNCHANGED <<settings, query, terms, rounds, arm, cancels>>

Return ==
    /\ stage = "closing"
    /\ CloseScope
    /\ stage' = "returned"
    /\ UNCHANGED <<settings, outcome, query, terms, rounds, arm, cancels>>

Finished == stage = "returned" /\ UNCHANGED vars

Provider == /\ \E t \in Text : ProviderStep(t)
            /\ UNCHANGED requestVars

RequestStep ==
    \/ Retrieve \/ SkipRetrieval \/ Routed \/ FallBack \/ Retrieved
    \/ RetrievalFails \/ SiblingFails \/ Answer \/ Unwind \/ Return
    \/ \E a \in Caller : VectorsArrive(a) \/ StoreAttempt(a)

Next == RequestStep \/ Cancel \/ Provider \/ Finished

\* The turns the event loop owes to what is ready to run.
LoopStep ==
    \/ Unwind \/ Return
    \/ \E t \in Text : (TaskCancelled(t) \/ Settle(t)) /\ UNCHANGED requestVars

\* Neither the store (to_thread, without a timeout) nor the model need ever
\* answer; the pipeline timeout does strike.
Fairness == WF_vars(LoopStep) /\ WF_vars(Cancel /\ stage \in Running)

Spec == Init /\ [][Next]_vars
FairSpec == Spec /\ Fairness

-----------------------------------------------------------------------------
\* A request whose retrievals ran to their end, answered or failed, leaves
\* nothing to cancel: whichever arm failed first, the other one was awaited
\* and no provider task is still running for it (gather in retrieve).  Only a
\* cancellation, or a node of a graph that fails beside the retrieve node, cuts
\* a retrieval short and leaves tasks to the finally block of the scope.
SettledBeforeLeaving ==
    (stage = "closing" /\ outcome \notin {"cancelled", "siblingError"})
        => \A t \in Text : provider[t] = NoTask

\* Over a whole request (routing, scoped detail, flat fallback and every
\* retrieve node of a graph) a text is sent to the provider at most two
\* ladders of attempts long, and an oversized text never is: vectors are
\* reused, and only a lexical embedding failure hidden behind a failure of the
\* dense store call is ever tried again (_embed_query, retrieve,
\* _retrieve_context).
EgressBudget ==
    \A t \in Text : posts[t] <= IF t \in Oversized THEN 0 ELSE 2 * MaxAttempts

\* Once the request has left the scope's body nothing more is sent to the
\* provider, even by a task that was about to retry, and once it has returned
\* no task and no arm of it is running (the finally block of
\* query_embedding_scope, gather with return_exceptions in retrieve).
QuietAfterLeaving ==
    [][ /\ scope # "open" => posts' = posts
        /\ stage' = "returned" =>
             /\ \A t \in Text : provider'[t] = NoTask
             /\ \A a \in Caller : arm'[a].state \in {"idle", "done"} ]_vars
=============================================================================
