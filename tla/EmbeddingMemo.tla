--------------------------- MODULE EmbeddingMemo ---------------------------
(***************************************************************************)
(* What query_embedding_scope promises the request that opens it, without  *)
(* tasks, callbacks or retries: a text is asked for only while nothing is  *)
(* known of it and nobody is asking, an answer stays known as long as the  *)
(* scope is open, a failure leaves no trace, and nothing is asked for once *)
(* the request has left the scope.                                         *)
(***************************************************************************)
EXTENDS Naturals

CONSTANT Text     \* the inputs of embed_query

VARIABLES memo,   \* what the scope knows of each text
          open    \* whether the request is still inside the scope

vars == <<memo, open>>

Init == /\ memo = [t \in Text |-> "none"]
        /\ open = TRUE

\* New texts are asked for, at most once each.
Ask == /\ open
       /\ \E T \in SUBSET {t \in Text : memo[t] = "none"} :
            memo' = [t \in Text |-> IF t \in T THEN "task" ELSE memo[t]]
       /\ UNCHANGED open

\* The answer to a pending question is remembered, or its failure forgotten.
Conclude(t) == /\ memo[t] = "task"
               /\ \E result \in {"vectors", "none"} :
                    memo' = [memo EXCEPT ![t] = result]
               /\ UNCHANGED open

Leave == /\ open
         /\ open' = FALSE
         /\ UNCHANGED memo

\* All that was known goes, once no question is pending any more.
Clear == /\ ~ open
         /\ \A t \in Text : memo[t] # "task"
         /\ memo' = [t \in Text |-> "none"]
         /\ UNCHANGED open

Next == Ask \/ (\E t \in Text : Conclude(t)) \/ Leave \/ Clear

Spec == Init /\ [][Next]_vars
=============================================================================
