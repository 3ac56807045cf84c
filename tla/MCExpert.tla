------------------------------ MODULE MCExpert ------------------------------
(* Properties of one expert request, and its instance for TLC.              *)
EXTENDS ExpertRetrieval

\* The README's promise, "Embedding failures never use flat fallback": a stage
\* in which an arm met an EmbeddingError is not followed by the flat stage.
EmbeddingFailureNeverFallsBack ==
    [][(\E a \in Caller : arm[a].result = "embeddingError") /\ stage \in {"routing", "detail"}
         => stage' # "flat"]_vars

\* A request ends, whatever the provider, the store and the model do: the
\* pipeline timeout cancels it, and the clean-up of the scope then waits for
\* nothing that does not end.
RequestEnds == <>(stage = "returned")
=============================================================================
