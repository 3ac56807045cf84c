----------------------------- MODULE CorpusSync -----------------------------
(***************************************************************************)
(* What an ingestion promises about the content of one collection, with    *)
(* batches, change detection, summaries and failures abstracted away:      *)
(* bring `stored` to exactly the content of the target corpus, add before  *)
(* anything is taken away, and take nothing away unless all is there.      *)
(***************************************************************************)
CONSTANTS Doc, Piece, Corpora

VARIABLES
    target,    \* the corpus that was fetched last: pieces of text per document
    stored,    \* content entries in the collection: (document, piece)
    phase      \* of the ingestion: "none", "working", "success", "failure"
vars == <<target, stored, phase>>

Content(c) == {e \in Doc \X Piece : e[2] \in c[e[1]]}
NoCorpus == [d \in Doc |-> {}]

Init == target = NoCorpus /\ stored = {} /\ phase = "none"

Begin ==
    /\ phase # "working"
    /\ target' \in Corpora
    /\ phase' = "working"
    /\ UNCHANGED stored

Add ==
    /\ phase = "working"
    /\ stored \subseteq stored' /\ stored' \subseteq stored \cup Content(target)
    /\ UNCHANGED <<target, phase>>

Prune ==
    /\ phase = "working"
    /\ Content(target) \subseteq stored' /\ stored' \subseteq stored
    /\ UNCHANGED <<target, phase>>

Succeed ==
    /\ phase = "working"
    /\ stored = Content(target)
    /\ phase' = "success"
    /\ UNCHANGED <<target, stored>>

Fail ==
    /\ phase = "working"
    /\ phase' = "failure"
    /\ UNCHANGED <<target, stored>>

Next == Begin \/ Add \/ Prune \/ Succeed \/ Fail
Spec == Init /\ [][Next]_vars
=============================================================================
