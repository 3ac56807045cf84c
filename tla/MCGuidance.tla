----------------------------- MODULE MCGuidance -----------------------------
(* Two collections of three passages for TLC.                               *)
EXTENDS Guidance

Chunk(home, page, score, size) == [home |-> home, page |-> page, score |-> score, size |-> size]
Passages ==
    [a1 |-> Chunk("alkem", "p", 3, 1), a2 |-> Chunk("alkem", "p", 2, 2), a3 |-> Chunk("alkem", "q", 0, 1),
     b1 |-> Chunk("welcome", "q", 2, 3), b2 |-> Chunk("welcome", "", 1, 1)]
Settings(retrieve, n, threshold, budget) ==
    [retrieve |-> retrieve, n |-> n, threshold |-> threshold, budget |-> budget]
Default == Settings(TRUE, 2, 1, 3)
Table == [conversational |-> Settings(FALSE, 2, 1, 3), complex |-> Settings(TRUE, 3, 1, 5)]
BothWeights == <<1, 1>>
Sites == <<"alkem", "welcome">>
=============================================================================
