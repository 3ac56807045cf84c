----------------------------- MODULE RankFusion -----------------------------
(***************************************************************************)
(* reciprocal_rank_fusion of a dense and a lexical ranking of passages of  *)
(* one collection.  Fusion scores are exact: the fractions                 *)
(* weight / (k + rank) are brought to a common denominator.                *)
(***************************************************************************)
EXTENDS Integers, SequencesExt

\* A finite set in the order of a relation that is a strict total order on it:
\* every element stands behind as many as come before it.  This is
\* SetToSortSeq, in a form that can be reasoned about.
InOrder(S, before) ==
    [i \in 1 .. Cardinality(S) |->
        CHOOSE x \in S : Cardinality({y \in S : <<y, x>> \in before}) = i - 1]

\* The rank of a passage in an arm, counted from one; _ABSENT is larger than
\* any real rank.
Absent(arm) == Len(arm) + 1
RankIn(d, arm) == IF d \in Range(arm) THEN CHOOSE i \in DOMAIN arm : arm[i] = d ELSE Absent(arm)

\* The product of k + 1, ..., k + n.
CommonDenominator(k, n) ==
    LET product[i \in 0 .. n] == IF i = 0 THEN 1 ELSE product[i - 1] * (k + i)
    IN  product[n]

\* What an arm contributes to a passage, times the common denominator.
Share(d, arm, weight, k, n) ==
    IF d \in Range(arm) THEN weight * (CommonDenominator(k, n) \div (k + RankIn(d, arm))) ELSE 0

FusionScore(d, dense, lexical, weights, k) ==
    LET n == IF Len(dense) < Len(lexical) THEN Len(lexical) ELSE Len(dense)
    IN  Share(d, dense, weights[1], k, n) + Share(d, lexical, weights[2], k, n)

\* One passage's standing across both arms.
Candidate(d, dense, lexical, weights, k) ==
    [id |-> d, score |-> FusionScore(d, dense, lexical, weights, k),
     denseRank |-> RankIn(d, dense), lexicalRank |-> RankIn(d, lexical)]

\* sort_key: by score, then dense rank, then lexical rank.  (Two passages never
\* agree in both ranks.)
SortsBefore(a, b) ==
    \/ a.score > b.score
    \/ a.score = b.score /\ a.denseRank < b.denseRank
    \/ a.score = b.score /\ a.denseRank = b.denseRank /\ a.lexicalRank < b.lexicalRank

\* reciprocal_rank_fusion: everything found, in that order, cut at the limit.
Fuse(dense, lexical, weights, k, limit) ==
    LET all     == {Candidate(d, dense, lexical, weights, k) : d \in Range(dense) \cup Range(lexical)}
        ordered == InOrder(all, {p \in all \X all : SortsBefore(p[1], p[2])})
    IN  [i \in 1 .. (IF limit < Len(ordered) THEN limit ELSE Len(ordered)) |-> ordered[i].id]
=============================================================================
