------------------------------ MODULE Guidance ------------------------------
(***************************************************************************)
(* One request of the guidance plugin: GuidancePlugin.handle rewrites the  *)
(* question, chooses a retrieval profile, asks all collections at once,    *)
(* each by meaning and by wording (hybrid_retrieval.retrieve), merges what *)
(* arrives into the evidence, and asks the model.                          *)
(*                                                                         *)
(* A passage is known by its page (its source URL, or its collection where *)
(* it names none, or "" where that is empty), its similarity to the        *)
(* question and the size of its rendered block.                            *)
(***************************************************************************)
EXTENDS RankFusion

CONSTANTS Collections,   \* DEFAULT_COLLECTIONS, in order
          Passage,       \* id |-> [home, page, score, size]
          Routes,        \* route |-> profile, routing_table
          Unrouted,      \* the profile of an engine without a router
          Weights, RrfK, \* hybrid_dense_weight and hybrid_lexical_weight, hybrid_rrf_k
          CandidateN, TopK,  \* rerank_candidate_n, rerank_top_k
          QuestionLength, ExpansionRatio, MinAllowance,  \* of validate_rewrite
          RewriteLengths \* lengths of what the model returns as a rewrite

Collection == Range(Collections)
Profile == [retrieve : BOOLEAN, n : Nat, threshold : Int, budget : Nat]

ASSUME GuidanceAssumption ==
    /\ Collections \in Seq(STRING) /\ IsInjective(Collections)
    /\ IsFiniteSet(DOMAIN Passage)
    /\ \A d \in DOMAIN Passage :
         Passage[d] \in [home : Collection, page : STRING, score : Int, size : Nat \ {0}]
    /\ Range(Routes) \cup {Unrouted} \subseteq Profile
    /\ Weights \in Seq(Nat \ {0}) /\ Len(Weights) = 2
    /\ {RrfK, CandidateN, TopK} \subseteq Nat \ {0}

VARIABLES settings,  \* hybrid retrieval and which of its arms work; re-ranking
          stage,     \* where handle is
          question,  \* "original" or "rewritten"
          profile,   \* the retrieval settings of this query
          arm,       \* per collection and arm: its store call
          evidence,  \* the passages put before the model, the cited sources
          reply      \* what the answering model returned

vars == <<settings, stage, question, profile, arm, evidence, reply>>

Arms == {"dense", "lexical"}
IdleArm == [state |-> "idle", found |-> <<>>]
Ended == {"found", "storeError", "embeddingError"}

Least(m, n) == IF m < n THEN m ELSE n
Most(m, n) == IF m < n THEN n ELSE m

TypeOK ==
    /\ settings \in [hybrid : {"off", "denseOnly", "both", "lexicalOnly"}, rerank : BOOLEAN]
    /\ stage \in {"rewriting", "routing", "retrieving", "answering", "answered", "failed"}
    /\ question \in {"original", "rewritten"}
    /\ profile \in Range(Routes) \cup {Unrouted}
    /\ arm \in [Collection -> [Arms ->
                  [state : {"idle", "asked"} \cup Ended, found : Seq(DOMAIN Passage)]]]
    /\ evidence \in Seq([id : DOMAIN Passage, scored : BOOLEAN, rank : Nat \ {0}])
    /\ reply \in {"none", "object", "text", "otherJson", "raised"}

Init ==
    /\ settings \in [hybrid : {"off", "denseOnly", "both", "lexicalOnly"}, rerank : BOOLEAN]
    /\ stage = "rewriting"
    /\ question = "original"
    /\ profile = Unrouted
    /\ arm = [c \in Collection |-> [a \in Arms |-> IdleArm]]
    /\ evidence = <<>>
    /\ reply = "none"

-----------------------------------------------------------------------------
(* The question and the profile.                                           *)

\* validate_rewrite: a text, not blank, not much longer than the question.
UsableRewrite(length) ==
    /\ length > 0
    /\ length <= Most(ExpansionRatio * QuestionLength, MinAllowance)

\* Mutant: what the model returns is the question, whatever it is.
RewriteVerbatim ==
    /\ stage = "rewriting"
    /\ stage' = "routing"
    /\ \/ question' = question
       \/ \E length \in RewriteLengths :
            question' = IF UsableRewrite(length) THEN "rewritten" ELSE "unusable"
    /\ UNCHANGED <<settings, profile, arm, evidence, reply>>

\* should_rewrite and rewrite_query: no call without history or for small
\* talk; a call that fails, like one whose text is unusable, keeps the question.
Rewrite ==
    /\ stage = "rewriting"
    /\ stage' = "routing"
    /\ \/ question' = question
       \/ \E length \in RewriteLengths :
            question' = IF UsableRewrite(length) THEN "rewritten" ELSE question
    /\ UNCHANGED <<settings, profile, arm, evidence, reply>>

\* The width of the store calls: the re-ranker wants a pool to choose from.
FetchWidth(p) == IF settings.rerank THEN Most(p.n, CandidateN) ELSE p.n

\* The arms of a query: dense alone without hybrid retrieval, and with it where
\* the lexical arm is muted or the question has no terms for it.
ArmsAsked ==
    CASE settings.hybrid \in {"off", "denseOnly"} -> {"dense"}
      [] settings.hybrid = "both" -> Arms
      [] settings.hybrid = "lexicalOnly" -> {"lexical"}

\* _resolve_profile: the defaults without a router and where it fails or returns
\* nonsense; then all collections are asked, or none for small talk.
Route ==
    /\ stage = "routing"
    /\ stage' = "retrieving"
    /\ profile' \in {Unrouted} \cup Range(Routes)
    /\ arm' = [c \in Collection |-> [a \in Arms |->
                 IF profile'.retrieve /\ a \in ArmsAsked
                 THEN [IdleArm EXCEPT !.state = "asked"] ELSE IdleArm]]
    /\ UNCHANGED <<settings, question, evidence, reply>>

-----------------------------------------------------------------------------
(* Retrieval.                                                              *)

Stock(c) == {d \in DOMAIN Passage : Passage[d].home = c}

\* What the store may return: nearest first, or in any order by wording.
StoreAnswers(c, a, width) ==
    {s \in SetToAllKPermutations(Stock(c)) :
        /\ Len(s) <= width
        /\ a = "dense" => \A i, j \in DOMAIN s : i < j => Passage[s[i]].score >= Passage[s[j]].score}

ArmEnds(c, a) ==
    /\ stage = "retrieving"
    /\ arm[c][a].state = "asked"
    /\ \/ \E s \in StoreAnswers(c, a, FetchWidth(profile)) :
            arm' = [arm EXCEPT ![c][a] = [state |-> "found", found |-> s]]
       \/ \E error \in {"storeError", "embeddingError"} :
            arm' = [arm EXCEPT ![c][a].state = error]
    /\ UNCHANGED <<settings, stage, question, profile, evidence, reply>>

\* Whether retrieve raises: the dense arm must answer where it is asked, the
\* lexical one may fail unless its terms cannot be embedded.
Raised(c) ==
    \/ arm[c]["dense"].state \in {"storeError", "embeddingError"}
    \/ arm[c]["lexical"].state = "embeddingError"

\* The ids a collection contributes, best first; none when its query raised.
Retrieved(c) ==
    IF Raised(c) THEN <<>>
    ELSE IF settings.hybrid = "both"
    THEN Fuse(arm[c]["dense"].found, arm[c]["lexical"].found, Weights, RrfK, FetchWidth(profile))
    ELSE IF settings.hybrid = "lexicalOnly" THEN arm[c]["lexical"].found
    ELSE arm[c]["dense"].found

\* Entries with their rank; only the dense arm knows a score.
Entries(c) ==
    LET ids == Retrieved(c)
    IN  [i \in DOMAIN ids |-> [id |-> ids[i], rank |-> i,
                               scored |-> ids[i] \in Range(arm[c]["dense"].found)]]

Score(e) == IF e.scored THEN Passage[e.id].score ELSE 0

-----------------------------------------------------------------------------
(* The evidence.                                                           *)

\* Hybrid: rank by rank, literal matches first; dense: by score.
MergeBefore(e, f) ==
    IF settings.hybrid = "off" THEN Score(e) > Score(f)
    ELSE \/ e.rank < f.rank
         \/ e.rank = f.rank /\ ~e.scored /\ f.scored
         \/ e.rank = f.rank /\ e.scored = f.scored /\ Score(e) > Score(f)

\* ranked: what all collections contribute.
Pool == UNION {Range(Entries(c)) : c \in Collection}

\* The order in which ranked.extend puts the entries: by collection, then rank.
Listed(e, f) ==
    LET place(x) == CHOOSE i \in DOMAIN Collections : Collections[i] = Passage[x.id].home
    IN  \/ place(e) < place(f)
        \/ place(e) = place(f) /\ e.rank < f.rank

\* ranked.sort, which is stable.
Precedes(e, f) == \/ MergeBefore(e, f)
                  \/ ~MergeBefore(f, e) /\ Listed(e, f)
Merged == InOrder(Pool, {p \in Pool \X Pool : Precedes(p[1], p[2])})

\* The re-ranker returns the merged pool in another order, which depends on
\* words this model does not have.
Orders == IF settings.rerank THEN SetToSeqs(Pool) ELSE {Merged}

\* The elements of s at the positions in I.
At(s, I) ==
    LET order == InOrder(I, {p \in I \X I : p[1] < p[2]})
    IN  [k \in DOMAIN order |-> s[order[k]]]

Relevant(e) == ~e.scored \/ Score(e) >= profile.threshold

\* Two entries of one page; those without a source are pages of their own.
SamePage(e, f) == Passage[e.id].page = Passage[f.id].page /\ Passage[e.id].page # ""

Filtered(s) == At(s, {i \in DOMAIN s : Relevant(s[i])})
Deduped(s) == At(s, {i \in DOMAIN s : \A j \in 1 .. i - 1 : ~SamePage(s[i], s[j])})

Width == IF settings.rerank THEN TopK ELSE profile.n
Cut(s) == SubSeq(s, 1, Least(Width, Len(s)))

\* Mutant: cut to the width before pages are made unique.
CutFirst(s) == Deduped(Cut(Filtered(s)))

Candidates(s) == Cut(Deduped(Filtered(s)))

\* The accumulated sizes of the blocks.
Sizes(s) ==
    LET sum[i \in 0 .. Len(s)] == IF i = 0 THEN 0 ELSE sum[i - 1] + Passage[s[i].id].size
    IN  sum
SizeOf(s) == Sizes(s)[Len(s)]

\* The longest prefix that fits the budget.
WithinBudget(s) ==
    LET fits == {n \in 0 .. Len(s) : Sizes(s)[n] <= profile.budget}
    IN  SubSeq(s, 1, CHOOSE n \in fits : \A m \in fits : m <= n)

\* Mutant: gather hands the first exception of a collection on.
GatherRaises ==
    /\ stage = "retrieving"
    /\ \A c \in Collection, a \in Arms : arm[c][a].state # "asked"
    /\ \E s \in Orders :
         /\ evidence' = WithinBudget(Candidates(s))
         /\ stage' = IF \E c \in Collection : Raised(c) THEN "failed" ELSE "answering"
    /\ UNCHANGED <<settings, question, profile, arm, reply>>

\* All collections have answered or failed, whatever their order.
Gather ==
    /\ stage = "retrieving"
    /\ \A c \in Collection, a \in Arms : arm[c][a].state # "asked"
    /\ \E s \in Orders : evidence' = WithinBudget(Candidates(s))
    /\ stage' = "answering"
    /\ UNCHANGED <<settings, question, profile, arm, reply>>

-----------------------------------------------------------------------------
\* The model's text: a JSON object with a textual answer or none, text without
\* JSON, or other JSON: no object, in a fence, which _parse_json_sources returns
\* as it is, or an object whose answer is no text, which Response refuses.
Answer ==
    /\ stage = "answering"
    /\ reply' \in {"object", "text", "otherJson", "raised"}
    /\ stage' = IF reply' \in {"object", "text"} THEN "answered" ELSE "failed"
    /\ UNCHANGED <<settings, question, profile, arm, evidence>>

Over == stage \in {"answered", "failed"} /\ UNCHANGED vars

Next ==
    \/ Rewrite \/ Route
    \/ \E c \in Collection, a \in Arms : ArmEnds(c, a)
    \/ Gather \/ Answer \/ Over

Spec == Init /\ [][Next]_vars

-----------------------------------------------------------------------------
(* Properties.                                                             *)

\* What the collections that answered have to say about the question.
Usable == {e \in Pool : Relevant(e)}

\* No page is shown twice, nothing irrelevant is shown, and the blocks fit.
EvidenceFits ==
    /\ Range(evidence) \subseteq Usable
    /\ \A i, j \in DOMAIN evidence : i < j => ~SamePage(evidence[i], evidence[j])
    /\ SizeOf(evidence) <= profile.budget
    /\ Len(evidence) <= Width

\* A usable passage whose page is missing.
LeftOut == {e \in Usable : \A i \in DOMAIN evidence : evidence[i].id # e.id
                                                      /\ ~SamePage(evidence[i], e)}

\* Fewer pages than asked for only when there are no more or the budget ends.
EvidenceComplete ==
    \/ Len(evidence) = Width
    \/ LeftOut = {}
    \/ \E e \in LeftOut : SizeOf(evidence) + Passage[e.id].size > profile.budget

\* Without a re-ranker: by score nothing better is left out and a page is
\* shown by its best passage; rank by rank, nothing of an earlier rank is left
\* out for something of a later one.
EvidenceBest ==
    settings.rerank \/
      /\ \A e \in LeftOut, i \in DOMAIN evidence :
           IF settings.hybrid = "off" THEN Score(e) <= Score(evidence[i])
           ELSE e.rank >= evidence[i].rank
      /\ settings.hybrid = "off" =>
           \A e \in Usable, i \in DOMAIN evidence :
             SamePage(e, evidence[i]) => Score(e) <= Score(evidence[i])

\* A passage that both arms rank at least as high as another comes first.
AgreementLifts ==
    \A c \in Collection :
      LET ids == Retrieved(c)
          Rank(d, a) == RankIn(d, arm[c][a].found)
      IN  settings.hybrid = "both" =>
            \A i, j \in DOMAIN ids :
              i > j => \E a \in Arms : Rank(ids[j], a) < Rank(ids[i], a)

\* What the model is shown is the best of what the collections that answered
\* hold, whichever of them failed and in whatever order they came back: the
\* pages asked for as far as they exist and fit the budget, each once (the
\* merge, filter, de-duplication, cut and budget of handle, and
\* reciprocal_rank_fusion).
EvidenceSound ==
    stage \in {"answering", "answered"} =>
      EvidenceFits /\ EvidenceComplete /\ EvidenceBest /\ AgreementLifts

\* Only the answering model can cost a member the answer: a rewrite, a
\* classification or retrieval that fails never does, not even all of them.
OnlyTheModelFails == stage = "failed" => reply \in {"raised", "otherJson"}
=============================================================================
