---------------------------- MODULE ExpertProofs ----------------------------
(***************************************************************************)
(* An expert request, for any texts, attempts, store attempts and number   *)
(* of retrievals: it is well typed, it uses the scope as QueryEmbeddings   *)
(* allows, unless its retrieval is cut short it leaves nothing to clean    *)
(* up, and what it sends to the provider is bounded and ends with the      *)
(* scope.                                                                  *)
(***************************************************************************)
EXTENDS ExpertRetrieval, QueryEmbeddingsProofs

RequestTypeOK ==
    /\ stage \in Running \cup {"unwinding", "closing", "returned"}
    /\ outcome \in {"none", "answer", "error", "siblingError", "cancelled"} \cup Errors
    /\ query \in Text \cup {NoText}
    /\ terms \in Text \cup {NoText}
    /\ rounds \in 0 .. MaxRetrievals
    /\ cancels \in 0 .. 2
    /\ settings \in [hybrid : {"off", "both", "lexicalOnly"},
                     hierarchical : BOOLEAN, graph : BOOLEAN]

ArmRecord == [state : {"idle", "embedding", "store", "done"},
              attempt : 0 .. StoreAttempts,
              result : {"none", "hits", "empty"} \cup Errors]

ArmTypeOK == arm \in [Caller -> ArmRecord]

\* Only an arm that is embedding waits, or has an outcome to pick up; arms run
\* only during a retrieval, which has a query.
ArmsInStages ==
    /\ \A a \in Caller : waiter[a].state # "idle" => arm[a].state = "embedding"
    /\ stage \notin Retrieving => ArmsDone
    /\ stage \in Retrieving => query \in Text

\* The scope is open until the request leaves it, and closed when it returned.
ScopeFollowsStage ==
    /\ stage \in Running \cup {"unwinding"} <=> scope = "open"
    /\ stage = "returned" <=> scope = "closed"

\* While the request runs, a provider task has an arm that waits for it.
TasksHaveCallers ==
    stage \in Running =>
        \A t \in Text : provider[t] # NoTask =>
            \E a \in Caller : waiter[a].state = "waiting" /\ waiter[a].text = t

\* Only a retrieval that is cut short unwinds.
Unwinding == stage = "unwinding" => outcome \in {"cancelled", "siblingError"}

RequestInv == /\ RequestTypeOK
              /\ ArmTypeOK
              /\ ArmsInStages
              /\ ScopeFollowsStage
              /\ TasksHaveCallers
              /\ Unwinding
              /\ SettledBeforeLeaving

\* What a step of the request must do to the scope.
ScopeStep == [EmbeddingNext]_embeddingVars

-----------------------------------------------------------------------------
LEMMA RequestInit == Init => RequestInv
<1> SUFFICES ASSUME Init PROVE RequestInv
  OBVIOUS
<1> USE DEF Init, EmbeddingInit
<1>1. RequestTypeOK
  BY ExpertAssumption DEF RequestTypeOK, Running
<1>2. ArmTypeOK
  BY ExpertAssumption DEF ArmTypeOK, ArmRecord, IdleArm
<1>3. ArmsInStages
  BY DEF ArmsInStages, ArmsDone, IdleArm, NotWaiting, Retrieving
<1>4. ScopeFollowsStage
  BY DEF ScopeFollowsStage, Running
<1>5. TasksHaveCallers /\ Unwinding /\ SettledBeforeLeaving
  BY DEF TasksHaveCallers, Unwinding, SettledBeforeLeaving
<1> QED BY <1>1, <1>2, <1>3, <1>4, <1>5 DEF RequestInv

\* When the arms of a running request have ended, no one waits and no
\* provider task is left.
LEMMA QuietWhenDone ==
    ASSUME Inv, RequestInv, stage \in Running, ArmsDone
    PROVE  /\ \A a \in Caller : waiter[a].state = "idle"
           /\ \A t \in Text : provider[t] = NoTask
<1>1. \A a \in Caller : waiter[a].state = "idle"
  BY DEF RequestInv, ArmsInStages, ArmsDone
<1> QED BY <1>1 DEF RequestInv, TasksHaveCallers

\* A stage begins with callers that ask for texts, and every task that this
\* leaves has one of them waiting.
LEMMA StageStarts ==
    ASSUME Inv, RequestInv, stage \in Running, ArmsDone,
           NEW s \in Retrieving, NEW q \in Text, NEW l \in Text \cup {NoText},
           StartStage(s, q, l)
    PROVE  /\ ScopeStep
           /\ scope' = scope
           /\ stage' = s
           /\ ArmTypeOK'
           /\ \A a \in Caller : waiter'[a].state # "idle" => arm'[a].state = "embedding"
           /\ \A t \in Text : provider'[t] # NoTask =>
                \E a \in Caller : waiter'[a].state = "waiting" /\ waiter'[a].text = t
<1> DEFINE C == ArmsOf(s, l)
           text == [a \in C |-> IF a = "primary" THEN q ELSE l]
<1>1. C \in SUBSET Caller /\ ("lexical" \in C => l # NoText)
  BY ExpertAssumption DEF ArmsOf
<1>2. text \in [C -> Text]
  BY <1>1, ExpertAssumption
<1>3. EmbedQueries(C, text) /\ stage' = s
  BY DEF StartStage
<1>4. arm' = [a \in Caller |-> IF a \in C THEN [IdleArm EXCEPT !.state = "embedding"]
                                          ELSE IdleArm]
  BY DEF StartStage
<1> HIDE DEF C, text
<1>5. /\ \A a \in Caller : waiter[a].state = "idle"
      /\ \A t \in Text : provider[t] = NoTask
  BY QuietWhenDone
<1>6. ScopeStep
  <2>1. \A c \in C : waiter[c].state # "waiting"
    BY <1>1, <1>5
  <2>2. EmbeddingNext
    BY <1>1, <1>2, <1>3, <2>1 DEF EmbeddingNext
  <2> QED BY <2>2 DEF ScopeStep
<1>7. [IdleArm EXCEPT !.state = "embedding"]
        = [state |-> "embedding", attempt |-> 0, result |-> "none"]
  BY DEF IdleArm
<1>8. ArmTypeOK'
  BY <1>4, <1>7, ExpertAssumption DEF ArmTypeOK, ArmRecord, IdleArm
<1> DEFINE fresh == {t \in {text[c] : c \in C} : cache[t] = "none"}
<1>9. /\ scope' = scope
      /\ \A a \in Caller : waiter'[a] = IF a \in C
             THEN [state |-> Meets(text[a]), text |-> text[a]] ELSE waiter[a]
      /\ \A t \in Text : provider'[t] = IF t \in fresh THEN NewTask ELSE provider[t]
  BY <1>3 DEF EmbedQueries
<1>10. \A a \in Caller : waiter'[a].state # "idle" => arm'[a].state = "embedding"
  BY <1>4, <1>5, <1>7, <1>9
<1>11. ASSUME NEW t \in Text, provider'[t] # NoTask
       PROVE  \E a \in Caller : waiter'[a].state = "waiting" /\ waiter'[a].text = t
  <2>1. t \in fresh
    BY <1>5, <1>9, <1>11
  <2>2. PICK c \in C : text[c] = t /\ cache[t] = "none"
    BY <2>1
  <2>3. Meets(t) = "waiting"
    BY <2>2 DEF Meets
  <2>4. c \in Caller /\ waiter'[c] = [state |-> "waiting", text |-> t]
    BY <1>1, <1>9, <2>2, <2>3
  <2> QED BY <2>4
<1> HIDE DEF fresh
<1> QED BY <1>3, <1>6, <1>8, <1>9, <1>10, <1>11

\* The steps that begin a stage.
LEMMA StageStepInv ==
    ASSUME Inv, RequestInv, Retrieve \/ Routed \/ FallBack
    PROVE  RequestInv' /\ ScopeStep
<1> USE DEF Retrieving, Running
<1>1. stage \in Running /\ ArmsDone
  BY DEF Retrieve, Routed, FallBack, RequestInv, ArmsInStages
<1>2. PICK s \in Retrieving, q \in Text, l \in Text \cup {NoText} :
        /\ StartStage(s, q, l)
        /\ query' = q /\ terms' = l
        /\ UNCHANGED <<settings, outcome, cancels>>
        /\ rounds' \in 0 .. MaxRetrievals
  <2>1. CASE Retrieve
    <3>1. PICK q \in Text, l \in Text \cup {NoText} :
            /\ query' = q /\ terms' = l
            /\ StartStage(IF settings.hierarchical THEN "routing" ELSE "flat", q, l)
      BY <2>1 DEF Retrieve
    <3>2. rounds' \in 0 .. MaxRetrievals
      BY <2>1, ExpertAssumption DEF Retrieve, RequestInv, RequestTypeOK
    <3>3. UNCHANGED <<settings, outcome, cancels>>
      BY <2>1 DEF Retrieve
    <3>4. (IF settings.hierarchical THEN "routing" ELSE "flat") \in Retrieving
      OBVIOUS
    <3> QED BY <3>1, <3>2, <3>3, <3>4
  <2>2. CASE Routed \/ FallBack
    <3>1. query \in Text /\ terms \in Text \cup {NoText} /\ rounds \in 0 .. MaxRetrievals
      BY <2>2 DEF Routed, FallBack, RequestInv, RequestTypeOK, ArmsInStages
    <3>2. /\ StartStage("detail", query, terms) \/ StartStage("flat", query, terms)
          /\ UNCHANGED <<settings, outcome, query, terms, rounds, cancels>>
      BY <2>2 DEF Routed, FallBack
    <3> QED BY <3>1, <3>2
  <2> QED BY <2>1, <2>2
<1>3. /\ ScopeStep /\ scope' = scope /\ stage' = s /\ ArmTypeOK'
      /\ \A a \in Caller : waiter'[a].state # "idle" => arm'[a].state = "embedding"
      /\ \A t \in Text : provider'[t] # NoTask =>
           \E a \in Caller : waiter'[a].state = "waiting" /\ waiter'[a].text = t
  BY <1>1, <1>2, StageStarts
<1>4. RequestTypeOK'
  BY <1>2, <1>3 DEF RequestInv, RequestTypeOK
<1>5. ArmsInStages'
  BY <1>2, <1>3 DEF ArmsInStages
<1>6. ScopeFollowsStage'
  BY <1>1, <1>3 DEF RequestInv, ScopeFollowsStage
<1>7. TasksHaveCallers' /\ SettledBeforeLeaving' /\ Unwinding'
  BY <1>3 DEF TasksHaveCallers, Unwinding, SettledBeforeLeaving
<1> QED BY <1>3, <1>4, <1>5, <1>6, <1>7 DEF RequestInv

\* An arm goes on to the store, and through it.
LEMMA ArmStepInv ==
    ASSUME Inv, RequestInv, NEW a \in Caller, VectorsArrive(a) \/ StoreAttempt(a)
    PROVE  RequestInv' /\ ScopeStep
<1> USE DEF Retrieving, Running
<1>1. /\ UNCHANGED <<settings, stage, outcome, query, terms, rounds, cancels>>
      /\ UNCHANGED <<scope, provider>>
  BY DEF VectorsArrive, StoreAttempt, Resume, embeddingVars
<1>2. ScopeStep
  BY DEF VectorsArrive, StoreAttempt, ScopeStep, EmbeddingNext
<1>3. \E x \in ArmRecord : arm' = [arm EXCEPT ![a] = x] /\ x.state # "idle"
  <2>0. /\ arm \in [Caller -> ArmRecord] /\ arm[a] \in ArmRecord
        /\ StoreAttempts \in Nat \ {0}
    BY ExpertAssumption DEF RequestInv, ArmTypeOK
  <2>1. CASE VectorsArrive(a)
    <3> DEFINE x == IF waiter[a].state = "vectors"
                    THEN [state |-> "store", attempt |-> 1, result |-> "none"]
                    ELSE [state |-> "done", attempt |-> 0, result |-> "embeddingError"]
    <3>1. arm' = [arm EXCEPT ![a] = x]
      BY <2>1 DEF VectorsArrive
    <3>2. x \in ArmRecord /\ x.state # "idle"
      BY <2>0 DEF ArmRecord, Errors
    <3> QED BY <3>1, <3>2
  <2>2. CASE StoreAttempt(a)
    <3>1. ASSUME NEW r \in {"hits", "empty", "storeError"}, ArmEnds(a, r)
          PROVE  /\ arm' = [arm EXCEPT ![a] = [state |-> "done", attempt |-> arm[a].attempt,
                                               result |-> r]]
                 /\ [state |-> "done", attempt |-> arm[a].attempt, result |-> r] \in ArmRecord
      <4>1. arm' = [arm EXCEPT ![a] = [state |-> "done", attempt |-> arm[a].attempt,
                                       result |-> r]]
        BY <2>0, <3>1 DEF ArmEnds
      <4>2. [state |-> "done", attempt |-> arm[a].attempt, result |-> r] \in ArmRecord
        BY <2>0 DEF ArmRecord, Errors
      <4> QED BY <4>1, <4>2
    <3>2. ASSUME arm[a].attempt < StoreAttempts, arm' = [arm EXCEPT ![a].attempt = @ + 1]
          PROVE  LET x == [state |-> arm[a].state, attempt |-> arm[a].attempt + 1,
                           result |-> arm[a].result]
                 IN  arm' = [arm EXCEPT ![a] = x] /\ x \in ArmRecord
      <4>1. [arm[a] EXCEPT !.attempt = arm[a].attempt + 1]
              = [state |-> arm[a].state, attempt |-> arm[a].attempt + 1, result |-> arm[a].result]
        BY <2>0 DEF ArmRecord
      <4>2. arm[a].attempt + 1 \in 0 .. StoreAttempts
        BY <2>0, <3>2 DEF ArmRecord
      <4>3. [state |-> arm[a].state, attempt |-> arm[a].attempt + 1, result |-> arm[a].result]
              \in ArmRecord
        BY <2>0, <4>2 DEF ArmRecord
      <4> QED BY <3>2, <4>1, <4>3
    <3>3. arm[a].state = "store"
      BY <2>2 DEF StoreAttempt
    <3>4. \/ \E r \in {"hits", "empty", "storeError"} : ArmEnds(a, r)
          \/ /\ arm[a].attempt < StoreAttempts
             /\ arm' = [arm EXCEPT ![a].attempt = @ + 1]
      BY <2>2 DEF StoreAttempt
    <3>5. CASE \E r \in {"hits", "empty", "storeError"} : ArmEnds(a, r)
      BY <3>1, <3>5
    <3>6. CASE arm[a].attempt < StoreAttempts /\ arm' = [arm EXCEPT ![a].attempt = @ + 1]
      BY <3>2, <3>3, <3>6
    <3> QED BY <3>4, <3>5, <3>6
  <2> QED BY <2>1, <2>2
<1>4. /\ ArmTypeOK'
      /\ \A b \in Caller : b # a => arm'[b] = arm[b]
  BY <1>3 DEF RequestInv, ArmTypeOK
<1>5. stage \in Retrieving
  BY DEF VectorsArrive, StoreAttempt, RequestInv, ArmsInStages, ArmsDone
<1>6. /\ waiter'[a].state = "idle"
      /\ \A b \in Caller : b # a => waiter'[b] = waiter[b]
      /\ waiter[a].state # "waiting"
  <2>1. CASE VectorsArrive(a)
    BY <2>1 DEF VectorsArrive, Resume, NotWaiting, Ended, Inv, EmbeddingTypeOK
  <2>2. CASE StoreAttempt(a)
    BY <2>2 DEF StoreAttempt, embeddingVars, RequestInv, ArmsInStages
  <2> QED BY <2>1, <2>2
<1>7. ArmsInStages'
  BY <1>1, <1>4, <1>5, <1>6 DEF RequestInv, ArmsInStages
<1>8. TasksHaveCallers'
  BY <1>1, <1>6 DEF RequestInv, TasksHaveCallers
<1>9. RequestTypeOK' /\ ScopeFollowsStage' /\ SettledBeforeLeaving'
      /\ Unwinding'
  BY <1>1 DEF RequestInv, RequestTypeOK, ScopeFollowsStage, Unwinding, SettledBeforeLeaving
<1> QED BY <1>2, <1>4, <1>7, <1>8, <1>9 DEF RequestInv

\* The steps that move the request on without touching arms or scope.
LEMMA MoveInv ==
    ASSUME Inv, RequestInv, SkipRetrieval \/ Retrieved
    PROVE  RequestInv' /\ ScopeStep
<1> USE DEF Retrieving, Running
<1>1. /\ stage' = "answering" /\ stage \in Running /\ ArmsDone
      /\ UNCHANGED <<settings, outcome, query, terms, rounds, arm, cancels>>
      /\ UNCHANGED embeddingVars
  BY DEF SkipRetrieval, Retrieved, RequestInv, ArmsInStages
<1>2. ScopeStep
  BY <1>1 DEF ScopeStep
<1>3. ArmsDone'
  BY <1>1 DEF ArmsDone
<1>4. RequestTypeOK' /\ ArmTypeOK'
  BY <1>1 DEF RequestInv, RequestTypeOK, ArmTypeOK, ArmRecord
<1>5. ArmsInStages' /\ ScopeFollowsStage' /\ TasksHaveCallers'
  BY <1>1, <1>3 DEF RequestInv, ArmsInStages, ScopeFollowsStage, TasksHaveCallers, embeddingVars
<1> QED BY <1>1, <1>2, <1>4, <1>5 DEF RequestInv, Unwinding, SettledBeforeLeaving

\* The request leaves the scope: with all arms ended, so that there is no task
\* to cancel, or unwinding.
LEMMA LeaveInv ==
    ASSUME Inv, RequestInv, RetrievalFails \/ Answer \/ Unwind
    PROVE  RequestInv' /\ ScopeStep
<1> USE DEF Retrieving, Running
<1>1. /\ stage' = "closing" /\ LeaveScope
      /\ outcome' \in {"answer", "error", "siblingError", "cancelled"} \cup Errors
      /\ UNCHANGED <<settings, query, terms, rounds, arm, cancels>>
  BY DEF RetrievalFails, Answer, Unwind, Leave, Raised, Errors, RequestInv, Unwinding
<1>2. ScopeStep
  BY <1>1 DEF ScopeStep, EmbeddingNext
<1>3. ArmsDone
  BY DEF RetrievalFails, Answer, Unwind, RequestInv, ArmsInStages
<1>4. ArmsDone' /\ scope' = "closing" /\ waiter' = waiter
  BY <1>1, <1>3 DEF ArmsDone, LeaveScope
<1>5. SettledBeforeLeaving'
  <2>1. CASE stage \in Running
    <3>1. \A t \in Text : provider[t] = NoTask
      BY <1>3, <2>1, QuietWhenDone
    <3>2. NoTask.state = "none"
      BY DEF NoTask
    <3>3. \A t \in Text : provider'[t] = NoTask
      BY <1>1, <3>1, <3>2 DEF LeaveScope, Live
    <3> QED BY <3>3 DEF SettledBeforeLeaving
  <2>2. CASE Unwind
    BY <2>2 DEF Unwind, Leave, RequestInv, Unwinding, SettledBeforeLeaving
  <2> QED BY <2>1, <2>2 DEF RetrievalFails, Answer
<1>6. RequestTypeOK' /\ ArmTypeOK'
  BY <1>1 DEF RequestInv, RequestTypeOK, ArmTypeOK, ArmRecord
<1>7. ArmsInStages' /\ ScopeFollowsStage' /\ TasksHaveCallers'
  BY <1>1, <1>4 DEF RequestInv, ArmsInStages, ScopeFollowsStage, TasksHaveCallers
<1> QED BY <1>1, <1>2, <1>5, <1>6, <1>7 DEF RequestInv, Unwinding

\* A retrieval is cut short: its arms stop waiting, its tasks live on.
LEMMA AbandonInv ==
    ASSUME Inv, RequestInv, stage \in Running, Abandon,
           outcome' \in {"cancelled", "siblingError"}, cancels' \in 0 .. 2,
           UNCHANGED <<settings, query, terms, rounds>>
    PROVE  RequestInv' /\ ScopeStep
<1> USE DEF Retrieving, Running
<1>1. stage' = "unwinding" /\ CancelCallers(Caller) /\ arm' = [a \in Caller |-> IdleArm]
  BY DEF Abandon
<1>2. ScopeStep
  BY <1>1 DEF ScopeStep, EmbeddingNext
<1>3. ArmTypeOK' /\ ArmsDone'
  BY <1>1, ExpertAssumption DEF ArmTypeOK, ArmRecord, ArmsDone, IdleArm
<1>4. ArmsInStages'
  BY <1>1, <1>3 DEF ArmsInStages, CancelCallers, NotWaiting
<1>5. ScopeFollowsStage' /\ TasksHaveCallers' /\ SettledBeforeLeaving'
  BY <1>1 DEF RequestInv, ScopeFollowsStage, TasksHaveCallers, SettledBeforeLeaving, CancelCallers
<1>6. RequestTypeOK' /\ Unwinding'
  BY <1>1 DEF RequestInv, RequestTypeOK, Unwinding
<1> QED BY <1>2, <1>3, <1>4, <1>5, <1>6 DEF RequestInv

\* A node of the graph fails beside the retrieval.
LEMMA SiblingInv ==
    ASSUME Inv, RequestInv, SiblingFails
    PROVE  RequestInv' /\ ScopeStep
<1>1. /\ stage \in Running /\ Abandon /\ outcome' = "siblingError"
      /\ UNCHANGED <<settings, query, terms, rounds, cancels>>
  BY DEF SiblingFails, Running
<1>2. cancels' \in 0 .. 2
  BY <1>1 DEF RequestInv, RequestTypeOK
<1> QED BY <1>1, <1>2, AbandonInv

\* The request is cancelled, in its body, while it unwinds or while the scope
\* cleans up.
LEMMA CancelInv ==
    ASSUME Inv, RequestInv, Cancel
    PROVE  RequestInv' /\ ScopeStep
<1> USE DEF Retrieving, Running
<1>1. /\ cancels' \in 0 .. 2 /\ outcome' = "cancelled"
      /\ UNCHANGED <<settings, query, terms, rounds>>
  BY DEF Cancel, RequestInv, RequestTypeOK
<1>2. CASE stage \in Running /\ Abandon
  BY <1>1, <1>2, AbandonInv
<1>3. CASE stage = "closing" /\ InterruptScope /\ UNCHANGED <<stage, arm>>
  <2>1. ScopeStep
    BY <1>3 DEF ScopeStep, EmbeddingNext
  <2>2. ArmsInStages' /\ ArmTypeOK'
    BY <1>1, <1>3 DEF RequestInv, ArmsInStages, ArmTypeOK, ArmRecord, InterruptScope, ArmsDone
  <2>3. ScopeFollowsStage' /\ TasksHaveCallers' /\ SettledBeforeLeaving'
    BY <1>1, <1>3 DEF RequestInv, ScopeFollowsStage, TasksHaveCallers, SettledBeforeLeaving, InterruptScope
  <2>4. RequestTypeOK' /\ Unwinding'
    BY <1>1, <1>3 DEF RequestInv, RequestTypeOK, Unwinding
  <2> QED BY <1>1, <1>3, <2>1, <2>2, <2>3, <2>4 DEF RequestInv
<1>4. CASE stage = "unwinding" /\ UNCHANGED <<embeddingVars, stage, arm>>
  <2>1. ScopeStep /\ UNCHANGED <<scope, cache, provider, waiter, posts>>
    BY <1>4 DEF ScopeStep, embeddingVars
  <2>2. ArmsInStages' /\ ArmTypeOK'
    BY <1>1, <1>4, <2>1 DEF RequestInv, ArmsInStages, ArmTypeOK, ArmRecord, ArmsDone
  <2>3. ScopeFollowsStage' /\ TasksHaveCallers' /\ SettledBeforeLeaving'
    BY <1>1, <1>4, <2>1 DEF RequestInv, ScopeFollowsStage, TasksHaveCallers, SettledBeforeLeaving
  <2>4. RequestTypeOK' /\ Unwinding'
    BY <1>1, <1>4 DEF RequestInv, RequestTypeOK, Unwinding
  <2> QED BY <2>1, <2>2, <2>3, <2>4 DEF RequestInv
<1> QED BY <1>2, <1>3, <1>4 DEF Cancel

LEMMA ReturnInv ==
    ASSUME Inv, RequestInv, Return
    PROVE  RequestInv' /\ ScopeStep
<1> USE DEF Retrieving, Running
<1>1. /\ stage = "closing" /\ stage' = "returned" /\ CloseScope
      /\ UNCHANGED <<settings, outcome, query, terms, rounds, arm, cancels>>
  BY DEF Return
<1>2. ScopeStep
  BY <1>1 DEF ScopeStep, EmbeddingNext
<1>3. scope' = "closed" /\ waiter' = waiter
  BY <1>1 DEF CloseScope
<1>4. RequestTypeOK' /\ ArmTypeOK'
  BY <1>1 DEF RequestInv, RequestTypeOK, ArmTypeOK, ArmRecord
<1>5. ArmsInStages' /\ ScopeFollowsStage' /\ TasksHaveCallers' /\ SettledBeforeLeaving'
  BY <1>1, <1>3 DEF RequestInv, ArmsInStages, ArmsDone, ScopeFollowsStage, TasksHaveCallers,
                    SettledBeforeLeaving
<1> QED BY <1>1, <1>2, <1>4, <1>5 DEF RequestInv, Unwinding

\* The provider's turns: no task appears, and a caller stops waiting for a
\* text only when its task is settled.
LEMMA ProviderInv ==
    ASSUME Inv, RequestInv, Provider
    PROVE  RequestInv' /\ ScopeStep
<1> USE DEF Retrieving, Running
<1>1. PICK t \in Text : ProviderStep(t)
  BY DEF Provider
<1>2. UNCHANGED <<settings, stage, outcome, query, terms, rounds, arm, cancels>>
  BY DEF Provider, requestVars
<1>3. ScopeStep
  BY <1>1 DEF ScopeStep, EmbeddingNext
<1>4. NoTask.state = "none"
  BY DEF NoTask
<1>5. /\ scope' = scope
      /\ provider[t] # NoTask
      /\ \A u \in Text : provider'[u] # NoTask => provider[u] # NoTask
      /\ \A a \in Caller : waiter'[a].state # "idle" => waiter[a].state # "idle"
      /\ \A a \in Caller : waiter[a].state = "waiting" =>
           waiter'[a] = waiter[a] \/ (waiter[a].text = t /\ provider'[t] = NoTask)
  <2>1. CASE Settle(t)
    <3>1. /\ scope' = scope /\ provider[t].state \in Ended
          /\ \A u \in Text : provider'[u] = IF u = t THEN NoTask ELSE provider[u]
      BY <2>1 DEF Settle, Inv, EmbeddingTypeOK
    <3>2. \A a \in Caller : /\ waiter[a] \in WaiterRecord
                            /\ waiter'[a] = IF waiter[a] = [state |-> "waiting", text |-> t]
                                            THEN [waiter[a] EXCEPT !.state = provider[t].state]
                                            ELSE waiter[a]
      BY <2>1 DEF Settle, Inv, EmbeddingTypeOK, WaiterRecord
    <3>3. provider[t] # NoTask
      BY <1>4, <3>1 DEF Ended
    <3>4. \A a \in Caller : waiter'[a] = waiter[a]
                            \/ (waiter[a].state = "waiting" /\ waiter[a].text = t)
      <4> SUFFICES ASSUME NEW a \in Caller, waiter'[a] # waiter[a]
                   PROVE  waiter[a].state = "waiting" /\ waiter[a].text = t
        OBVIOUS
      <4>1. waiter[a] = [state |-> "waiting", text |-> t]
        BY <3>2
      <4> QED BY <4>1
    <3> QED BY <3>1, <3>3, <3>4
  <2>2. CASE ~ Settle(t)
    <3>1. /\ UNCHANGED <<scope, cache, waiter>>
          /\ provider[t].state # "none"
          /\ \E task \in TaskRecord :
               /\ provider' = [provider EXCEPT ![t] = task]
               /\ task.state # "none"
      BY <1>1, <2>2, TaskMoves DEF ProviderStep
    <3>2. \A u \in Text : u # t => provider'[u] = provider[u]
      BY <3>1
    <3> QED BY <1>4, <3>1, <3>2
  <2> QED BY <2>1, <2>2
<1>6. TasksHaveCallers'
  <2> SUFFICES ASSUME stage \in Running, NEW u \in Text, provider'[u] # NoTask
               PROVE  \E a \in Caller : waiter'[a].state = "waiting" /\ waiter'[a].text = u
    BY <1>2 DEF TasksHaveCallers
  <2>1. PICK a \in Caller : waiter[a].state = "waiting" /\ waiter[a].text = u
    BY <1>5 DEF RequestInv, TasksHaveCallers
  <2> QED BY <1>5, <2>1
<1>7. SettledBeforeLeaving' /\ Unwinding'
  BY <1>2, <1>5 DEF RequestInv, SettledBeforeLeaving, Unwinding
<1>8. ArmsInStages' /\ ScopeFollowsStage'
  BY <1>2, <1>5 DEF RequestInv, ArmsInStages, ArmsDone, ScopeFollowsStage
<1>9. RequestTypeOK' /\ ArmTypeOK'
  BY <1>2 DEF RequestInv, RequestTypeOK, ArmTypeOK, ArmRecord
<1> QED BY <1>2, <1>3, <1>6, <1>7, <1>8, <1>9 DEF RequestInv

LEMMA StutterInv ==
    ASSUME Inv, RequestInv, UNCHANGED vars
    PROVE  RequestInv' /\ ScopeStep
<1>1. UNCHANGED embeddingVars
      /\ UNCHANGED <<settings, stage, outcome, query, terms, rounds, arm, cancels>>
  BY DEF vars, requestVars
<1> QED BY <1>1 DEF ScopeStep, RequestInv, RequestTypeOK, ArmTypeOK, ArmRecord, ArmsInStages,
                    ArmsDone, ScopeFollowsStage, TasksHaveCallers, Unwinding, SettledBeforeLeaving,
                    embeddingVars

LEMMA RequestNext ==
    ASSUME Inv, RequestInv, [Next]_vars
    PROVE  RequestInv' /\ ScopeStep
<1>1. CASE RequestStep
  BY <1>1, StageStepInv, ArmStepInv, MoveInv, SiblingInv, LeaveInv, ReturnInv DEF RequestStep
<1>2. CASE Cancel
  BY <1>2, CancelInv
<1>3. CASE Provider
  BY <1>3, ProviderInv
<1>4. CASE Finished \/ UNCHANGED vars
  BY <1>4, StutterInv DEF Finished
<1> QED BY <1>1, <1>2, <1>3, <1>4 DEF Next

LEMMA RequestHolds == Spec => [](Inv /\ RequestInv)
<1>1. Init => Inv /\ RequestInv
  BY InitInv, RequestInit DEF Init
<1>2. (Inv /\ RequestInv) /\ [Next]_vars => (Inv /\ RequestInv)'
  BY RequestNext, NextInv DEF ScopeStep
<1> QED BY <1>1, <1>2, PTL DEF Spec

-----------------------------------------------------------------------------
\* The request, its arms and the scope stay well typed: neither ladder of
\* attempts runs over its limit (_call, _retry).
THEOREM TypeCorrect == Spec => []TypeOK
<1>1. Inv /\ RequestInv => TypeOK
  BY DEF Inv, RequestInv, RequestTypeOK, ArmTypeOK, ArmRecord, TypeOK
<1> QED BY <1>1, RequestHolds, PTL

\* The expert plugin uses the scope as QueryEmbeddings allows: no arm asks
\* while it waits, the scope is left once and closed after its last task
\* (ExpertPlugin.handle).  What is proved of the scope holds of a request.
THEOREM RequestUsesScope == Spec => EmbeddingSpec
<1>1. Init => EmbeddingInit
  BY DEF Init
<1>2. Inv /\ RequestInv /\ [Next]_vars => [EmbeddingNext]_embeddingVars
  BY RequestNext DEF ScopeStep
<1> QED BY <1>1, <1>2, RequestHolds, PTL DEF Spec, EmbeddingSpec

\* No arm of a request loses the task it waits for (_embed_query).
THEOREM ArmsHaveATask == Spec => []WaitersHaveATask
BY RequestUsesScope, NoLostCaller, PTL

\* A request implements the memo: no text is asked for that is known or
\* pending, whatever stages it went through (query_embedding_scope).
THEOREM RequestImplementsMemo == Spec => MemoSpec
BY RequestUsesScope, ScopeImplementsMemo, PTL

\* A request whose retrievals ran to their end leaves the scope with every
\* provider task settled: neither a failed arm nor a fallback abandons one
\* (retrieve, _retrieve_context), and no model call that fails afterwards finds
\* one.  What a cancellation or a node failing beside the retrieve node abandons
\* is the subject of QuietOnceLeft.
THEOREM NothingToCleanUp == Spec => []SettledBeforeLeaving
<1>1. RequestInv => SettledBeforeLeaving
  BY DEF RequestInv
<1> QED BY <1>1, RequestHolds, PTL
-----------------------------------------------------------------------------
(* What a request sends to the provider.                                   *)

\* The text an arm of the present retrieval asks for.
ArmText(a) == IF a = "primary" THEN query ELSE terms

\* An arm has met, or is about to meet, an embedding of t that failed.
Failing(t) ==
    \E a \in Caller : /\ ArmText(a) = t
                      /\ \/ arm[a].result = "embeddingError"
                         \/ waiter[a].state \in {"failed", "cancelled"}

\* What an arm waits for is its text; its result comes last; routing asks by
\* meaning only, and where the lexical arm was asked the flat stage asks it too.
ArmsAsk ==
    /\ \A a \in Caller : waiter[a].state # "idle" => waiter[a].text = ArmText(a)
    /\ \A a \in Caller : arm[a].state # "done" => arm[a].result = "none"
    /\ stage = "routing" => arm["lexical"].state = "idle" /\ waiter["lexical"].state = "idle"
    /\ arm["lexical"].state # "idle" => "lexical" \in ArmsOf("flat", terms)
    /\ stage \in Running \ Retrieving => \A a \in Caller : arm[a].result # "embeddingError"

\* What of a second ladder may be spent: everything once the flat stage began.
Allowance == IF stage \in Running \ {"flat"} THEN 0 ELSE MaxAttempts

\* What has been spent on a text, by the state of its entry: a text that was
\* sent and has no entry has failed in this very stage.
Spent(t) ==
    /\ posts[t] <= 2 * MaxAttempts
    /\ t \in Oversized => posts[t] = 0 /\ provider[t].state \notin {"posting", "sleeping"}
    /\ provider[t].state = "created" => provider[t].attempt = 0
    /\ provider[t] # NoTask => posts[t] <= provider[t].attempt + Allowance
    /\ cache[t] = "none" => posts[t] <= MaxAttempts + Allowance
    /\ cache[t] = "none" /\ stage \in Running /\ posts[t] > 0 => Failing(t)

BudgetInv ==
    /\ ArmsAsk
    /\ \A t \in Text : Spent(t)
    /\ scope # "open" => \A t \in Text : Live(t) => provider[t].cancelling

LEMMA AllowanceType == Allowance \in Nat /\ Allowance <= MaxAttempts /\ MaxAttempts \in Nat
BY ProviderAssumption DEF Allowance

LEMMA BudgetInit == Init => BudgetInv
<1> SUFFICES ASSUME Init PROVE BudgetInv
  OBVIOUS
<1> USE DEF Init, EmbeddingInit
<1>1. \A a \in Caller : arm[a] = IdleArm /\ waiter[a] = NotWaiting
  OBVIOUS
<1>2. ArmsAsk
  BY <1>1, ExpertAssumption DEF ArmsAsk, IdleArm, NotWaiting
<1>3. ASSUME NEW t \in Text PROVE Spent(t)
  <2>1. posts[t] = 0 /\ provider[t] = NoTask /\ provider[t].state = "none"
    BY DEF NoTask
  <2> QED BY <2>1, AllowanceType DEF Spent
<1> QED BY <1>2, <1>3 DEF BudgetInv

\* At the beginning of a stage a text was sent and has no entry only where the
\* lexical arm of the detail stage failed on it, and then it is asked again.
LEMMA HiddenFailure ==
    ASSUME Inv, RequestInv, BudgetInv, NEW s \in Retrieving, NEW q, NEW l,
           \/ Retrieve /\ s # "detail"
           \/ (Routed \/ FallBack) /\ q = query /\ l = terms /\ (s = "detail" => Routed)
              /\ (s = "flat" => FallBack) /\ s # "routing",
           NEW t \in Text, cache[t] = "none", posts[t] > 0
    PROVE  /\ s = "flat" /\ posts[t] <= MaxAttempts
           /\ "lexical" \in ArmsOf(s, l) /\ l = t
<1> USE DEF Retrieving, Running
<1>1. stage \in Running /\ ArmsDone
  BY DEF Retrieve, Routed, FallBack, RequestInv, ArmsInStages
<1>2. \A a \in Caller : waiter[a].state = "idle"
  BY <1>1, QuietWhenDone
<1>3. PICK a \in Caller : ArmText(a) = t /\ arm[a].result = "embeddingError"
  BY <1>1, <1>2 DEF BudgetInv, Spent, Failing
<1>4. arm[a].state = "done"
  BY <1>3 DEF BudgetInv, ArmsAsk
<1>5. FallBack /\ s = "flat" /\ l = terms
  <2>1. ~ Retrieve
    BY <1>3 DEF Retrieve, BudgetInv, ArmsAsk
  <2>2. ~ Routed
    BY <1>3, ExpertAssumption DEF Routed, Found, Raised, Errors
  <2> QED BY <2>1, <2>2
<1>6. a = "lexical"
  BY <1>3, <1>5, ExpertAssumption DEF FallBack, Raised, Errors
<1>7. stage = "detail"
  BY <1>4, <1>5, <1>6 DEF FallBack, BudgetInv, ArmsAsk
<1>8. terms = t
  BY <1>3, <1>6 DEF ArmText
<1>9. "lexical" \in ArmsOf("flat", terms)
  BY <1>4, <1>6 DEF BudgetInv, ArmsAsk
<1>10. posts[t] <= MaxAttempts
  <2>1. posts[t] <= MaxAttempts + Allowance
    BY DEF BudgetInv, Spent
  <2>2. Allowance = 0
    BY <1>7 DEF Allowance
  <2>3. posts[t] \in Nat
    BY DEF Inv, EmbeddingTypeOK
  <2> QED BY <2>1, <2>2, <2>3, AllowanceType
<1> QED BY <1>5, <1>8, <1>9, <1>10

\* A stage begins on what was left.
LEMMA StageBudget ==
    ASSUME Inv, RequestInv, BudgetInv, Retrieve \/ Routed \/ FallBack
    PROVE  BudgetInv'
<1> USE DEF Retrieving, Running
<1>1. stage \in Running /\ ArmsDone
  BY DEF Retrieve, Routed, FallBack, RequestInv, ArmsInStages
<1>2. PICK s \in Retrieving, q \in Text, l \in Text \cup {NoText} :
        /\ StartStage(s, q, l) /\ query' = q /\ terms' = l /\ settings' = settings
        /\ \/ Retrieve /\ s # "detail"
           \/ (Routed \/ FallBack) /\ q = query /\ l = terms /\ (s = "detail" => Routed)
              /\ (s = "flat" => FallBack) /\ s # "routing"
  <2>1. CASE Retrieve
    <3>1. PICK q \in Text, l \in Text \cup {NoText} :
            /\ query' = q /\ terms' = l
            /\ StartStage(IF settings.hierarchical THEN "routing" ELSE "flat", q, l)
      BY <2>1 DEF Retrieve
    <3>2. settings' = settings
      BY <2>1 DEF Retrieve
    <3>3. /\ (IF settings.hierarchical THEN "routing" ELSE "flat") \in Retrieving
          /\ (IF settings.hierarchical THEN "routing" ELSE "flat") # "detail"
      OBVIOUS
    <3> QED BY <2>1, <3>1, <3>2, <3>3
  <2>2. CASE Routed
    <3>1. query \in Text /\ terms \in Text \cup {NoText}
      BY <2>2 DEF Routed, RequestInv, RequestTypeOK, ArmsInStages
    <3>2. StartStage("detail", query, terms) /\ query' = query /\ terms' = terms
          /\ settings' = settings
      BY <2>2 DEF Routed
    <3> QED BY <2>2, <3>1, <3>2
  <2>3. CASE FallBack
    <3>1. query \in Text /\ terms \in Text \cup {NoText}
      BY <2>3 DEF FallBack, RequestInv, RequestTypeOK, ArmsInStages
    <3>2. StartStage("flat", query, terms) /\ query' = query /\ terms' = terms
          /\ settings' = settings
      BY <2>3 DEF FallBack
    <3> QED BY <2>3, <3>1, <3>2
  <2> QED BY <2>1, <2>2, <2>3
<1> DEFINE C == ArmsOf(s, l)
           text == [a \in C |-> IF a = "primary" THEN q ELSE l]
           fresh == {t \in {text[c] : c \in C} : cache[t] = "none"}
<1>3. C \subseteq Caller /\ C # {} /\ ("lexical" \in C => "lexical" \in ArmsOf("flat", l))
      /\ (s = "routing" => "lexical" \notin C)
  BY ExpertAssumption DEF ArmsOf
<1>4. \A a \in Caller : arm'[a] = IF a \in C THEN [IdleArm EXCEPT !.state = "embedding"] ELSE IdleArm
  BY <1>2 DEF StartStage
<1>5. /\ scope = "open" /\ scope' = scope /\ posts' = posts /\ stage' = s
      /\ \A a \in Caller : waiter'[a] = IF a \in C
             THEN [state |-> Meets(text[a]), text |-> text[a]] ELSE waiter[a]
      /\ \A t \in Text : provider'[t] = IF t \in fresh THEN NewTask ELSE provider[t]
      /\ \A t \in Text : cache'[t] = IF t \in fresh THEN "task" ELSE cache[t]
  BY <1>2 DEF StartStage, EmbedQueries
<1>6. \A a \in C : text[a] = IF a = "primary" THEN q ELSE l
  OBVIOUS
<1>7. ("lexical" \in ArmsOf("flat", l)) => ("lexical" \in ArmsOf("flat", terms))'
  BY <1>2 DEF ArmsOf
<1>8. /\ \A a \in Caller : waiter[a].state = "idle"
      /\ \A t \in Text : provider[t] = NoTask
  BY <1>1, QuietWhenDone
<1>9. [IdleArm EXCEPT !.state = "embedding"]
        = [state |-> "embedding", attempt |-> 0, result |-> "none"]
  BY DEF IdleArm
<1>10. ASSUME NEW t \in Text, cache[t] = "none", posts[t] > 0
       PROVE  s = "flat" /\ posts[t] <= MaxAttempts /\ t \in fresh
  <2>1. s = "flat" /\ posts[t] <= MaxAttempts /\ "lexical" \in ArmsOf(s, l) /\ l = t
    BY <1>2, <1>10, HiddenFailure
  <2>2. "lexical" \in C /\ text["lexical"] = t
    BY <1>6, <2>1
  <2> QED BY <1>10, <2>1, <2>2
<1> HIDE DEF C, text, fresh
<1>11. ArmsAsk'
  <2>1. \A a \in Caller : waiter'[a].state # "idle" => waiter'[a].text = ArmText(a)'
    <3> SUFFICES ASSUME NEW a \in Caller, waiter'[a].state # "idle"
                 PROVE  waiter'[a].text = ArmText(a)'
      OBVIOUS
    <3>1. a \in C
      BY <1>5, <1>8
    <3>2. waiter'[a] = [state |-> Meets(text[a]), text |-> text[a]]
      BY <1>5, <3>1
    <3>3. waiter'[a].text = text[a]
      BY <3>2
    <3> QED BY <1>2, <1>6, <3>1, <3>3 DEF ArmText
  <2>2. \A a \in Caller : arm'[a].state # "done" /\ arm'[a].result = "none"
                          /\ (a \notin C => arm'[a].state = "idle" /\ waiter'[a].state = "idle")
    <3>1. \A a \in Caller : a \notin C => waiter'[a].state = "idle"
      BY <1>5, <1>8
    <3> QED BY <1>4, <1>9, <3>1 DEF IdleArm
  <2>3. "lexical" \in Caller
    BY ExpertAssumption
  <2> QED BY <1>3, <1>5, <1>7, <2>1, <2>2, <2>3 DEF ArmsAsk
<1>12. ASSUME NEW t \in Text PROVE Spent(t)'
  <2>1. posts[t] \in Nat /\ posts[t] <= 2 * MaxAttempts /\ (t \in Oversized => posts[t] = 0)
    BY DEF BudgetInv, Spent, Inv, EmbeddingTypeOK
  <2>2. Allowance' = (IF s = "flat" THEN MaxAttempts ELSE 0) /\ MaxAttempts \in Nat
    BY <1>5, ProviderAssumption DEF Allowance
  <2>3. CASE t \in fresh
    <3>1. cache[t] = "none" /\ cache'[t] = "task" /\ provider'[t] = NewTask
      BY <1>5, <2>3 DEF fresh
    <3>2. posts[t] <= Allowance'
      BY <1>10, <2>1, <2>2, <3>1
    <3>3. provider'[t].attempt = 0 /\ provider'[t].state = "created"
      BY <3>1 DEF NewTask
    <3> QED BY <1>5, <2>1, <2>2, <3>1, <3>2, <3>3 DEF Spent
  <2>4. CASE t \notin fresh
    <3>1. cache'[t] = cache[t] /\ provider'[t] = NoTask /\ provider'[t].state = "none"
      BY <1>5, <1>8, <2>4 DEF NoTask
    <3>2. cache[t] = "none" => posts[t] = 0
      BY <1>10, <2>1, <2>4
    <3> QED BY <1>5, <2>1, <2>2, <3>1, <3>2 DEF Spent
  <2> QED BY <2>3, <2>4
<1> QED BY <1>5, <1>11, <1>12 DEF BudgetInv

\* An arm goes on: what failed for it stays failed.
LEMMA ArmBudget ==
    ASSUME Inv, RequestInv, BudgetInv, NEW a \in Caller, VectorsArrive(a) \/ StoreAttempt(a)
    PROVE  BudgetInv'
<1>1. /\ UNCHANGED <<settings, stage, query, terms>> /\ UNCHANGED <<scope, cache, provider, posts>>
  BY DEF VectorsArrive, StoreAttempt, Resume, embeddingVars
<1>2. /\ arm[a].state \in {"embedding", "store"} /\ arm[a].result = "none"
      /\ arm \in [Caller -> ArmRecord] /\ waiter \in [Caller -> WaiterRecord]
  BY DEF VectorsArrive, StoreAttempt, BudgetInv, ArmsAsk, RequestInv, ArmTypeOK, Inv,
         EmbeddingTypeOK, WaiterRecord
<1>3. /\ \A b \in Caller : b # a => arm'[b] = arm[b] /\ waiter'[b] = waiter[b]
      /\ waiter'[a].state = "idle"
      /\ arm'[a].state # "done" => arm'[a].result = "none"
      /\ waiter[a].state \in {"failed", "cancelled"} => arm'[a].result = "embeddingError"
  <2>1. CASE VectorsArrive(a)
    BY <1>2, <2>1 DEF VectorsArrive, Resume, NotWaiting
  <2>2. CASE StoreAttempt(a)
    <3>1. waiter[a].state = "idle" /\ waiter' = waiter
      BY <2>2 DEF StoreAttempt, RequestInv, ArmsInStages, embeddingVars
    <3>2. CASE \E r \in {"hits", "empty", "storeError"} : ArmEnds(a, r)
      BY <1>2, <3>1, <3>2 DEF ArmEnds
    <3>3. CASE arm' = [arm EXCEPT ![a].attempt = @ + 1]
      BY <1>2, <3>1, <3>3 DEF ArmRecord
    <3> QED BY <2>2, <3>2, <3>3 DEF StoreAttempt
  <2> QED BY <2>1, <2>2
<1>4. stage \in Retrieving
  BY <1>2 DEF RequestInv, ArmsInStages, ArmsDone
<1>5. ArmsAsk'
  <2>1. stage = "routing" => a # "lexical"
    BY <1>2 DEF BudgetInv, ArmsAsk
  <2>2. \A b \in Caller : waiter'[b].state # "idle" => waiter'[b].text = ArmText(b)'
    BY <1>1, <1>3 DEF BudgetInv, ArmsAsk, ArmText
  <2>3. \A b \in Caller : arm'[b].state # "done" => arm'[b].result = "none"
    BY <1>3 DEF BudgetInv, ArmsAsk
  <2>4. arm'["lexical"].state # "idle" => ("lexical" \in ArmsOf("flat", terms))'
    BY <1>1, <1>2, <1>3, ExpertAssumption DEF BudgetInv, ArmsAsk, ArmsOf
  <2> QED BY <1>1, <1>3, <1>4, <2>1, <2>2, <2>3, <2>4, ExpertAssumption
          DEF BudgetInv, ArmsAsk, Running, Retrieving
<1>6. ASSUME NEW t \in Text PROVE Spent(t)'
  <2>1. Failing(t) => Failing(t)'
    <3> SUFFICES ASSUME Failing(t) PROVE Failing(t)'
      OBVIOUS
    <3>1. PICK b \in Caller : /\ ArmText(b) = t
                              /\ \/ arm[b].result = "embeddingError"
                                 \/ waiter[b].state \in {"failed", "cancelled"}
      BY DEF Failing
    <3>2. \/ arm'[b].result = "embeddingError"
          \/ waiter'[b].state \in {"failed", "cancelled"}
      BY <1>2, <1>3, <3>1
    <3>3. ArmText(b)' = t
      BY <1>1, <3>1 DEF ArmText
    <3> QED BY <3>2, <3>3 DEF Failing
  <2>2. Allowance' = Allowance
    BY <1>1 DEF Allowance
  <2> QED BY <1>1, <2>1, <2>2 DEF BudgetInv, Spent
<1> QED BY <1>1, <1>5, <1>6 DEF BudgetInv, Live

\* A retrieval ends well, or there is none.
LEMMA MoveBudget ==
    ASSUME Inv, RequestInv, BudgetInv, SkipRetrieval \/ Retrieved
    PROVE  BudgetInv'
<1> USE DEF Retrieving, Running
<1>1. /\ stage' = "answering" /\ stage \in Running /\ ArmsDone
      /\ UNCHANGED <<settings, query, terms, arm>>
      /\ UNCHANGED <<scope, cache, provider, waiter, posts>>
  BY DEF SkipRetrieval, Retrieved, RequestInv, ArmsInStages, embeddingVars
<1>2. /\ \A a \in Caller : waiter[a].state = "idle"
      /\ \A t \in Text : provider[t] = NoTask
  BY <1>1, QuietWhenDone
<1>3. \A a \in Caller : arm[a].result # "embeddingError"
  <2>1. CASE SkipRetrieval
    BY <2>1 DEF SkipRetrieval, BudgetInv, ArmsAsk
  <2>2. CASE Retrieved
    BY <2>2, ExpertAssumption DEF Retrieved, Found, Raised, Errors
  <2> QED BY <2>1, <2>2
<1>4. ArmsAsk'
  BY <1>1, <1>2, <1>3 DEF BudgetInv, ArmsAsk, ArmText, ArmsOf
<1>5. ASSUME NEW t \in Text PROVE Spent(t)'
  <2>1. posts[t] \in Nat /\ posts[t] <= 2 * MaxAttempts /\ (t \in Oversized => posts[t] = 0)
    BY DEF BudgetInv, Spent, Inv, EmbeddingTypeOK
  <2>2. ~ Failing(t)
    BY <1>2, <1>3 DEF Failing
  <2>3. cache[t] = "none" => posts[t] = 0
    BY <1>1, <2>1, <2>2 DEF BudgetInv, Spent
  <2>4. provider'[t] = NoTask /\ provider'[t].state = "none"
    BY <1>1, <1>2 DEF NoTask
  <2>5. Allowance' = 0 /\ MaxAttempts \in Nat
    BY <1>1, ProviderAssumption DEF Allowance
  <2> QED BY <1>1, <2>1, <2>3, <2>4, <2>5 DEF Spent
<1> QED BY <1>1, <1>4, <1>5 DEF BudgetInv, Live

\* The request leaves the scope or is cut short: nothing is sent, and what is
\* under way may go on to the end of its ladder.
LEMMA LeaveBudget ==
    ASSUME Inv, RequestInv, BudgetInv,
           RetrievalFails \/ SiblingFails \/ Answer \/ Unwind \/ Cancel
    PROVE  BudgetInv'
<1> USE DEF Retrieving, Running
<1>1. /\ stage' \in {"unwinding", "closing"} /\ UNCHANGED <<settings, query, terms, cache, posts>>
      /\ \A a \in Caller : waiter'[a] \in {waiter[a], NotWaiting}
      /\ arm' = arm \/ arm' = [a \in Caller |-> IdleArm]
  BY DEF RetrievalFails, SiblingFails, Abandon, Answer, Unwind, Cancel, Leave, LeaveScope,
         CancelCallers, InterruptScope, embeddingVars, Inv, EmbeddingTypeOK
<1>2. /\ \A t \in Text : /\ provider'[t].state = provider[t].state
                         /\ provider'[t].attempt = provider[t].attempt
                         /\ provider'[t] # NoTask => provider[t] # NoTask
      /\ scope' # "open" => \A t \in Text : Live(t)' => provider'[t].cancelling
  <2>1. \A t \in Text : provider[t] \in TaskRecord
    BY DEF Inv, EmbeddingTypeOK, TaskRecord
  <2>2. CASE LeaveScope
    <3>1. \A t \in Text : provider'[t] = IF Live(t) THEN [provider[t] EXCEPT !.cancelling = TRUE]
                                          ELSE provider[t]
      BY <2>2 DEF LeaveScope
    <3>2. \A t \in Text : Live(t) => provider[t] # NoTask
      BY DEF Live, NoTask
    <3>3. \A t \in Text : /\ provider'[t].state = provider[t].state
                          /\ provider'[t].attempt = provider[t].attempt
      BY <2>1, <3>1 DEF TaskRecord
    <3>4. ASSUME NEW t \in Text, Live(t)' PROVE provider'[t].cancelling
      <4>1. Live(t)
        BY <3>3, <3>4 DEF Live
      <4> QED BY <2>1, <3>1, <4>1 DEF TaskRecord
    <3> QED BY <3>1, <3>2, <3>3, <3>4
  <2>3. CASE CancelCallers(Caller) \/ InterruptScope \/ UNCHANGED embeddingVars
    <3>1. provider' = provider /\ (scope' # "open" => scope # "open")
      BY <2>3 DEF CancelCallers, InterruptScope, embeddingVars
    <3> QED BY <3>1 DEF BudgetInv, Live
  <2> QED BY <2>2, <2>3 DEF RetrievalFails, SiblingFails, Abandon, Answer, Unwind, Cancel, Leave
<1>3. ArmsAsk'
  <2>1. \A a \in Caller : waiter'[a].state # "idle" => waiter'[a].text = ArmText(a)'
    BY <1>1 DEF BudgetInv, ArmsAsk, ArmText, NotWaiting
  <2>2. /\ \A a \in Caller : arm'[a].state # "done" => arm'[a].result = "none"
        /\ arm'["lexical"].state # "idle" => ("lexical" \in ArmsOf("flat", terms))'
    BY <1>1, ExpertAssumption DEF BudgetInv, ArmsAsk, ArmsOf, IdleArm
  <2> QED BY <1>1, <2>1, <2>2 DEF ArmsAsk
<1>4. ASSUME NEW t \in Text PROVE Spent(t)'
  <2>1. Allowance' = MaxAttempts
    BY <1>1 DEF Allowance
  <2>2. /\ posts[t] \in Nat /\ provider[t].attempt \in Nat /\ posts[t] <= 2 * MaxAttempts
        /\ t \in Oversized => posts[t] = 0 /\ provider[t].state \notin {"posting", "sleeping"}
        /\ provider[t] # NoTask => posts[t] <= provider[t].attempt + Allowance
        /\ provider[t].state = "created" => provider[t].attempt = 0
    BY DEF BudgetInv, Spent, Inv, EmbeddingTypeOK
  <2>3. provider'[t] # NoTask => posts'[t] <= provider'[t].attempt + MaxAttempts
    BY <1>1, <1>2, <2>2, AllowanceType
  <2> QED BY <1>1, <1>2, <2>1, <2>2, <2>3, AllowanceType DEF Spent
<1> QED BY <1>2, <1>3, <1>4 DEF BudgetInv

LEMMA ReturnBudget ==
    ASSUME Inv, RequestInv, BudgetInv, Return
    PROVE  BudgetInv'
<1> USE DEF Retrieving, Running
<1>1. /\ stage' = "returned" /\ UNCHANGED <<settings, query, terms, arm, waiter, provider, posts>>
      /\ \A t \in Text : provider[t] = NoTask
  BY DEF Return, CloseScope
<1>2. ArmsAsk'
  BY <1>1 DEF BudgetInv, ArmsAsk, ArmText, ArmsOf
<1>3. ASSUME NEW t \in Text PROVE Spent(t)'
  <2>1. posts[t] \in Nat /\ posts[t] <= 2 * MaxAttempts /\ (t \in Oversized => posts[t] = 0)
    BY DEF BudgetInv, Spent, Inv, EmbeddingTypeOK
  <2>2. Allowance' = MaxAttempts /\ MaxAttempts \in Nat
    BY <1>1, ProviderAssumption DEF Allowance
  <2>3. provider'[t] = NoTask /\ provider'[t].state = "none"
    BY <1>1 DEF NoTask
  <2> QED BY <1>1, <2>1, <2>2, <2>3 DEF Spent
<1>4. \A t \in Text : ~ Live(t)'
  BY <1>1 DEF Live, NoTask
<1> QED BY <1>2, <1>3, <1>4 DEF BudgetInv

\* A turn of a task that does not settle it: it sends once for each attempt
\* it counts, and nothing for an oversized text or once it is cancelled.
LEMMA TaskSends ==
    ASSUME Inv, BudgetInv, NEW t \in Text,
           \/ StartTask(t) \/ AttemptAnswered(t) \/ AttemptFails(t)
           \/ NextAttempt(t) \/ DeadlinePasses(t) \/ TaskCancelled(t)
    PROVE  /\ Live(t) /\ provider'[t].state # "created"
           /\ \/ posts' = posts /\ provider'[t].attempt = provider[t].attempt
              \/ /\ posts' = [posts EXCEPT ![t] = @ + 1]
                 /\ provider'[t].attempt = provider[t].attempt + 1
                 /\ t \notin Oversized /\ ~ provider[t].cancelling
           /\ t \in Oversized => provider'[t].state \notin {"posting", "sleeping"}
           /\ provider'[t].cancelling = provider[t].cancelling
           /\ \A u \in Text : u # t => provider'[u] = provider[u]
<1>1. provider \in [Text -> TaskRecord] /\ provider[t] \in TaskRecord
  BY DEF Inv, EmbeddingTypeOK, TaskRecord
<1>2. /\ t \in Oversized => provider[t].state \notin {"posting", "sleeping"}
      /\ provider[t].state = "created" => provider[t].attempt = 0
  BY DEF BudgetInv, Spent
<1>3. ASSUME NEW x, Becomes(t, x)
      PROVE  /\ provider'[t].state = x /\ provider'[t].attempt = provider[t].attempt
             /\ provider'[t].cancelling = provider[t].cancelling
             /\ \A u \in Text : u # t => provider'[u] = provider[u]
  BY <1>1, <1>3 DEF Becomes, TaskRecord
<1>4. ASSUME NEW n, Post(t, n)
      PROVE  /\ provider'[t].state = "posting" /\ provider'[t].attempt = n
             /\ provider'[t].cancelling = provider[t].cancelling
             /\ posts' = [posts EXCEPT ![t] = @ + 1]
             /\ \A u \in Text : u # t => provider'[u] = provider[u]
  BY <1>1, <1>4 DEF Post, TaskRecord
<1>5. CASE StartTask(t)
  <2>1. provider[t].state = "created" /\ ~ provider[t].cancelling
    BY <1>5 DEF StartTask
  <2>2. CASE t \in Oversized /\ Becomes(t, "failed") /\ UNCHANGED posts
    BY <1>3, <2>1, <2>2 DEF Live
  <2>3. CASE t \notin Oversized /\ Post(t, 1)
    <3>1. 1 = provider[t].attempt + 1
      BY <1>2, <2>1
    <3> QED BY <1>4, <2>1, <2>3, <3>1 DEF Live
  <2> QED BY <1>5, <2>2, <2>3 DEF StartTask
<1>6. CASE AttemptAnswered(t)
  BY <1>3, <1>6 DEF AttemptAnswered, Live
<1>7. CASE AttemptFails(t)
  <2>1. provider[t].state = "posting" /\ UNCHANGED posts
    BY <1>7 DEF AttemptFails
  <2>2. PICK x \in {"sleeping", "failed"} : Becomes(t, x)
    BY <1>7 DEF AttemptFails
  <2> QED BY <1>2, <1>3, <2>1, <2>2 DEF Live
<1>8. CASE NextAttempt(t)
  BY <1>2, <1>4, <1>8 DEF NextAttempt, Live
<1>9. CASE DeadlinePasses(t)
  BY <1>3, <1>9 DEF DeadlinePasses, Live
<1>10. CASE TaskCancelled(t)
  <2>1. Live(t) /\ Becomes(t, "cancelled") /\ posts' = posts
    BY <1>10 DEF TaskCancelled
  <2> QED BY <1>3, <2>1
<1> QED BY <1>5, <1>6, <1>7, <1>8, <1>9, <1>10

LEMMA TaskBudget ==
    ASSUME Inv, RequestInv, BudgetInv, UNCHANGED requestVars, NEW t \in Text,
           \/ StartTask(t) \/ AttemptAnswered(t) \/ AttemptFails(t)
           \/ NextAttempt(t) \/ DeadlinePasses(t) \/ TaskCancelled(t)
    PROVE  BudgetInv' /\ (scope # "open" => posts' = posts)
<1>1. UNCHANGED <<settings, stage, query, terms, arm>> /\ UNCHANGED <<scope, cache, waiter>>
  BY TaskMoves DEF requestVars
<1>2. /\ Live(t) /\ provider'[t].state # "created"
      /\ \/ posts' = posts /\ provider'[t].attempt = provider[t].attempt
         \/ /\ posts' = [posts EXCEPT ![t] = @ + 1]
            /\ provider'[t].attempt = provider[t].attempt + 1
            /\ t \notin Oversized /\ ~ provider[t].cancelling
      /\ t \in Oversized => provider'[t].state \notin {"posting", "sleeping"}
      /\ provider'[t].cancelling = provider[t].cancelling
      /\ \A u \in Text : u # t => provider'[u] = provider[u]
  BY TaskSends
<1>3. Allowance' = Allowance /\ \A u \in Text : Failing(u) => Failing(u)'
  BY <1>1 DEF Allowance, Failing, ArmText
<1>4. ArmsAsk'
  BY <1>1 DEF BudgetInv, ArmsAsk, ArmText, ArmsOf
<1>5. posts \in [Text -> Nat] /\ provider[t].attempt \in Nat
  BY DEF Inv, EmbeddingTypeOK
<1>6. ASSUME NEW u \in Text, u # t PROVE Spent(u)'
  <2>1. posts'[u] = posts[u] /\ provider'[u] = provider[u] /\ cache'[u] = cache[u]
    BY <1>1, <1>2, <1>5, <1>6
  <2> QED BY <1>1, <1>3, <2>1 DEF BudgetInv, Spent
<1>7. Spent(t)'
  <2>1. provider[t] # NoTask /\ cache'[t] = "task"
    BY <1>1, <1>2 DEF Live, NoTask, Inv, EntryIsTask
  <2>2. posts[t] <= provider[t].attempt + Allowance /\ (t \in Oversized => posts[t] = 0)
    BY <2>1 DEF BudgetInv, Spent
  <2>3. posts'[t] <= provider'[t].attempt + Allowance /\ (t \in Oversized => posts'[t] = 0)
        /\ posts'[t] \in Nat
    BY <1>2, <1>5, <2>2, AllowanceType
  <2>4. provider'[t].attempt \in 0 .. MaxAttempts
    <3>1. PICK task \in TaskRecord : provider' = [provider EXCEPT ![t] = task]
      BY TaskMoves
    <3>2. provider'[t] = task
      BY <3>1 DEF Inv, EmbeddingTypeOK
    <3> QED BY <3>1, <3>2 DEF TaskRecord
  <2>5. posts'[t] <= 2 * MaxAttempts
    BY <2>3, <2>4, AllowanceType
  <2> QED BY <1>2, <1>3, <2>1, <2>3, <2>5 DEF Spent
<1>8. scope' # "open" => \A u \in Text : Live(u)' => provider'[u].cancelling
  BY <1>1, <1>2 DEF BudgetInv, Live
<1>9. scope # "open" => posts' = posts
  BY <1>2 DEF BudgetInv
<1> QED BY <1>4, <1>6, <1>7, <1>8, <1>9 DEF BudgetInv

\* A task that is settled without vectors has failed an arm of this stage.
LEMMA SettleBudget ==
    ASSUME Inv, RequestInv, BudgetInv, UNCHANGED requestVars, NEW t \in Text, Settle(t)
    PROVE  BudgetInv'
<1>1. UNCHANGED <<settings, stage, query, terms, arm>> /\ UNCHANGED <<scope, posts>>
  BY DEF requestVars, Settle
<1>2. /\ provider[t].state \in Ended
      /\ \A u \in Text : provider'[u] = IF u = t THEN NoTask ELSE provider[u]
      /\ cache'[t] = IF provider[t].state = "vectors" THEN "vectors" ELSE "none"
      /\ \A u \in Text : u # t => cache'[u] = cache[u]
  BY DEF Settle, Inv, EmbeddingTypeOK
<1>3. \A a \in Caller : IF waiter[a] = [state |-> "waiting", text |-> t]
                         THEN waiter'[a] = [state |-> provider[t].state, text |-> t]
                         ELSE waiter'[a] = waiter[a]
  <2>1. \A a \in Caller : waiter'[a] = IF waiter[a] = [state |-> "waiting", text |-> t]
                                        THEN [waiter[a] EXCEPT !.state = provider[t].state]
                                        ELSE waiter[a]
    BY DEF Settle
  <2>2. [[state |-> "waiting", text |-> t] EXCEPT !.state = provider[t].state]
          = [state |-> provider[t].state, text |-> t]
    OBVIOUS
  <2> QED BY <2>1, <2>2
<1>4. \A a \in Caller :
         /\ (waiter'[a].state # "idle") => (waiter[a].state # "idle" /\ waiter'[a].text = waiter[a].text)
         /\ (waiter[a].state \in {"failed", "cancelled"}) => (waiter'[a] = waiter[a])
  <2> SUFFICES ASSUME NEW a \in Caller
               PROVE  /\ (waiter'[a].state # "idle")
                           => (waiter[a].state # "idle" /\ waiter'[a].text = waiter[a].text)
                      /\ (waiter[a].state \in {"failed", "cancelled"}) => (waiter'[a] = waiter[a])
    OBVIOUS
  <2>1. CASE waiter[a] = [state |-> "waiting", text |-> t]
    <3>1. waiter[a].state = "waiting" /\ waiter[a].text = t
      BY <2>1
    <3>2. waiter'[a] = [state |-> provider[t].state, text |-> t]
      BY <1>3, <2>1
    <3>3. waiter'[a].text = t
      BY <3>2
    <3> QED BY <3>1, <3>3
  <2>2. CASE waiter[a] # [state |-> "waiting", text |-> t]
    BY <1>3, <2>2
  <2> QED BY <2>1, <2>2
<1>5. ArmsAsk'
  <2>1. \A a \in Caller : waiter'[a].state # "idle" => waiter'[a].text = ArmText(a)'
    BY <1>1, <1>4 DEF BudgetInv, ArmsAsk, ArmText
  <2>2. stage' = "routing" => arm'["lexical"].state = "idle" /\ waiter'["lexical"].state = "idle"
    BY <1>1, <1>4, ExpertAssumption DEF BudgetInv, ArmsAsk
  <2>3. (\A a \in Caller : arm[a].state # "done" => arm[a].result = "none")'
    BY <1>1 DEF BudgetInv, ArmsAsk
  <2>4. (arm["lexical"].state # "idle" => "lexical" \in ArmsOf("flat", terms))'
    BY <1>1 DEF BudgetInv, ArmsAsk, ArmsOf
  <2>5. (stage \in Running \ Retrieving => \A a \in Caller : arm[a].result # "embeddingError")'
    BY <1>1 DEF BudgetInv, ArmsAsk
  <2> QED BY <2>1, <2>2, <2>3, <2>4, <2>5 DEF ArmsAsk
<1>6. Allowance' = Allowance
  BY <1>1 DEF Allowance
<1>7. ASSUME NEW u \in Text, u # t PROVE Spent(u)'
  <2>1. Failing(u) => Failing(u)'
    BY <1>1, <1>4 DEF Failing, ArmText
  <2>2. provider'[u] = provider[u] /\ cache'[u] = cache[u]
    BY <1>2, <1>7
  <2> QED BY <1>1, <1>6, <2>1, <2>2 DEF BudgetInv, Spent
<1>8. Spent(t)'
  <2>1. provider[t] # NoTask /\ provider'[t] = NoTask /\ provider'[t].state = "none"
    BY <1>2 DEF Ended, NoTask
  <2>2. /\ posts[t] <= 2 * MaxAttempts /\ (t \in Oversized => posts[t] = 0)
        /\ posts[t] <= provider[t].attempt + Allowance
    BY <2>1 DEF BudgetInv, Spent
  <2>3. posts[t] \in Nat /\ provider[t].attempt \in 0 .. MaxAttempts
    BY DEF Inv, EmbeddingTypeOK
  <2>4. posts[t] <= MaxAttempts + Allowance
    BY <2>2, <2>3, AllowanceType
  <2>5. ASSUME cache'[t] = "none", stage \in Running PROVE Failing(t)'
    <3>1. provider[t].state \in {"failed", "cancelled"}
      BY <1>2, <2>5 DEF Ended
    <3>2. PICK a \in Caller : waiter[a].state = "waiting" /\ waiter[a].text = t
      BY <2>1, <2>5 DEF RequestInv, TasksHaveCallers
    <3>3. waiter[a] = [state |-> "waiting", text |-> t]
      BY <3>2 DEF Inv, EmbeddingTypeOK
    <3>4. waiter'[a] = [state |-> provider[t].state, text |-> t]
      BY <1>3, <3>3
    <3>5. waiter'[a].state \in {"failed", "cancelled"}
      BY <3>1, <3>4
    <3>6. ArmText(a) = t
      BY <3>2 DEF BudgetInv, ArmsAsk
    <3>7. ArmText(a)' = t
      BY <1>1, <3>6 DEF ArmText
    <3> QED BY <3>5, <3>7 DEF Failing
  <2> QED BY <1>1, <1>6, <2>1, <2>2, <2>4, <2>5 DEF Spent
<1>9. scope' # "open" => \A u \in Text : Live(u)' => provider'[u].cancelling
  BY <1>1, <1>2 DEF BudgetInv, Live, NoTask
<1> QED BY <1>5, <1>7, <1>8, <1>9 DEF BudgetInv

LEMMA BudgetStutter ==
    ASSUME BudgetInv, UNCHANGED vars
    PROVE  BudgetInv' /\ posts' = posts
<1>1. UNCHANGED <<settings, stage, query, terms, arm>>
      /\ UNCHANGED <<scope, cache, provider, waiter, posts>>
  BY DEF vars, requestVars, embeddingVars
<1>2. ArmsAsk' /\ Allowance' = Allowance
  BY <1>1 DEF BudgetInv, ArmsAsk, ArmText, ArmsOf, Allowance
<1>3. \A t \in Text : Failing(t) => Failing(t)'
  BY <1>1 DEF Failing, ArmText
<1>4. \A t \in Text : Spent(t)'
  BY <1>1, <1>2, <1>3 DEF BudgetInv, Spent
<1> QED BY <1>1, <1>2, <1>4 DEF BudgetInv, Live

\* Every step stays within the budget, and only an open scope sends.
LEMMA BudgetNext ==
    ASSUME Inv, RequestInv, BudgetInv, [Next]_vars
    PROVE  BudgetInv' /\ (scope # "open" => posts' = posts)
<1>1. CASE RequestStep \/ Cancel
  <2>1. posts' = posts
    BY <1>1 DEF RequestStep, Retrieve, SkipRetrieval, Routed, FallBack, Retrieved, RetrievalFails,
                SiblingFails, Abandon, Answer, Unwind, Return, Cancel, VectorsArrive, StoreAttempt,
                Leave, StartStage,
                EmbedQueries, LeaveScope, CloseScope, CancelCallers, InterruptScope, Resume,
                embeddingVars
  <2> QED BY <1>1, <2>1, StageBudget, ArmBudget, MoveBudget, LeaveBudget, ReturnBudget
          DEF RequestStep
<1>2. CASE Provider
  <2>1. PICK t \in Text : ProviderStep(t) /\ UNCHANGED requestVars
    BY <1>2 DEF Provider
  <2>2. CASE Settle(t)
    <3>1. posts' = posts
      BY <2>2 DEF Settle
    <3> QED BY <2>1, <2>2, <3>1, SettleBudget
  <2>3. CASE ~ Settle(t)
    BY <2>1, <2>3, TaskBudget DEF ProviderStep
  <2> QED BY <2>2, <2>3
<1>3. CASE Finished \/ UNCHANGED vars
  BY <1>3, BudgetStutter DEF Finished
<1> QED BY <1>1, <1>2, <1>3 DEF Next

LEMMA BudgetHolds == Spec => [](Inv /\ RequestInv /\ BudgetInv)
<1>1. Init => BudgetInv
  BY BudgetInit
<1>2. (Inv /\ RequestInv) /\ BudgetInv /\ [Next]_vars => BudgetInv'
  BY BudgetNext
<1> QED BY <1>1, <1>2, RequestHolds, PTL DEF Spec

-----------------------------------------------------------------------------
\* A whole request sends no text more often than two ladders of attempts and
\* an oversized text never, however many stages, arms and retrieve nodes ask
\* for it (_embed_query, retrieve, _retrieve_context).
THEOREM EgressIsBounded == Spec => []EgressBudget
<1>1. BudgetInv => EgressBudget
  <2> SUFFICES ASSUME BudgetInv, NEW t \in Text
               PROVE  posts[t] <= IF t \in Oversized THEN 0 ELSE 2 * MaxAttempts
    BY DEF EgressBudget
  <2>1. posts[t] <= 2 * MaxAttempts /\ (t \in Oversized => posts[t] = 0)
    BY DEF BudgetInv, Spent
  <2> QED BY <2>1
<1> QED BY <1>1, BudgetHolds, PTL

\* A request that left the scope's body sends nothing more, and when it has
\* returned neither a task nor an arm of it runs (query_embedding_scope).
THEOREM QuietOnceLeft == Spec => QuietAfterLeaving
<1> DEFINE Quiet == /\ scope # "open" => posts' = posts
                    /\ stage' = "returned" =>
                         /\ \A t \in Text : provider'[t] = NoTask
                         /\ \A a \in Caller : arm'[a].state \in {"idle", "done"}
<1>1. ASSUME Inv, RequestInv, BudgetInv, Inv', RequestInv', [Next]_vars PROVE Quiet
  <2>1. scope # "open" => posts' = posts
    BY <1>1, BudgetNext
  <2>2. ASSUME stage' = "returned"
        PROVE  /\ \A t \in Text : provider'[t] = NoTask
               /\ \A a \in Caller : arm'[a].state \in {"idle", "done"}
    <3>1. scope' = "closed"
      BY <1>1, <2>2 DEF RequestInv, ScopeFollowsStage
    <3>2. \A t \in Text : provider'[t] = NoTask
      BY <1>1, <3>1 DEF Inv, CancelledByScope
    <3>3. ArmsDone'
      BY <1>1, <2>2 DEF RequestInv, ArmsInStages, Retrieving
    <3> QED BY <3>2, <3>3 DEF ArmsDone
  <2> QED BY <2>1, <2>2
<1>2. (Inv /\ RequestInv /\ BudgetInv) /\ (Inv /\ RequestInv /\ BudgetInv)' /\ [Next]_vars => [Quiet]_vars
  BY <1>1
<1> QED BY <1>2, BudgetHolds, PTL DEF Spec, QuietAfterLeaving
=============================================================================
