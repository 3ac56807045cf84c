----------------------- MODULE QueryEmbeddingsProofs -----------------------
(***************************************************************************)
(* The scope of query embeddings, for any texts, callers and number of     *)
(* attempts, its callers asking and being cancelled at will: it is well    *)
(* typed, every waiting caller has a live task behind it, nothing is left  *)
(* behind when the scope closes, and it implements EmbeddingMemo.          *)
(***************************************************************************)
EXTENDS QueryEmbeddings, TLAPS

\* A task is the entry of its text from its creation until it is settled.
EntryIsTask ==
    \A t \in Text : /\ cache[t] = "task" <=> provider[t].state # "none"
                    /\ provider[t].state = "none" => provider[t] = NoTask

\* A task that backs off has an attempt left.
AttemptsLeft ==
    \A t \in Text : provider[t].state = "sleeping" => provider[t].attempt < MaxAttempts

\* A caller waits for a text whose entry is a task.
WaitsForEntry ==
    \A c \in Caller : waiter[c].state = "waiting" =>
        waiter[c].text \in Text /\ cache[waiter[c].text] = "task"

\* Only the end of the scope cancels a task, and it closes after all of them.
CancelledByScope ==
    /\ \A t \in Text : provider[t].cancelling => scope \in {"closing", "interrupted"}
    /\ scope = "closed" => \A t \in Text : provider[t] = NoTask

Inv == /\ EmbeddingTypeOK
       /\ EntryIsTask
       /\ AttemptsLeft
       /\ WaitsForEntry
       /\ CancelledByScope

TaskRecord == [state : {"none", "created", "posting", "sleeping"} \cup Ended,
               attempt : 0 .. MaxAttempts, cancelling : BOOLEAN]
WaiterRecord == [state : {"idle", "waiting"} \cup Ended, text : Text \cup {NoText}]

-----------------------------------------------------------------------------
LEMMA InitInv == EmbeddingInit => Inv
<1> SUFFICES ASSUME EmbeddingInit PROVE Inv
  OBVIOUS
<1> USE DEF EmbeddingInit, NoTask, NotWaiting
<1>1. EmbeddingTypeOK
  BY ProviderAssumption DEF EmbeddingTypeOK, Ended
<1>2. EntryIsTask /\ AttemptsLeft
  BY DEF EntryIsTask, AttemptsLeft
<1>3. WaitsForEntry /\ CancelledByScope
  BY DEF WaitsForEntry, CancelledByScope
<1> QED BY <1>1, <1>2, <1>3 DEF Inv

\* Callers that ask, in one turn: every one of them is handed an outcome or
\* waits for a text whose entry is then a task.
LEMMA EmbedQueriesInv ==
    ASSUME Inv, NEW C \in SUBSET Caller, NEW text \in [C -> Text],
           EmbedQueries(C, text)
    PROVE  Inv'
<1> DEFINE fresh == {t \in {text[c] : c \in C} : cache[t] = "none"}
<1>1. /\ scope = "open" /\ scope' = scope /\ posts' = posts
      /\ waiter' = [c \in Caller |->
                      IF c \in C THEN [state |-> Meets(text[c]), text |-> text[c]]
                                 ELSE waiter[c]]
      /\ cache' = [t \in Text |-> IF t \in fresh THEN "task" ELSE cache[t]]
      /\ provider' = [t \in Text |-> IF t \in fresh THEN NewTask ELSE provider[t]]
  BY DEF EmbedQueries
<1>2. \A t \in Text : Meets(t) \in {"waiting"} \cup Ended
  BY DEF Meets, Ended
<1> HIDE DEF fresh
<1>3. NewTask \in TaskRecord /\ NewTask.state = "created" /\ ~ NewTask.cancelling
  BY ProviderAssumption DEF NewTask, NoTask, TaskRecord, Ended
<1>4. EmbeddingTypeOK'
  <2>1. waiter' \in [Caller -> WaiterRecord]
    BY <1>1, <1>2 DEF Inv, EmbeddingTypeOK, WaiterRecord
  <2>2. provider' \in [Text -> TaskRecord]
    BY <1>1, <1>3 DEF Inv, EmbeddingTypeOK, TaskRecord
  <2>3. cache' \in [Text -> {"none", "task", "vectors"}]
    BY <1>1 DEF Inv, EmbeddingTypeOK
  <2> QED BY <1>1, <2>1, <2>2, <2>3
          DEF Inv, EmbeddingTypeOK, WaiterRecord, TaskRecord
<1>5. EntryIsTask' /\ AttemptsLeft'
  BY <1>1, <1>3 DEF Inv, EntryIsTask, AttemptsLeft
<1>6. WaitsForEntry'
  <2> SUFFICES ASSUME NEW c \in Caller, waiter'[c].state = "waiting"
               PROVE  waiter'[c].text \in Text /\ cache'[waiter'[c].text] = "task"
    BY DEF WaitsForEntry
  <2>1. CASE c \in C
    <3>1. waiter'[c] = [state |-> Meets(text[c]), text |-> text[c]] /\ text[c] \in Text
      BY <1>1, <2>1
    <3>2. Meets(text[c]) = "waiting"
      BY <3>1
    <3>3. cache[text[c]] \in {"none", "task"}
      BY <3>1, <3>2 DEF Meets, Inv, EmbeddingTypeOK
    <3>4. cache[text[c]] = "none" => text[c] \in fresh
      BY <2>1, <3>1 DEF fresh
    <3> QED BY <1>1, <3>1, <3>3, <3>4
  <2>2. CASE c \notin C
    BY <1>1, <2>2 DEF Inv, WaitsForEntry
  <2> QED BY <2>1, <2>2
<1>7. CancelledByScope'
  BY <1>1, <1>3 DEF Inv, CancelledByScope
<1> QED BY <1>4, <1>5, <1>6, <1>7 DEF Inv

\* Callers that go on, or are cancelled, stop waiting.
LEMMA CallersInv ==
    ASSUME Inv,
           (\E c \in Caller : Resume(c)) \/ (\E C \in SUBSET Caller : CancelCallers(C))
    PROVE  Inv'
<1>1. /\ scope' = scope /\ cache' = cache /\ provider' = provider /\ posts' = posts
      /\ waiter' \in [Caller -> WaiterRecord]
      /\ \A c \in Caller : waiter'[c] \in {waiter[c], NotWaiting}
  BY DEF Inv, EmbeddingTypeOK, Resume, CancelCallers, NotWaiting, WaiterRecord
<1>2. EmbeddingTypeOK'
  BY <1>1 DEF Inv, EmbeddingTypeOK, WaiterRecord
<1>3. WaitsForEntry'
  BY <1>1 DEF Inv, WaitsForEntry, NotWaiting
<1> QED BY <1>1, <1>2, <1>3
        DEF Inv, EntryIsTask, AttemptsLeft, CancelledByScope

\* A step of a task that does not settle it leaves the cache and the callers
\* alone, and neither creates a task nor makes one disappear.
LEMMA TaskMoves ==
    ASSUME Inv, NEW t \in Text,
           \/ StartTask(t) \/ AttemptAnswered(t) \/ AttemptFails(t)
           \/ NextAttempt(t) \/ DeadlinePasses(t) \/ TaskCancelled(t)
    PROVE  /\ UNCHANGED <<scope, cache, waiter>>
           /\ posts' \in [Text -> Nat]
           /\ provider[t].state # "none"
           /\ \E task \in TaskRecord :
                /\ provider' = [provider EXCEPT ![t] = task]
                /\ task.state # "none"
                /\ task.cancelling = provider[t].cancelling
                /\ task.state = "sleeping" => task.attempt < MaxAttempts
<1>1. /\ provider \in [Text -> TaskRecord] /\ posts \in [Text -> Nat]
      /\ provider[t] \in TaskRecord
  BY DEF Inv, EmbeddingTypeOK, TaskRecord
<1>2. posts' \in [Text -> Nat] /\ UNCHANGED <<scope, cache, waiter>>
  <2>1. [posts EXCEPT ![t] = @ + 1] \in [Text -> Nat]
    BY <1>1
  <2> QED BY <1>1, <2>1 DEF StartTask, AttemptAnswered, AttemptFails, NextAttempt,
                            DeadlinePasses, TaskCancelled, Post
<1>3. provider[t].state # "none"
  BY DEF StartTask, AttemptAnswered, AttemptFails, NextAttempt,
         DeadlinePasses, TaskCancelled, Live
<1> DEFINE To(state, n) == [provider[t] EXCEPT !.state = state, !.attempt = n]
<1>4. \A state \in {"posting", "sleeping"} \cup Ended, n \in 0 .. MaxAttempts :
        /\ To(state, n) \in TaskRecord
        /\ To(state, n).state = state
        /\ To(state, n).attempt = n
        /\ To(state, n).cancelling = provider[t].cancelling
  BY <1>1 DEF TaskRecord, Ended
<1>5. \E state \in {"posting", "sleeping"} \cup Ended, n \in 0 .. MaxAttempts :
        /\ provider' = [provider EXCEPT ![t] = To(state, n)]
        /\ state = "sleeping" => n < MaxAttempts
  <2>0. provider[t].attempt \in 0 .. MaxAttempts /\ MaxAttempts \in Nat \ {0}
    BY <1>1, ProviderAssumption DEF TaskRecord
  <2>1. ASSUME NEW state \in {"posting", "sleeping"} \cup Ended, Becomes(t, state)
        PROVE  provider' = [provider EXCEPT ![t] = To(state, provider[t].attempt)]
    BY <1>1, <2>1 DEF Becomes, TaskRecord
  <2>2. ASSUME NEW n \in 0 .. MaxAttempts, Post(t, n)
        PROVE  provider' = [provider EXCEPT ![t] = To("posting", n)]
    BY <1>1, <2>2 DEF Post, TaskRecord
  <2>3. CASE StartTask(t)
    <3>1. Becomes(t, "failed") \/ Post(t, 1)
      BY <2>3 DEF StartTask
    <3> HIDE DEF To
    <3> QED BY <2>0, <2>1, <2>2, <3>1 DEF Ended
  <2>4. CASE AttemptAnswered(t)
    <3>1. \E r \in {"vectors", "failed"} : Becomes(t, r)
      BY <2>4 DEF AttemptAnswered
    <3> HIDE DEF To
    <3> QED BY <2>0, <2>1, <3>1 DEF Ended
  <2>5. CASE AttemptFails(t)
    <3>1. \/ Becomes(t, "failed")
          \/ Becomes(t, "sleeping") /\ provider[t].attempt < MaxAttempts
      BY <2>5 DEF AttemptFails
    <3> HIDE DEF To
    <3> QED BY <2>0, <2>1, <3>1 DEF Ended
  <2>6. CASE NextAttempt(t)
    <3>1. Post(t, provider[t].attempt + 1) /\ provider[t].attempt < MaxAttempts
      BY <2>6 DEF NextAttempt, Inv, AttemptsLeft
    <3>2. provider[t].attempt + 1 \in 0 .. MaxAttempts
      BY <2>0, <3>1
    <3> HIDE DEF To
    <3> QED BY <2>2, <3>1, <3>2 DEF Ended
  <2>7. CASE DeadlinePasses(t) \/ TaskCancelled(t)
    <3>1. Becomes(t, "failed") \/ Becomes(t, "cancelled")
      BY <2>7 DEF DeadlinePasses, TaskCancelled
    <3> HIDE DEF To
    <3> QED BY <2>0, <2>1, <3>1 DEF Ended
  <2> QED BY <2>3, <2>4, <2>5, <2>6, <2>7
<1> HIDE DEF To
<1> QED
  <2>1. PICK state \in {"posting", "sleeping"} \cup Ended, n \in 0 .. MaxAttempts :
          /\ provider' = [provider EXCEPT ![t] = To(state, n)]
          /\ state = "sleeping" => n < MaxAttempts
    BY <1>5
  <2>2. state # "none"
    BY DEF Ended
  <2> DEFINE task == To(state, n)
  <2>3. /\ task \in TaskRecord
        /\ provider' = [provider EXCEPT ![t] = task]
        /\ task.state # "none"
        /\ task.cancelling = provider[t].cancelling
        /\ task.state = "sleeping" => task.attempt < MaxAttempts
    <3>1. task.state = state /\ task.attempt = n
      BY <1>4
    <3> QED BY <1>4, <2>1, <2>2, <3>1
  <2> HIDE DEF task
  <2> QED BY <1>2, <1>3, <2>3

LEMMA TaskMovesInv ==
    ASSUME Inv, NEW t \in Text,
           \/ StartTask(t) \/ AttemptAnswered(t) \/ AttemptFails(t)
           \/ NextAttempt(t) \/ DeadlinePasses(t) \/ TaskCancelled(t)
    PROVE  Inv'
<1>1. /\ scope' = scope /\ cache' = cache /\ waiter' = waiter
      /\ posts' \in [Text -> Nat] /\ provider[t].state # "none"
  BY TaskMoves
<1>2. PICK task \in TaskRecord :
        /\ provider' = [provider EXCEPT ![t] = task]
        /\ task.state # "none"
        /\ task.cancelling = provider[t].cancelling
        /\ task.state = "sleeping" => task.attempt < MaxAttempts
  BY TaskMoves
<1>3. /\ provider \in [Text -> TaskRecord] /\ provider' \in [Text -> TaskRecord]
      /\ \A u \in Text : provider'[u] = IF u = t THEN task ELSE provider[u]
  BY <1>2 DEF Inv, EmbeddingTypeOK, TaskRecord
<1>4. EmbeddingTypeOK'
  BY <1>1, <1>3 DEF Inv, EmbeddingTypeOK, TaskRecord
<1>5. EntryIsTask'
  BY <1>1, <1>2, <1>3 DEF Inv, EntryIsTask
<1>6. AttemptsLeft'
  BY <1>2, <1>3 DEF Inv, AttemptsLeft
<1>7. WaitsForEntry'
  BY <1>1 DEF Inv, WaitsForEntry
<1>8. CancelledByScope'
  <2>1. scope # "closed"
    BY <1>1 DEF Inv, CancelledByScope, NoTask
  <2> QED BY <1>1, <1>2, <1>3, <2>1 DEF Inv, CancelledByScope
<1> QED BY <1>4, <1>5, <1>6, <1>7, <1>8 DEF Inv

\* Settling a task wakes every caller that waits for its text.
LEMMA SettleInv ==
    ASSUME Inv, NEW t \in Text, Settle(t)
    PROVE  Inv'
<1>1. /\ scope' = scope /\ posts' = posts /\ provider[t].state \in Ended
      /\ cache' \in [Text -> {"none", "task", "vectors"}]
      /\ \A u \in Text : cache'[u] = IF u = t
                           THEN IF provider[t].state = "vectors" THEN "vectors" ELSE "none"
                           ELSE cache[u]
  BY DEF Inv, EmbeddingTypeOK, Settle
<1>2. /\ provider' \in [Text -> TaskRecord]
      /\ \A u \in Text : provider'[u] = IF u = t THEN NoTask ELSE provider[u]
  BY ProviderAssumption DEF Inv, EmbeddingTypeOK, Settle, TaskRecord, NoTask, Ended
<1>3. /\ waiter' \in [Caller -> WaiterRecord]
      /\ \A c \in Caller : waiter'[c].state = "waiting" =>
           waiter'[c] = waiter[c] /\ waiter[c].text # t
  <2>1. \A c \in Caller : /\ waiter[c] \in WaiterRecord
                          /\ waiter'[c] = IF waiter[c] = [state |-> "waiting", text |-> t]
                                          THEN [waiter[c] EXCEPT !.state = provider[t].state]
                                          ELSE waiter[c]
    BY DEF Inv, EmbeddingTypeOK, Settle, WaiterRecord
  <2>2. \A c \in Caller : waiter'[c] \in WaiterRecord
    BY <1>1, <2>1 DEF WaiterRecord
  <2>3. waiter' \in [Caller -> WaiterRecord]
    BY <2>2 DEF Settle
  <2>4. ASSUME NEW c \in Caller, waiter'[c].state = "waiting"
        PROVE  waiter'[c] = waiter[c] /\ waiter[c].text # t
    <3>1. waiter[c] # [state |-> "waiting", text |-> t]
      BY <1>1, <2>1, <2>4 DEF WaiterRecord, Ended
    <3> QED BY <2>1, <2>4, <3>1 DEF WaiterRecord
  <2> QED BY <2>3, <2>4
<1>4. EmbeddingTypeOK'
  BY <1>1, <1>2, <1>3 DEF Inv, EmbeddingTypeOK, WaiterRecord, TaskRecord
<1>5. EntryIsTask' /\ AttemptsLeft'
  BY <1>1, <1>2 DEF Inv, EntryIsTask, AttemptsLeft, NoTask
<1>6. WaitsForEntry'
  BY <1>1, <1>3 DEF Inv, WaitsForEntry
<1>7. CancelledByScope'
  BY <1>1, <1>2 DEF Inv, CancelledByScope, NoTask
<1> QED BY <1>4, <1>5, <1>6, <1>7 DEF Inv

\* The end of the scope.
LEMMA ScopeInv ==
    ASSUME Inv, LeaveScope \/ InterruptScope \/ CloseScope
    PROVE  Inv'
<1>1. CASE LeaveScope
  <2>1. /\ scope' = "closing" /\ cache' = cache /\ waiter' = waiter /\ posts' = posts
        /\ \A t \in Text : provider'[t] \in
             {provider[t], [provider[t] EXCEPT !.cancelling = TRUE]}
    BY <1>1 DEF LeaveScope
  <2>2. ASSUME NEW t \in Text
        PROVE  /\ provider[t] \in TaskRecord /\ provider'[t] \in TaskRecord
               /\ provider'[t].state = provider[t].state
               /\ provider'[t].attempt = provider[t].attempt
    <3>1. provider[t] \in TaskRecord
      BY DEF Inv, EmbeddingTypeOK, TaskRecord
    <3>2. CASE provider'[t] = provider[t]
      BY <3>1, <3>2
    <3>3. CASE provider'[t] = [provider[t] EXCEPT !.cancelling = TRUE]
      BY <3>1, <3>3 DEF TaskRecord
    <3> QED BY <2>1, <3>1, <3>2, <3>3
  <2>3. provider' \in [Text -> TaskRecord]
    BY <1>1, <2>2 DEF LeaveScope
  <2>4. \A t \in Text : provider[t].state = "none" => provider'[t] = provider[t]
    BY <1>1 DEF LeaveScope, Live
  <2>5. EmbeddingTypeOK'
    BY <2>1, <2>3 DEF Inv, EmbeddingTypeOK, TaskRecord
  <2> QED BY <2>1, <2>2, <2>4, <2>5
          DEF Inv, EntryIsTask, AttemptsLeft, WaitsForEntry, CancelledByScope
<1>2. CASE InterruptScope
  BY <1>2 DEF InterruptScope, Inv, EmbeddingTypeOK, EntryIsTask, AttemptsLeft,
              WaitsForEntry, CancelledByScope
<1>3. CASE CloseScope
  <2>1. /\ scope' = "closed" /\ provider' = provider /\ waiter' = waiter /\ posts' = posts
        /\ \A t \in Text : provider[t] = NoTask
    BY <1>3 DEF CloseScope
  <2>2. /\ cache' \in [Text -> {"none", "task", "vectors"}]
        /\ \A t \in Text : cache'[t] # "task" /\ cache[t] # "task"
    BY <1>3, <2>1 DEF CloseScope, Inv, EmbeddingTypeOK, EntryIsTask, NoTask
  <2>3. \A c \in Caller : waiter[c].state # "waiting"
    BY <2>2 DEF Inv, WaitsForEntry
  <2>4. EmbeddingTypeOK'
    BY <2>1, <2>2 DEF Inv, EmbeddingTypeOK
  <2> QED BY <2>1, <2>2, <2>3, <2>4
          DEF Inv, EntryIsTask, AttemptsLeft, WaitsForEntry, CancelledByScope, NoTask
<1> QED BY <1>1, <1>2, <1>3

LEMMA NextInv == Inv /\ [EmbeddingNext]_embeddingVars => Inv'
<1> SUFFICES ASSUME Inv, [EmbeddingNext]_embeddingVars PROVE Inv'
  OBVIOUS
<1>1. CASE \E C \in SUBSET Caller : \E text \in [C -> Text] : EmbedQueries(C, text)
  BY <1>1, EmbedQueriesInv
<1>2. CASE (\E c \in Caller : Resume(c)) \/ (\E C \in SUBSET Caller : CancelCallers(C))
  BY <1>2, CallersInv
<1>3. CASE \E t \in Text : ProviderStep(t)
  BY <1>3, TaskMovesInv, SettleInv DEF ProviderStep
<1>4. CASE LeaveScope \/ InterruptScope \/ CloseScope
  BY <1>4, ScopeInv
<1>5. CASE UNCHANGED embeddingVars
  BY <1>5 DEF embeddingVars, Inv, EmbeddingTypeOK, EntryIsTask, AttemptsLeft,
              WaitsForEntry, CancelledByScope
<1> QED BY <1>1, <1>2, <1>3, <1>4, <1>5 DEF EmbeddingNext

LEMMA InvHolds == EmbeddingSpec => []Inv
BY InitInv, NextInv, PTL DEF EmbeddingSpec

-----------------------------------------------------------------------------
\* The scope's entries, tasks and callers stay well typed: the ladder never
\* counts beyond MaxAttempts (the loop in _call), whatever its callers do.
THEOREM EmbeddingTypeCorrect == EmbeddingSpec => []EmbeddingTypeOK
<1>1. Inv => EmbeddingTypeOK
  BY DEF Inv
<1> QED BY <1>1, InvHolds, PTL

\* A waiting caller always has an unsettled task behind it, which nobody but
\* the end of the scope cancels: the cancellation of one caller, the creator
\* of the task included, never harms another one (asyncio.shield and
\* _complete_provider_task in _embed_query).
THEOREM NoLostCaller == EmbeddingSpec => []WaitersHaveATask
<1>1. Inv => WaitersHaveATask
  BY DEF Inv, WaitsForEntry, EntryIsTask, CancelledByScope, WaitersHaveATask, NoTask
<1> QED BY <1>1, InvHolds, PTL

\* A closed scope has no provider task left and nobody waiting for one, even
\* when its clean-up was interrupted (the finally block of
\* query_embedding_scope).
THEOREM NothingDetached == EmbeddingSpec => []NoDetachedTask
<1>1. Inv => NoDetachedTask
  <2> SUFFICES ASSUME Inv, scope = "closed"
               PROVE  /\ \A t \in Text : provider[t] = NoTask
                      /\ \A c \in Caller : waiter[c].state # "waiting"
    BY DEF NoDetachedTask
  <2>1. \A t \in Text : provider[t] = NoTask
    BY DEF Inv, CancelledByScope
  <2>2. NoTask.state = "none"
    BY DEF NoTask
  <2>3. \A t \in Text : cache[t] # "task"
    BY <2>1, <2>2 DEF Inv, EntryIsTask
  <2> QED BY <2>1, <2>3 DEF Inv, WaitsForEntry
<1> QED BY <1>1, InvHolds, PTL

-----------------------------------------------------------------------------
\* Asking asks the memo for the texts that had no entry.
LEMMA EmbedQueriesAsks ==
    ASSUME Inv, NEW C \in SUBSET Caller, NEW text \in [C -> Text],
           EmbedQueries(C, text)
    PROVE  Memo!Next
<1> DEFINE fresh == {t \in {text[c] : c \in C} : cache[t] = "none"}
<1>1. fresh \in SUBSET {t \in Text : cache[t] = "none"}
  OBVIOUS
<1>2. /\ scope = "open" /\ scope' = scope
      /\ cache' = [t \in Text |-> IF t \in fresh THEN "task" ELSE cache[t]]
  BY DEF EmbedQueries
<1> HIDE DEF fresh
<1> QED BY <1>1, <1>2 DEF Memo!Next, Memo!Ask

\* Settling concludes a question, with vectors or without a trace.
LEMMA SettleConcludes ==
    ASSUME Inv, NEW t \in Text, Settle(t)
    PROVE  Memo!Next
<1>1. cache[t] = "task"
  BY DEF Inv, EntryIsTask, Settle, Ended
<1>2. /\ cache' = [cache EXCEPT ![t] = "vectors"] \/ cache' = [cache EXCEPT ![t] = "none"]
      /\ scope' = scope
  BY DEF Settle
<1> QED BY <1>1, <1>2 DEF Memo!Next, Memo!Conclude

\* The end of the scope closes the memo, then clears it or leaves it be.
LEMMA ScopeClears ==
    ASSUME Inv, LeaveScope \/ InterruptScope \/ CloseScope
    PROVE  [Memo!Next]_(Memo!vars)
<1>1. CASE LeaveScope
  BY <1>1 DEF LeaveScope, Memo!Next, Memo!Leave
<1>2. CASE InterruptScope
  BY <1>2 DEF InterruptScope, Memo!vars
<1>3. CASE CloseScope
  <2>1. \A t \in Text : cache[t] # "task"
    BY <1>3 DEF CloseScope, Inv, EntryIsTask, NoTask
  <2>2. scope # "open" /\ scope' = "closed"
    BY <1>3 DEF CloseScope
  <2>3. cache' = cache \/ cache' = [t \in Text |-> "none"]
    BY <1>3 DEF CloseScope
  <2> QED BY <2>1, <2>2, <2>3 DEF Memo!Next, Memo!Clear, Memo!vars
<1> QED BY <1>1, <1>2, <1>3

\* The scope implements the memo: a text is asked for only while nothing is
\* known or pending, vectors stay until the scope has closed, failures leave
\* nothing behind (query_embedding_scope, _embed_query).
THEOREM ScopeImplementsMemo == EmbeddingSpec => MemoSpec
<1>1. EmbeddingInit => Memo!Init
  BY DEF EmbeddingInit, Memo!Init
<1>2. Inv /\ [EmbeddingNext]_embeddingVars => [Memo!Next]_(Memo!vars)
  <2> SUFFICES ASSUME Inv, [EmbeddingNext]_embeddingVars
               PROVE  [Memo!Next]_(Memo!vars)
    OBVIOUS
  <2>1. CASE \E C \in SUBSET Caller : \E text \in [C -> Text] : EmbedQueries(C, text)
    BY <2>1, EmbedQueriesAsks
  <2>2. CASE (\E c \in Caller : Resume(c)) \/ (\E C \in SUBSET Caller : CancelCallers(C))
    BY <2>2 DEF Resume, CancelCallers, Memo!vars
  <2>3. CASE \E t \in Text : ProviderStep(t)
    <3>1. PICK t \in Text : ProviderStep(t)
      BY <2>3
    <3>2. CASE Settle(t)
      BY <3>2, SettleConcludes
    <3>3. CASE ~ Settle(t)
      BY <3>1, <3>3, TaskMoves DEF ProviderStep, Memo!vars
    <3> QED BY <3>2, <3>3
  <2>4. CASE LeaveScope \/ InterruptScope \/ CloseScope
    BY <2>4, ScopeClears
  <2>5. CASE UNCHANGED embeddingVars
    BY <2>5 DEF embeddingVars, Memo!vars
  <2> QED BY <2>1, <2>2, <2>3, <2>4, <2>5 DEF EmbeddingNext
<1> QED BY <1>1, <1>2, InvHolds, PTL DEF EmbeddingSpec, MemoSpec, Memo!Spec
=============================================================================
