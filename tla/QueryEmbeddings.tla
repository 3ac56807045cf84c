-------------------------- MODULE QueryEmbeddings --------------------------
(***************************************************************************)
(* The vectors of one request's queries: the request-local scope of the    *)
(* Chroma adapter (query_embedding_scope, _embed_query) over the attempts  *)
(* of the embedding adapters (embed_query, _call).  The scope is held in a *)
(* context variable, so requests share none of this state and one scope is *)
(* all there is to model.                                                  *)
(*                                                                         *)
(* A provider task belongs to the scope, not to the caller that created    *)
(* it: callers wait for it through asyncio.shield.  Its done-callback runs *)
(* a turn of the event loop after it ended, so between the two steps a     *)
(* task is over but still the entry of the cache.                          *)
(***************************************************************************)
EXTENDS Naturals

CONSTANTS Text,         \* the inputs of embed_query in play
          Oversized,    \* those above query_max_utf8_bytes
          Caller,       \* the coroutines that may await a vector
          MaxAttempts,  \* max_attempts of the embedding adapter
          NoText

ASSUME ProviderAssumption ==
    /\ MaxAttempts \in Nat \ {0}
    /\ Oversized \subseteq Text
    /\ NoText \notin Text

VARIABLES scope,     \* "open", "closing", "interrupted" or "closed"
          cache,     \* per text: no entry, the provider task, or its vectors
          provider,  \* per text: the provider task the scope owns
          waiter,    \* per caller: what it waits for, or what it was given
          posts      \* per text: requests sent to the provider

embeddingVars == <<scope, cache, provider, waiter, posts>>

Ended == {"vectors", "failed", "cancelled"}
Live(t) == provider[t].state \in {"created", "posting", "sleeping"}

NoTask == [state |-> "none", attempt |-> 0, cancelling |-> FALSE]
NewTask == [state |-> "created", attempt |-> 0, cancelling |-> FALSE]
NotWaiting == [state |-> "idle", text |-> NoText]

EmbeddingTypeOK ==
    /\ scope \in {"open", "closing", "interrupted", "closed"}
    /\ cache \in [Text -> {"none", "task", "vectors"}]
    /\ provider \in [Text -> [state : {"none", "created", "posting", "sleeping"} \cup Ended,
                              attempt : 0 .. MaxAttempts,
                              cancelling : BOOLEAN]]
    /\ waiter \in [Caller -> [state : {"idle", "waiting"} \cup Ended,
                              text : Text \cup {NoText}]]
    /\ posts \in [Text -> Nat]

EmbeddingInit ==
    /\ scope = "open"
    /\ cache = [t \in Text |-> "none"]
    /\ provider = [t \in Text |-> NoTask]
    /\ waiter = [c \in Caller |-> NotWaiting]
    /\ posts = [t \in Text |-> 0]

-----------------------------------------------------------------------------
(* The callers: _embed_query and the shield it awaits.                     *)

\* What a caller asking for t meets: vectors, a task that has already ended
\* (shield hands its outcome over at once), or a task still to wait for.
Meets(t) ==
    IF cache[t] = "vectors" THEN "vectors"
    ELSE IF cache[t] = "task" /\ provider[t].state \in Ended THEN provider[t].state
    ELSE "waiting"

\* Mutant: vectors in the cache do not keep a new task from being created.
EmbedAgain(C, text) ==
    LET fresh == {t \in {text[c] : c \in C} : cache[t] # "task"} IN
    /\ scope = "open"
    /\ waiter' = [c \in Caller |->
                    IF c \in C THEN [state |-> Meets(text[c]), text |-> text[c]]
                               ELSE waiter[c]]
    /\ cache' = [t \in Text |-> IF t \in fresh THEN "task" ELSE cache[t]]
    /\ provider' = [t \in Text |-> IF t \in fresh THEN NewTask ELSE provider[t]]
    /\ UNCHANGED <<scope, posts>>

\* The callers C run _embed_query in the same turn of the event loop, caller
\* c with text[c]; a text without an entry gets one task, whoever comes first.
EmbedQueries(C, text) ==
    LET fresh == {t \in {text[c] : c \in C} : cache[t] = "none"} IN
    /\ scope = "open"
    /\ waiter' = [c \in Caller |->
                    IF c \in C THEN [state |-> Meets(text[c]), text |-> text[c]]
                               ELSE waiter[c]]
    /\ cache' = [t \in Text |-> IF t \in fresh THEN "task" ELSE cache[t]]
    /\ provider' = [t \in Text |-> IF t \in fresh THEN NewTask ELSE provider[t]]
    /\ UNCHANGED <<scope, posts>>

\* The caller goes on with the vectors, or with the exception.
Resume(c) ==
    /\ waiter[c].state \in Ended
    /\ waiter' = [waiter EXCEPT ![c] = NotWaiting]
    /\ UNCHANGED <<scope, cache, provider, posts>>

\* Callers are cancelled: only their own shields are.
CancelCallers(C) ==
    /\ waiter' = [c \in Caller |-> IF c \in C THEN NotWaiting ELSE waiter[c]]
    /\ UNCHANGED <<scope, cache, provider, posts>>

-----------------------------------------------------------------------------
(* The provider task: embed_query and the ladder of attempts in _call.     *)

Becomes(t, state) == provider' = [provider EXCEPT ![t].state = state]

\* Attempt n is sent to the provider.
Post(t, n) ==
    /\ provider' = [provider EXCEPT ![t].state = "posting", ![t].attempt = n]
    /\ posts' = [posts EXCEPT ![t] = @ + 1]

\* The task's first turn: an oversized input is refused before egress.
StartTask(t) ==
    /\ provider[t].state = "created"
    /\ ~ provider[t].cancelling
    /\ \/ t \in Oversized /\ Becomes(t, "failed") /\ UNCHANGED posts
       \/ t \notin Oversized /\ Post(t, 1)
    /\ UNCHANGED <<scope, cache, waiter>>

\* An attempt is answered: vectors, or a rejection that is never retried.
AttemptAnswered(t) ==
    /\ provider[t].state = "posting"
    /\ ~ provider[t].cancelling
    /\ \E result \in {"vectors", "failed"} : Becomes(t, result)
    /\ UNCHANGED <<scope, cache, waiter, posts>>

\* Mutant: one back-off too many.
AttemptFailsLate(t) ==
    /\ provider[t].state = "posting"
    /\ ~ provider[t].cancelling
    /\ Becomes(t, IF provider[t].attempt <= MaxAttempts THEN "sleeping" ELSE "failed")
    /\ UNCHANGED <<scope, cache, waiter, posts>>

\* A transient failure, the attempt timeout included: back off, unless it was
\* the last attempt.
AttemptFails(t) ==
    /\ provider[t].state = "posting"
    /\ ~ provider[t].cancelling
    /\ Becomes(t, IF provider[t].attempt < MaxAttempts THEN "sleeping" ELSE "failed")
    /\ UNCHANGED <<scope, cache, waiter, posts>>

NextAttempt(t) ==
    /\ provider[t].state = "sleeping"
    /\ ~ provider[t].cancelling
    /\ Post(t, provider[t].attempt + 1)
    /\ UNCHANGED <<scope, cache, waiter>>

\* Mutant: the deadline evicts the entry before the task's callback runs.
DeadlineEvicts(t) ==
    /\ provider[t].state \in {"posting", "sleeping"}
    /\ ~ provider[t].cancelling
    /\ Becomes(t, "failed")
    /\ cache' = [cache EXCEPT ![t] = "none"]
    /\ UNCHANGED <<scope, waiter, posts>>

\* total_deadline_seconds strikes during an attempt or a back-off.
DeadlinePasses(t) ==
    /\ provider[t].state \in {"posting", "sleeping"}
    /\ ~ provider[t].cancelling
    /\ Becomes(t, "failed")
    /\ UNCHANGED <<scope, cache, waiter, posts>>

\* The CancelledError the scope asked for arrives.
TaskCancelled(t) ==
    /\ Live(t)
    /\ provider[t].cancelling
    /\ Becomes(t, "cancelled")
    /\ UNCHANGED <<scope, cache, waiter, posts>>

\* Mutant: the callback evicts whatever the outcome.
SettleForgetting(t) ==
    /\ provider[t].state \in Ended
    /\ cache' = [cache EXCEPT ![t] = "none"]
    /\ provider' = [provider EXCEPT ![t] = NoTask]
    /\ waiter' = [c \in Caller |->
                    IF waiter[c] = [state |-> "waiting", text |-> t]
                    THEN [waiter[c] EXCEPT !.state = provider[t].state]
                    ELSE waiter[c]]
    /\ UNCHANGED <<scope, posts>>

\* _complete_provider_task and, right behind it in the same callback queue,
\* the callbacks of the shields: publish or evict, then wake the callers.
Settle(t) ==
    /\ provider[t].state \in Ended
    /\ cache' = [cache EXCEPT ![t] = IF provider[t].state = "vectors" THEN "vectors" ELSE "none"]
    /\ provider' = [provider EXCEPT ![t] = NoTask]
    /\ waiter' = [c \in Caller |->
                    IF waiter[c] = [state |-> "waiting", text |-> t]
                    THEN [waiter[c] EXCEPT !.state = provider[t].state]
                    ELSE waiter[c]]
    /\ UNCHANGED <<scope, posts>>

-----------------------------------------------------------------------------
(* The end of the scope: the finally block of query_embedding_scope.       *)

\* Mutant: a task in its back-off is not cancelled.
LeaveSleeping ==
    /\ scope = "open"
    /\ scope' = "closing"
    /\ provider' = [t \in Text |-> IF Live(t) /\ provider[t].state # "sleeping"
                                    THEN [provider[t] EXCEPT !.cancelling = TRUE]
                                    ELSE provider[t]]
    /\ UNCHANGED <<cache, waiter, posts>>

\* Cancel what is still running; then gather waits for it.
LeaveScope ==
    /\ scope = "open"
    /\ scope' = "closing"
    /\ provider' = [t \in Text |-> IF Live(t) THEN [provider[t] EXCEPT !.cancelling = TRUE]
                                              ELSE provider[t]]
    /\ UNCHANGED <<cache, waiter, posts>>

\* The request is cancelled (again) while it waits: gather ends as before,
\* when every task has, but by raising, and the lines behind it are skipped.
InterruptScope ==
    /\ scope = "closing"
    /\ \E t \in Text : provider[t] # NoTask
    /\ scope' = "interrupted"
    /\ UNCHANGED <<cache, provider, waiter, posts>>

\* Mutant: after an interruption the scope is never closed.
CloseQuietScope ==
    /\ scope = "closing"
    /\ \A t \in Text : provider[t] = NoTask
    /\ scope' = "closed"
    /\ cache' = [t \in Text |-> "none"]
    /\ UNCHANGED <<provider, waiter, posts>>

\* gather has returned: the cache is emptied, unless gather raised.
CloseScope ==
    /\ scope \in {"closing", "interrupted"}
    /\ \A t \in Text : provider[t] = NoTask
    /\ scope' = "closed"
    /\ cache' = IF scope = "closing" THEN [t \in Text |-> "none"] ELSE cache
    /\ UNCHANGED <<provider, waiter, posts>>

-----------------------------------------------------------------------------
\* One turn of the provider task, or of the callbacks it leaves behind.
ProviderStep(t) ==
    \/ StartTask(t) \/ AttemptAnswered(t) \/ AttemptFails(t) \/ NextAttempt(t)
    \/ DeadlinePasses(t) \/ TaskCancelled(t) \/ Settle(t)

\* Any callers, asking and being cancelled at will.
EmbeddingNext ==
    \/ \E C \in SUBSET Caller : \E text \in [C -> Text] :
         /\ \A c \in C : waiter[c].state # "waiting"
         /\ EmbedQueries(C, text)
    \/ \E c \in Caller : Resume(c)
    \/ \E C \in SUBSET Caller : CancelCallers(C)
    \/ \E t \in Text : ProviderStep(t)
    \/ LeaveScope \/ InterruptScope \/ CloseScope

EmbeddingSpec == EmbeddingInit /\ [][EmbeddingNext]_embeddingVars

-----------------------------------------------------------------------------
\* A caller that waits has a task that will wake it: the entry of its text is
\* a task not yet settled, and as long as the request is inside the scope no
\* one has cancelled that task, whatever became of the caller that created it
\* (asyncio.shield, and the eviction in _complete_provider_task).
WaitersHaveATask ==
    \A c \in Caller : waiter[c].state = "waiting" =>
        /\ cache[waiter[c].text] = "task"
        /\ provider[waiter[c].text] # NoTask
        /\ scope = "open" => ~ provider[waiter[c].text].cancelling

\* No provider task is left behind when the scope has closed, even when its
\* own clean-up was interrupted, and no caller is left waiting for one.
NoDetachedTask ==
    scope = "closed" => /\ \A t \in Text : provider[t] = NoTask
                        /\ \A c \in Caller : waiter[c].state # "waiting"

\* The scope implements the memo.
Memo == INSTANCE EmbeddingMemo WITH memo <- cache, open <- scope = "open"
MemoSpec == Memo!Spec
=============================================================================
