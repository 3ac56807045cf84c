------------------------------ MODULE Delivery ------------------------------
(***************************************************************************)
(* How one engine process takes messages from its RabbitMQ input queue,    *)
(* runs the plugin on them, publishes a result and settles the delivery.   *)
(*                                                                         *)
(* main.py's build_message_handler and _run, on top of the consumer of     *)
(* core/adapters/rabbitmq.py.  Every `await` is a point where other        *)
(* deliveries, a channel failure, a crash or a shutdown may intervene, so  *)
(* every await is a step of its own here.  The broker is external: a bag   *)
(* of ready messages, at most one unacknowledged delivery (prefetch 1),    *)
(* and a channel that may break and is re-opened by connect_robust.        *)
(***************************************************************************)
EXTENDS Naturals, FiniteSets

CONSTANTS
    Query,        \* messages that parse to an engine query (Input)
    Ingest,       \* messages that parse to an ingest event (early ACK)
    Malformed,    \* JSON that parse_event refuses
    Garbage,      \* bodies that are not JSON
    Worker,       \* slots for asyncio tasks: consumer callbacks, background pipelines
    MaxRetries,   \* config.rabbitmq_max_retries
    FaultLimit,   \* bound: how often the channel may break
    StopLimit,    \* bound: how many crashes and shutdowns
    NoMsg         \* the message of an idle slot

Msg == Query \cup Ingest \cup Malformed \cup Garbage
Retry == 0 .. (MaxRetries - 1)     \* the x-retry-count header

ASSUME KindsDisjoint ==
    /\ Query \cap (Ingest \cup Malformed \cup Garbage) = {}
    /\ Ingest \cap (Malformed \cup Garbage) = {}
    /\ Malformed \cap Garbage = {}
ASSUME ConstantsOK ==
    /\ MaxRetries \in Nat \ {0}
    /\ FaultLimit \in Nat
    /\ StopLimit \in Nat
    /\ NoMsg \notin Msg

VARIABLES
    ready,     \* broker: copies of each message, by x-retry-count, waiting in the queue
    held,      \* broker: the delivery sent to a slot and not yet settled (at most one)
    channel,   \* "open" or "broken", shared by consumer and publisher
    job,       \* what each slot is doing
    proc,      \* the process: "up", "draining" (grace period), "closing", "down"
    awaited,   \* the slots whose tasks the shutdown waits for
    faults, stops,                      \* spent budget
    answered, errored, executed,        \* history: results, error results, plugin runs per message
    redelivered, unconfirmed, failed    \* history: messages requeued / published or republished
                                        \* without a confirm / whose error result was not published
vars == <<ready, held, channel, job, proc, awaited, faults, stops,
          answered, errored, executed, redelivered, unconfirmed, failed>>
broker  == <<ready, held>>
net     == <<channel, faults>>
process == <<proc, awaited, stops>>
history == <<answered, errored, executed, redelivered, unconfirmed, failed>>

HandlerPC == {"earlyAck", "handling", "publish", "republish", "fallback",
              "publishError", "publishPermanent", "ack", "reject"}
TaskPC == {"running", "taskPublish", "taskError"}   \* _run_pipeline, after the early ACK
Idle == [pc |-> "idle", msg |-> NoMsg, retry |-> 0]

Delivery == [msg : Msg, retry : Retry, by : Worker]
Job == [pc : HandlerPC \cup TaskPC, msg : Msg, retry : Retry] \cup {Idle}

TypeOK ==
    /\ ready \in [Msg \X Retry -> Nat]
    /\ held \in SUBSET Delivery
    /\ channel \in {"open", "broken"}
    /\ job \in [Worker -> Job]
    /\ proc \in {"up", "draining", "closing", "down"}
    /\ awaited \in SUBSET Worker
    /\ faults \in Nat /\ stops \in Nat
    /\ answered \in [Msg -> Nat] /\ errored \in [Msg -> Nat] /\ executed \in [Msg -> Nat]
    /\ redelivered \in SUBSET Msg /\ unconfirmed \in SUBSET Msg /\ failed \in SUBSET Msg

Init ==
    /\ ready = [mk \in Msg \X Retry |-> IF mk[2] = 0 THEN 1 ELSE 0]
    /\ held = {} /\ channel = "open"
    /\ job = [w \in Worker |-> Idle]
    /\ proc = "up" /\ awaited = {}
    /\ faults = 0 /\ stops = 0
    /\ answered = [m \in Msg |-> 0] /\ errored = [m \in Msg |-> 0] /\ executed = [m \in Msg |-> 0]
    /\ redelivered = {} /\ unconfirmed = {} /\ failed = {}

-----------------------------------------------------------------------------
(* The broker and the channel.                                             *)

\* Slot w still holds the delivery tag the broker knows; after a reconnect a
\* callback keeps running with a tag of the old channel.
Live(w) == \E d \in held : d.by = w

\* The unsettled deliveries go back to the queue with their headers.
Requeue ==
    /\ ready' = [mk \in Msg \X Retry |->
                   IF \E d \in held : d.msg = mk[1] /\ d.retry = mk[2]
                   THEN ready[mk] + 1 ELSE ready[mk]]
    /\ held' = {}
    /\ redelivered' = redelivered \cup {d.msg : d \in held}

\* A client operation that the broker performs and confirms.
Confirmed == channel = "open" /\ UNCHANGED net
\* One that raises and has no effect.
Refused == channel = "broken" /\ UNCHANGED net
\* One that meets the failure of the channel half way.
BreaksDuring ==
    /\ channel = "open" /\ faults < FaultLimit
    /\ channel' = "broken" /\ faults' = faults + 1

\* ack and reject (requeue=False, no dead-letter exchange declared) are
\* fire-and-forget frames: sent and processed, sent and lost with the channel
\* (the client sees no error), or refused because the channel or tag is gone.
SettleOk(w) ==
    /\ Live(w)
    /\ \/ Confirmed /\ held' = {d \in held : d.by # w}
       \/ BreaksDuring /\ UNCHANGED held
SettleRaises(w) ==
    /\ channel = "broken" \/ ~Live(w)
    /\ UNCHANGED <<held, net>>

Goto(w, p) == job' = [job EXCEPT ![w].pc = p]
\* Mutant: the slot is idle but keeps its message.
ReturnDirty(w) == job' = [job EXCEPT ![w].pc = "idle"]
Return(w) == job' = [job EXCEPT ![w] = Idle]
At(w, p) == job[w].pc = p
Bump(f, w) == [f EXCEPT ![job[w].msg] = @ + 1]

-----------------------------------------------------------------------------
(* The consumer callback: consume_with_message around on_message.          *)

\* Mutant: the last attempt gives up without an error result.
RejectSilently(m, k, forceTerminal, acknowledgeTerminal) ==
    IF ~forceTerminal /\ k < MaxRetries - 1 THEN "republish" ELSE "reject"

\* _retry_or_reject: republish with the next header, or end the delivery with
\* an error result (only when there is an event to answer).
RetryOrReject(m, k, forceTerminal, acknowledgeTerminal) ==
    IF ~forceTerminal /\ k < MaxRetries - 1 THEN "republish"
    ELSE IF m \notin Query THEN "reject"
    ELSE IF acknowledgeTerminal THEN "publishPermanent" ELSE "publishError"

\* Mutant: queries are acknowledged early, like ingest events.
AckEverythingEarly(m, k) ==
    IF m \in Garbage THEN "reject"
    ELSE IF m \in Malformed THEN RetryOrReject(m, k, FALSE, FALSE) ELSE "earlyAck"

\* The first await that a message of each kind reaches.
FirstAwait(m, k) ==
    IF m \in Garbage THEN "reject"
    ELSE IF m \in Malformed THEN RetryOrReject(m, k, FALSE, FALSE)
    ELSE IF m \in Ingest THEN "earlyAck" ELSE "handling"

\* The broker pushes a ready message; prefetch_count=1 allows one unsettled
\* delivery.  The consumer is never cancelled, so this happens during the
\* grace period of a shutdown as well.
Deliver(w, m, k) ==
    /\ proc # "down" /\ channel = "open" /\ held = {}
    /\ job[w] = Idle
    /\ ready[<<m, k>>] > 0
    /\ ready' = [ready EXCEPT ![<<m, k>>] = @ - 1]
    /\ held' = {[msg |-> m, retry |-> k, by |-> w]}
    /\ job' = [job EXCEPT ![w] = [pc |-> FirstAwait(m, k), msg |-> m, retry |-> k]]
    /\ executed' = IF m \in Query THEN [executed EXCEPT ![m] = @ + 1] ELSE executed
    /\ UNCHANGED <<net, process, answered, errored, redelivered, unconfirmed, failed>>

\* Mutant: the pipeline starts before the ack.
TaskBeforeAck(w) ==
    /\ At(w, "earlyAck")
    /\ Goto(w, "running") /\ executed' = Bump(executed, w)
    /\ UNCHANGED <<broker, net, process, answered, errored, redelivered, unconfirmed, failed>>

\* Ingest: ack first, then create the background task.  A failing ack leaves
\* on_message with an exception and the consumer rejects the message.
EarlyAck(w) ==
    /\ At(w, "earlyAck")
    /\ \/ SettleOk(w) /\ Goto(w, "running") /\ executed' = Bump(executed, w)
       \/ SettleRaises(w) /\ Goto(w, "reject") /\ UNCHANGED executed
    /\ UNCHANGED <<ready, process, answered, errored, redelivered, unconfirmed, failed>>

HandleOk(w) ==
    /\ \/ At(w, "handling") /\ Goto(w, "publish")
       \/ At(w, "running") /\ Goto(w, "taskPublish")
    /\ UNCHANGED <<broker, net, process, history>>

\* plugin.handle raised or ran into pipeline_timeout.  Embedding errors are
\* terminal; the input and permanent ones are acknowledged once answered.
HandleFails(w) ==
    /\ \/ At(w, "handling") /\ \E force, ack \in BOOLEAN :
            /\ ack => force
            /\ Goto(w, RetryOrReject(job[w].msg, job[w].retry, force, ack))
       \/ At(w, "running") /\ Goto(w, "taskError")
    /\ UNCHANGED <<broker, net, process, history>>

\* _publish_result of a response; a background task then ends.
PublishOk(w) ==
    /\ job[w].pc \in {"publish", "taskPublish"}
    /\ Confirmed
    /\ answered' = Bump(answered, w)
    /\ \/ At(w, "publish") /\ Goto(w, "ack") /\ UNCHANGED awaited
       \/ At(w, "taskPublish") /\ Return(w) /\ awaited' = awaited \ {w}
    /\ UNCHANGED <<broker, proc, stops, errored, executed, redelivered, unconfirmed, failed>>

\* The publish raised; the except branches treat it like a failed handler, even
\* when the broker has the message and only the confirm is missing.
PublishRaises(w) ==
    /\ job[w].pc \in {"publish", "taskPublish"}
    /\ \/ Refused /\ UNCHANGED <<answered, unconfirmed>>
       \/ BreaksDuring /\ answered' = Bump(answered, w)
          /\ unconfirmed' = unconfirmed \cup {job[w].msg}
    /\ \/ At(w, "publish") /\ Goto(w, RetryOrReject(job[w].msg, job[w].retry, FALSE, FALSE))
       \/ At(w, "taskPublish") /\ Goto(w, "taskError")
    /\ UNCHANGED <<broker, process, errored, executed, redelivered, failed>>

\* Mutant: an error result for every failed attempt.
RepublishAndReport(w) ==
    /\ At(w, "republish")
    /\ Confirmed
    /\ ready' = [ready EXCEPT ![<<job[w].msg, job[w].retry + 1>>] = @ + 1]
    /\ Goto(w, IF job[w].msg \in Query THEN "fallback" ELSE "reject")
    /\ UNCHANGED <<held, process, history>>

\* Mutant: x-retry-count is not counted up.
RepublishUncounted(w) ==
    /\ At(w, "republish")
    /\ Confirmed
    /\ ready' = [ready EXCEPT ![<<job[w].msg, job[w].retry>>] = @ + 1]
    /\ Goto(w, "reject")
    /\ UNCHANGED <<held, process, history>>

RepublishOk(w) ==
    /\ At(w, "republish")
    /\ Confirmed
    /\ ready' = [ready EXCEPT ![<<job[w].msg, job[w].retry + 1>>] = @ + 1]
    /\ Goto(w, "reject")
    /\ UNCHANGED <<held, process, history>>

\* The retry copy may be lost, so the error is published now (if there is an event).
RepublishRaises(w) ==
    /\ At(w, "republish")
    /\ \/ Refused /\ UNCHANGED <<ready, unconfirmed>>
       \/ BreaksDuring /\ ready' = [ready EXCEPT ![<<job[w].msg, job[w].retry + 1>>] = @ + 1]
          /\ unconfirmed' = unconfirmed \cup {job[w].msg}
    /\ Goto(w, IF job[w].msg \in Query THEN "fallback" ELSE "reject")
    /\ UNCHANGED <<held, process, answered, errored, executed, redelivered, failed>>

ErrorPC == {"fallback", "publishError", "publishPermanent", "taskError"}
\* An error result: after a failed republish, as the terminal answer, or by a
\* background task.  It is attempted once.
ErrorOk(w) ==
    /\ job[w].pc \in ErrorPC
    /\ Confirmed
    /\ errored' = Bump(errored, w)
    /\ \/ At(w, "publishPermanent") /\ Goto(w, "ack") /\ UNCHANGED awaited
       \/ (At(w, "publishError") \/ At(w, "fallback")) /\ Goto(w, "reject") /\ UNCHANGED awaited
       \/ At(w, "taskError") /\ Return(w) /\ awaited' = awaited \ {w}
    /\ UNCHANGED <<broker, proc, stops, answered, executed, redelivered, unconfirmed, failed>>

ErrorRaises(w) ==
    /\ job[w].pc \in ErrorPC
    /\ \/ Refused /\ failed' = failed \cup {job[w].msg} /\ UNCHANGED <<errored, unconfirmed>>
       \/ BreaksDuring /\ errored' = Bump(errored, w) /\ UNCHANGED failed
          /\ unconfirmed' = unconfirmed \cup {job[w].msg}
    /\ \/ ~At(w, "taskError") /\ Goto(w, "reject") /\ UNCHANGED awaited
       \/ At(w, "taskError") /\ Return(w) /\ awaited' = awaited \ {w}
    /\ UNCHANGED <<broker, proc, stops, answered, executed, redelivered>>

\* The final ack or reject.  An error is logged and the callback returns: the
\* delivery then stays unsettled at the broker.
Settle(w) ==
    /\ At(w, "ack") \/ At(w, "reject")
    /\ SettleOk(w) \/ SettleRaises(w)
    /\ Return(w)
    /\ UNCHANGED <<ready, process, history>>

-----------------------------------------------------------------------------
(* The connection, crashes and _run's shutdown.                            *)

ChannelBreaks ==
    /\ proc # "down"
    /\ BreaksDuring
    /\ UNCHANGED <<broker, job, process, history>>

\* Mutant: the broker does not notice that the old channel is gone.
ReconnectKeepsDelivery ==
    /\ channel = "broken" /\ channel' = "open"
    /\ UNCHANGED <<broker, job, faults, process, history>>

\* connect_robust re-opens the channel; what was unsettled is delivered again.
Reconnect ==
    /\ channel = "broken" /\ channel' = "open"
    /\ Requeue
    /\ UNCHANGED <<job, faults, process, answered, errored, executed, unconfirmed, failed>>

\* Every task and callback dies with the process.
Exit ==
    /\ proc' = "down" /\ awaited' = {}
    /\ job' = [w \in Worker |-> Idle]
    /\ channel' = "open" /\ Requeue
    /\ UNCHANGED <<faults, answered, errored, executed, unconfirmed, failed>>

Crash ==
    /\ proc # "down" /\ stops < StopLimit
    /\ stops' = stops + 1
    /\ Exit

\* SIGTERM: wait for the tasks that are active now (asyncio.wait copies the set).
Sigterm ==
    /\ proc = "up" /\ stops < StopLimit
    /\ stops' = stops + 1
    /\ awaited' = {w \in Worker : job[w].pc \in TaskPC}
    /\ proc' = IF awaited' = {} THEN "closing" ELSE "draining"
    /\ UNCHANGED <<broker, net, job, history>>

Drained ==
    /\ proc = "draining" /\ awaited = {}
    /\ proc' = "closing"
    /\ UNCHANGED <<broker, net, job, awaited, stops, history>>

\* After 30 s the pending tasks are cancelled; a cancelled task publishes nothing.
GraceExpires ==
    /\ proc = "draining" /\ awaited # {}
    /\ job' = [w \in Worker |-> IF w \in awaited THEN Idle ELSE job[w]]
    /\ awaited' = {} /\ proc' = "closing"
    /\ UNCHANGED <<broker, net, stops, history>>

\* health.stop, plugin.shutdown, transport.close, and the event loop is gone.
Stop == proc = "closing" /\ UNCHANGED stops /\ Exit

\* The orchestrator starts the container again.
Start ==
    /\ proc = "down" /\ proc' = "up"
    /\ UNCHANGED <<broker, net, job, awaited, stops, history>>

WorkerStep(w) ==
    \/ EarlyAck(w) \/ HandleOk(w) \/ HandleFails(w)
    \/ PublishOk(w) \/ PublishRaises(w)
    \/ RepublishOk(w) \/ RepublishRaises(w)
    \/ ErrorOk(w) \/ ErrorRaises(w) \/ Settle(w)
Delivers == \E w \in Worker, m \in Msg, k \in Retry : Deliver(w, m, k)
Shutdown == Drained \/ GraceExpires \/ Stop \/ Start

Next ==
    \/ Delivers
    \/ \E w \in Worker : WorkerStep(w)
    \/ ChannelBreaks \/ Reconnect
    \/ Crash \/ Sigterm \/ Shutdown

Spec == Init /\ [][Next]_vars

\* Callbacks and tasks always proceed: plugin.handle is bounded by
\* pipeline_timeout and the client operations return or raise.  The broker
\* pushes what is ready, connect_robust keeps reconnecting, the shutdown has
\* its own timeouts and the orchestrator restarts the container.
FairSpec ==
    /\ Spec
    /\ WF_vars(Delivers) /\ WF_vars(Reconnect) /\ WF_vars(Shutdown)
    /\ \A w \in Worker : WF_vars(WorkerStep(w))

-----------------------------------------------------------------------------
(* Properties.                                                             *)

\* The broker no longer has the message in any form.
InBroker(m) == (\E k \in Retry : ready[<<m, k>>] > 0) \/ (\E d \in held : d.msg = m)
Results(m) == answered[m] + errored[m]

\* Whatever breaks, crashes or is shut down, an engine query is still at the
\* broker until a result of it reached the result queue, or the one attempt
\* to publish its terminal error was refused (late ACK; spec 024 SC-003).
QueryNeverLost ==
    \A m \in Query : InBroker(m) \/ Results(m) > 0 \/ m \in failed

\* Without a redelivery or a missing confirm, one delivered query or ingest
\* event yields at most one result on the result queue: neither retries nor
\* the fallback after a failed republish add a second one.
OneResult ==
    \A m \in Msg : m \notin redelivered \cup unconfirmed => Results(m) <= 1

\* The plugin runs at most max_retries times per query, and once per ingest
\* event, for each time the broker had to deliver afresh.
BoundedExecutions ==
    \A m \in Msg : m \notin redelivered \cup unconfirmed =>
        executed[m] <= IF m \in Query THEN MaxRetries ELSE 1

\* Retries stay silent: as long as a copy with a later x-retry-count is on its
\* way and nothing was redelivered or left unconfirmed, no result exists.
SilentRetries ==
    \A m \in Query \ (redelivered \cup unconfirmed) :
        (\E k \in Retry : k > 0 /\ ready[<<m, k>>] > 0) => Results(m) = 0

\* Early ACK: while the background pipeline of an ingest event works, the
\* broker has no copy of the event that it could deliver a second time.
NoRedeliveryWhileIngesting ==
    \A w \in Worker : job[w].pc \in TaskPC =>
        \/ ~InBroker(job[w].msg)
        \/ job[w].msg \in redelivered \/ channel = "broken"

\* Every message leaves the broker in the end, however the channel and the
\* process fail in between: no delivery blocks the prefetch window for good.
EverySettled == <>[](\A m \in Msg : ~InBroker(m))

\* Every query gets a result in the end, or its error publication failed.
EveryQueryAnswered == \A m \in Query : <>(Results(m) > 0 \/ m \in failed)

\* specs/015 FR-008, FR-009, SC-004: a shutdown awaits or cancels the
\* background pipelines; none is running when the process closes and exits.
ShutdownLeavesNoTask ==
    [][proc = "closing" /\ proc' = "down" =>
         \/ stops' # stops
         \/ \A w \in Worker : job[w].pc \notin TaskPC]_vars
=============================================================================
