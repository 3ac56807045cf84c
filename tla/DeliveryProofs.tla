--------------------------- MODULE DeliveryProofs ---------------------------
(***************************************************************************)
(* For any messages, slots, retry limit and number of channel failures,    *)
(* crashes and shutdowns: Delivery is type correct, an engine query never  *)
(* leaves the broker unanswered, and results, plugin runs and redeliveries *)
(* are bounded as the early and the late ACK promise.                      *)
(***************************************************************************)
EXTENDS Delivery, TLAPS

BusyPC == HandlerPC \cup TaskPC

\* A slot that is at some pc of a callback or task has a message and a header.
LEMMA BusyJob ==
    ASSUME job \in [Worker -> Job], NEW w \in Worker, job[w].pc # "idle"
    PROVE  job[w] \in [pc : BusyPC, msg : Msg, retry : Retry]
BY DEF Job, Idle, BusyPC

\* Moving a busy slot to another pc, or returning, keeps the jobs well typed
\* and touches nothing but the pc of that slot.
LEMMA JobMoves ==
    ASSUME job \in [Worker -> Job], NEW w \in Worker
    PROVE  /\ Return(w) => job' \in [Worker -> Job]
           /\ \A p \in BusyPC : job[w].pc # "idle" /\ Goto(w, p) => job' \in [Worker -> Job]
<1>1. Return(w) => job' \in [Worker -> Job]
  BY DEF Return, Job
<1>2. ASSUME NEW p \in BusyPC, job[w].pc # "idle", Goto(w, p)
      PROVE  job' \in [Worker -> Job]
  <2>1. job[w] \in [pc : BusyPC, msg : Msg, retry : Retry]
    BY <1>2, BusyJob
  <2>2. [job[w] EXCEPT !.pc = p] \in Job
    BY <2>1 DEF Job, BusyPC
  <2> QED BY <1>2, <2>2 DEF Goto
<1> QED BY <1>1, <1>2

\* Counting a result of a busy slot keeps a counter well typed.
LEMMA BumpType ==
    ASSUME job \in [Worker -> Job], NEW w \in Worker, job[w].pc # "idle",
           NEW f \in [Msg -> Nat]
    PROVE  Bump(f, w) \in [Msg -> Nat]
<1>1. job[w].msg \in Msg
  BY BusyJob
<1> QED BY <1>1 DEF Bump

\* One more copy in the queue.
LEMMA AddCopyType ==
    ASSUME ready \in [Msg \X Retry -> Nat], NEW mk
    PROVE  [ready EXCEPT ![mk] = @ + 1] \in [Msg \X Retry -> Nat]
<1>1. CASE mk \in Msg \X Retry
  BY <1>1
<1>2. CASE mk \notin Msg \X Retry
  BY <1>2
<1> QED BY <1>1, <1>2

\* The broker's and channel's helpers keep their types.
LEMMA BrokerTypes ==
    ASSUME TypeOK
    PROVE  /\ Requeue => /\ ready' \in [Msg \X Retry -> Nat]
                         /\ held' \in SUBSET Delivery
                         /\ redelivered' \in SUBSET Msg
           /\ Confirmed \/ Refused \/ BreaksDuring =>
                channel' \in {"open", "broken"} /\ faults' \in Nat
           /\ \A w \in Worker : SettleOk(w) \/ SettleRaises(w) =>
                /\ held' \in SUBSET Delivery
                /\ channel' \in {"open", "broken"} /\ faults' \in Nat
<1> USE DEF TypeOK
<1>1. Requeue => /\ ready' \in [Msg \X Retry -> Nat]
                 /\ held' \in SUBSET Delivery
                 /\ redelivered' \in SUBSET Msg
  BY DEF Requeue, Delivery
<1>2. Confirmed \/ Refused \/ BreaksDuring => channel' \in {"open", "broken"} /\ faults' \in Nat
  BY DEF Confirmed, Refused, BreaksDuring, net
<1>3. ASSUME NEW w \in Worker, SettleOk(w) \/ SettleRaises(w)
      PROVE  /\ held' \in SUBSET Delivery
             /\ channel' \in {"open", "broken"} /\ faults' \in Nat
  BY <1>3, <1>2 DEF SettleOk, SettleRaises, net
<1> QED BY <1>1, <1>2, <1>3

\* Where _retry_or_reject goes next is a pc of the callback.
LEMMA RetryOrRejectPC ==
    ASSUME NEW m, NEW k, NEW f, NEW a
    PROVE  RetryOrReject(m, k, f, a) \in BusyPC
BY DEF RetryOrReject, BusyPC, HandlerPC

\* One step of Delivery keeps every variable in its type.
LEMMA TypeStep == TypeOK /\ [Next]_vars => TypeOK'
<1> SUFFICES ASSUME TypeOK, [Next]_vars PROVE TypeOK'
  OBVIOUS
<1>job. job \in [Worker -> Job]
  BY DEF TypeOK
<1>1. ASSUME NEW w \in Worker, NEW m \in Msg, NEW k \in Retry, Deliver(w, m, k) PROVE TypeOK'
  <2>1. FirstAwait(m, k) \in BusyPC
    BY RetryOrRejectPC DEF FirstAwait, BusyPC, HandlerPC
  <2>2. job' \in [Worker -> Job]
    BY <1>1, <2>1 DEF Deliver, Job, BusyPC, TypeOK
  <2>3. ready' \in [Msg \X Retry -> Nat]
    BY <1>1 DEF Deliver, TypeOK
  <2>4. held' \in SUBSET Delivery
    BY <1>1 DEF Deliver, Delivery
  <2>5. executed' \in [Msg -> Nat]
    BY <1>1 DEF Deliver, TypeOK
  <2> QED BY <1>1, <2>2, <2>3, <2>4, <2>5 DEF Deliver, TypeOK, net, process
<1>2. ASSUME NEW w \in Worker, EarlyAck(w) PROVE TypeOK'
  <2>1. job' \in [Worker -> Job]
    BY <1>2, <1>job, JobMoves DEF EarlyAck, At, BusyPC, HandlerPC, TaskPC
  <2>2. job[w].pc # "idle"
    BY <1>2 DEF EarlyAck, At
  <2>3. executed' \in [Msg -> Nat]
    BY <1>2, <1>job, <2>2, BumpType DEF EarlyAck, TypeOK
  <2> QED BY <1>2, <2>1, <2>3, BrokerTypes DEF EarlyAck, TypeOK, process
<1>3. ASSUME NEW w \in Worker, HandleOk(w) PROVE TypeOK'
  <2>1. job' \in [Worker -> Job]
    BY <1>3, <1>job, JobMoves DEF HandleOk, At, BusyPC, HandlerPC, TaskPC
  <2> QED BY <1>3, <2>1 DEF HandleOk, TypeOK, broker, net, process, history
<1>4. ASSUME NEW w \in Worker, HandleFails(w) PROVE TypeOK'
  <2>1. job' \in [Worker -> Job]
    BY <1>4, <1>job, JobMoves, RetryOrRejectPC DEF HandleFails, At, BusyPC, TaskPC
  <2> QED BY <1>4, <2>1 DEF HandleFails, TypeOK, broker, net, process, history
<1>5. ASSUME NEW w \in Worker, PublishOk(w) PROVE TypeOK'
  <2>1. job' \in [Worker -> Job]
    BY <1>5, <1>job, JobMoves DEF PublishOk, At, BusyPC, HandlerPC
  <2>2. answered' \in [Msg -> Nat]
    BY <1>5, <1>job, BumpType DEF PublishOk, TypeOK
  <2> QED BY <1>5, <2>1, <2>2, BrokerTypes DEF PublishOk, TypeOK, broker
<1>6. ASSUME NEW w \in Worker, PublishRaises(w) PROVE TypeOK'
  <2>1. job' \in [Worker -> Job]
    BY <1>6, <1>job, JobMoves, RetryOrRejectPC DEF PublishRaises, At, BusyPC, TaskPC
  <2>2. job[w].msg \in Msg
    BY <1>6, <1>job, BusyJob DEF PublishRaises
  <2>3. answered' \in [Msg -> Nat]
    BY <1>6, <1>job, BumpType DEF PublishRaises, TypeOK
  <2> QED BY <1>6, <2>1, <2>2, <2>3, BrokerTypes DEF PublishRaises, TypeOK, broker, process
<1>7. ASSUME NEW w \in Worker, RepublishOk(w) PROVE TypeOK'
  <2>1. job' \in [Worker -> Job]
    BY <1>7, <1>job, JobMoves DEF RepublishOk, At, BusyPC, HandlerPC
  <2>2. ready' \in [Msg \X Retry -> Nat]
    BY <1>7, AddCopyType DEF RepublishOk, TypeOK
  <2> QED BY <1>7, <2>1, <2>2, BrokerTypes DEF RepublishOk, TypeOK, process, history
<1>8. ASSUME NEW w \in Worker, RepublishRaises(w) PROVE TypeOK'
  <2>1. job' \in [Worker -> Job]
    BY <1>8, <1>job, JobMoves DEF RepublishRaises, At, BusyPC, HandlerPC
  <2>2. ready' \in [Msg \X Retry -> Nat]
    <3>1. ready \in [Msg \X Retry -> Nat]
      BY DEF TypeOK
    <3>2. ready' = ready \/ \E mk : ready' = [ready EXCEPT ![mk] = @ + 1]
      BY <1>8, Zenon DEF RepublishRaises
    <3> QED BY <3>1, <3>2, AddCopyType
  <2>3. job[w].msg \in Msg
    BY <1>8, <1>job, BusyJob DEF RepublishRaises, At
  <2> QED BY <1>8, <2>1, <2>2, <2>3, BrokerTypes DEF RepublishRaises, TypeOK, process
<1>9. ASSUME NEW w \in Worker, ErrorOk(w) PROVE TypeOK'
  <2>1. job' \in [Worker -> Job]
    BY <1>9, <1>job, JobMoves DEF ErrorOk, At, BusyPC, HandlerPC
  <2>2. errored' \in [Msg -> Nat]
    BY <1>9, <1>job, BumpType DEF ErrorOk, ErrorPC, TypeOK
  <2> QED BY <1>9, <2>1, <2>2, BrokerTypes DEF ErrorOk, TypeOK, broker
<1>10. ASSUME NEW w \in Worker, ErrorRaises(w) PROVE TypeOK'
  <2>1. job[w].pc # "idle"
    BY <1>10 DEF ErrorRaises, ErrorPC
  <2>2. job' \in [Worker -> Job]
    BY <1>10, <1>job, <2>1, JobMoves DEF ErrorRaises, At, BusyPC, HandlerPC
  <2>3. job[w].msg \in Msg
    BY <1>job, <2>1, BusyJob
  <2>4. errored' \in [Msg -> Nat]
    BY <1>10, <1>job, <2>1, BumpType DEF ErrorRaises, TypeOK
  <2> QED BY <1>10, <2>2, <2>3, <2>4, BrokerTypes DEF ErrorRaises, TypeOK, broker
<1>11. ASSUME NEW w \in Worker, Settle(w) PROVE TypeOK'
  <2>1. job' \in [Worker -> Job]
    BY <1>11, <1>job, JobMoves DEF Settle
  <2> QED BY <1>11, <2>1, BrokerTypes DEF Settle, TypeOK, process, history
<1>12. CASE ChannelBreaks
  BY <1>12, BrokerTypes DEF ChannelBreaks, TypeOK, broker, process, history
<1>13. CASE Reconnect
  BY <1>13, BrokerTypes DEF Reconnect, TypeOK, process
<1>14. CASE Exit /\ stops' \in Nat
  BY <1>14, BrokerTypes DEF Exit, TypeOK, Job
<1>15. CASE Crash
  BY <1>15, <1>14 DEF Crash, TypeOK
<1>16. CASE Sigterm
  BY <1>16 DEF Sigterm, TypeOK, broker, net, history
<1>17. CASE Shutdown
  <2>1. CASE Drained
    BY <2>1 DEF Drained, TypeOK, broker, net, history
  <2>2. CASE GraceExpires
    BY <2>2 DEF GraceExpires, TypeOK, Job, broker, net, history
  <2>3. CASE Stop
    BY <2>3, <1>14 DEF Stop, TypeOK
  <2>4. CASE Start
    BY <2>4 DEF Start, TypeOK, broker, net, history
  <2> QED BY <1>17, <2>1, <2>2, <2>3, <2>4 DEF Shutdown
<1>18. CASE UNCHANGED vars
  BY <1>18 DEF vars, TypeOK
<1> QED BY <1>1, <1>2, <1>3, <1>4, <1>5, <1>6, <1>7, <1>8, <1>9, <1>10, <1>11,
           <1>12, <1>13, <1>15, <1>16, <1>17, <1>18 DEF Next, Delivers, WorkerStep

\* Every state of Delivery has the declared types: slots, deliveries, headers
\* and counters stay within what the code can put there.
THEOREM TypeCorrect == Spec => []TypeOK
<1>1. Init => TypeOK
  BY ConstantsOK DEF Init, TypeOK, Job, Retry
<1> QED BY <1>1, TypeStep, PTL DEF Spec

-----------------------------------------------------------------------------
(* An engine query is never lost.  QueryNeverLost is not inductive: that a *)
(* delivery may be settled rests on what the callback did before it.       *)

\* A copy waits in the queue, a result was published or its publication failed.
Answered(m) == (\E k \in Retry : ready[<<m, k>>] > 0) \/ Results(m) > 0 \/ m \in failed

SingleHeld == \A d, e \in held : d = e
HeldJob == \A d \in held : job[d.by].pc # "idle" => job[d.by].msg = d.msg
EarlyAckIngest == \A w \in Worker : job[w].pc = "earlyAck" => job[w].msg \in Ingest
RetryLeft == \A w \in Worker : job[w].pc = "republish" => job[w].retry < MaxRetries - 1
SettlingAnswered ==
    \A w \in Worker : Live(w) /\ job[w].pc \in {"ack", "reject"} /\ job[w].msg \in Query
                         => Answered(job[w].msg)

IInv == TypeOK /\ SingleHeld /\ HeldJob /\ EarlyAckIngest /\ RetryLeft
        /\ SettlingAnswered /\ QueryNeverLost

\* What the queue, the counters and `failed' may do in a step that settles nothing.
Grows ==
    /\ held' = held
    /\ \A mk \in Msg \X Retry : ready'[mk] >= ready[mk]
    /\ \A m \in Msg : answered'[m] >= answered[m] /\ errored'[m] >= errored[m]
    /\ failed \subseteq failed'

\* Where nothing is settled, what was answered or in the broker remains so.
LEMMA GrowsKeeps ==
    ASSUME TypeOK, TypeOK', QueryNeverLost, Grows
    PROVE  /\ \A m \in Msg : Answered(m) => Answered(m)'
           /\ QueryNeverLost'
<1>1. ASSUME NEW m \in Msg, NEW k \in Retry, ready[<<m, k>>] > 0
      PROVE  ready'[<<m, k>>] > 0
  BY <1>1 DEF Grows, TypeOK
<1>2. ASSUME NEW m \in Msg, Results(m) > 0 PROVE Results(m)' > 0
  BY <1>2 DEF Grows, Results, TypeOK
<1>3. \A m \in Msg : Answered(m) => Answered(m)'
  BY <1>1, <1>2 DEF Grows, Answered
<1>4. QueryNeverLost'
  BY <1>1, <1>2 DEF Grows, QueryNeverLost, InBroker, Msg
<1> QED BY <1>3, <1>4

\* Requeueing returns every held delivery to the queue, so no query is lost by
\* a reconnect, a crash or an exit.
LEMMA RequeueKeeps ==
    ASSUME TypeOK, QueryNeverLost, Requeue, UNCHANGED <<answered, errored, failed>>
    PROVE  QueryNeverLost'
<1> SUFFICES ASSUME NEW m \in Query, InBroker(m) PROVE InBroker(m)'
  BY DEF QueryNeverLost, Results
<1>1. CASE \E k \in Retry : ready[<<m, k>>] > 0
  <2>1. PICK k \in Retry : ready[<<m, k>>] > 0
    BY <1>1
  <2>2. <<m, k>> \in Msg \X Retry
    BY DEF Msg
  <2>3. ready'[<<m, k>>] \in {ready[<<m, k>>], ready[<<m, k>>] + 1}
    BY <2>2 DEF Requeue
  <2>4. ready[<<m, k>>] \in Nat
    BY <2>2 DEF TypeOK
  <2> QED BY <2>1, <2>3, <2>4 DEF InBroker
<1>2. CASE \E d \in held : d.msg = m
  <2>1. PICK d \in held : d.msg = m
    BY <1>2
  <2>2. d.retry \in Retry /\ <<m, d.retry>> \in Msg \X Retry
    BY <2>1 DEF TypeOK, Delivery, Msg
  <2>3. ready'[<<m, d.retry>>] = ready[<<m, d.retry>>] + 1
    BY <2>1, <2>2 DEF Requeue
  <2>4. ready[<<m, d.retry>>] \in Nat
    BY <2>2 DEF TypeOK
  <2> QED BY <2>2, <2>3, <2>4 DEF InBroker
<1> QED BY <1>1, <1>2 DEF InBroker

\* A callback that moves slot w to pc p, and settles nothing, keeps the
\* invariant if p's own obligation is met.
LEMMA MoveKeeps ==
    ASSUME IInv, TypeOK', Grows, NEW w \in Worker, NEW p \in BusyPC,
           NEW m, m = job[w].msg,
           job[w].pc # "idle", Goto(w, p),
           p # "earlyAck",
           p = "republish" => job[w].retry < MaxRetries - 1,
           p \in {"ack", "reject"} /\ m \in Query => Answered(m)'
    PROVE  IInv'
<1> DEFINE W == job'[w]
<1>1. /\ W.pc = p /\ W.msg = job[w].msg /\ W.retry = job[w].retry
      /\ \A v \in Worker : v # w => job'[v] = job[v]
  <2>1. job[w] \in [pc : BusyPC, msg : Msg, retry : Retry]
    BY BusyJob DEF IInv, TypeOK
  <2> QED BY <2>1 DEF Goto, IInv, TypeOK
<1>2. QueryNeverLost' /\ \A x \in Msg : Answered(x) => Answered(x)'
  BY GrowsKeeps DEF IInv
<1>3. SingleHeld' /\ HeldJob'
  BY <1>1 DEF IInv, SingleHeld, HeldJob, Grows, TypeOK, Delivery
<1>4. EarlyAckIngest' /\ RetryLeft'
  BY <1>1 DEF IInv, EarlyAckIngest, RetryLeft
<1>5. SettlingAnswered'
  BY <1>1, <1>2 DEF IInv, SettlingAnswered, Grows, Live, Msg
<1> QED BY <1>2, <1>3, <1>4, <1>5 DEF IInv

\* A step that only puts slots back to idle, and settles nothing, keeps it too.
LEMMA IdleKeeps ==
    ASSUME IInv, TypeOK', Grows,
           \A v \in Worker : job'[v] = job[v] \/ job'[v] = Idle
    PROVE  IInv'
<1>1. QueryNeverLost' /\ \A m \in Msg : Answered(m) => Answered(m)'
  BY GrowsKeeps DEF IInv
<1>2. SingleHeld' /\ HeldJob'
  BY DEF IInv, SingleHeld, HeldJob, Grows, TypeOK, Delivery, Idle
<1>3. EarlyAckIngest' /\ RetryLeft'
  BY DEF IInv, EarlyAckIngest, RetryLeft, Idle
<1>4. SettlingAnswered'
  BY <1>1 DEF IInv, SettlingAnswered, Grows, Live, Idle, Msg
<1> QED BY <1>1, <1>2, <1>3, <1>4 DEF IInv

\* The parts of a step that touch neither the queue nor the counters.
LEMMA StillGrows ==
    ASSUME TypeOK, UNCHANGED <<ready, held, answered, errored, failed>>
    PROVE  Grows
BY DEF Grows, TypeOK

\* A result counted for a busy slot, or a copy republished, is growth.
LEMMA CountGrows ==
    ASSUME TypeOK, NEW w \in Worker, job[w].pc # "idle"
    PROVE  /\ Bump(answered, w)[job[w].msg] > 0 /\ Bump(errored, w)[job[w].msg] > 0
           /\ \A m \in Msg : /\ Bump(answered, w)[m] >= answered[m]
                             /\ Bump(errored, w)[m] >= errored[m]
<1>1. job[w].msg \in Msg
  BY BusyJob DEF TypeOK
<1> QED BY <1>1 DEF Bump, TypeOK

\* The queue after republishing keeps its copies.
LEMMA AddCopyGrows ==
    ASSUME TypeOK, NEW mk
    PROVE  \A x \in Msg \X Retry : [ready EXCEPT ![mk] = @ + 1][x] >= ready[x]
BY DEF TypeOK

\* A counted result makes the message answered.
LEMMA CountedAnswered ==
    ASSUME TypeOK', NEW m \in Msg, answered'[m] > 0 \/ errored'[m] > 0
    PROVE  Answered(m)'
<1>1. answered'[m] \in Nat /\ errored'[m] \in Nat
  BY DEF TypeOK
<1>2. answered'[m] + errored'[m] > 0
  BY <1>1
<1> QED BY <1>2 DEF Answered, Results

\* The broker forgets the delivery of slot w: allowed when its message is no
\* query, or is answered.
LEMMA SettledKeeps ==
    ASSUME IInv, TypeOK', NEW w \in Worker, Live(w), job[w].pc # "idle",
           held' = {d \in held : d.by # w},
           UNCHANGED <<ready, answered, errored, failed>>,
           \A v \in Worker : v # w => job'[v] = job[v],
           job'[w].pc \notin {"earlyAck", "republish"},
           job[w].msg \in Query => Answered(job[w].msg)
    PROVE  IInv'
<1>1. PICK d \in held : d.by = w /\ d.msg = job[w].msg
  BY DEF Live, IInv, HeldJob
<1>2. held = {d} /\ held' = {}
  BY <1>1 DEF IInv, SingleHeld
<1>3. SingleHeld' /\ HeldJob' /\ SettlingAnswered'
  BY <1>2 DEF SingleHeld, HeldJob, SettlingAnswered, Live
<1>4. EarlyAckIngest' /\ RetryLeft'
  BY DEF IInv, EarlyAckIngest, RetryLeft
<1>5. QueryNeverLost'
  BY <1>1, <1>2 DEF IInv, QueryNeverLost, InBroker, Answered, Results
<1> QED BY <1>3, <1>4, <1>5 DEF IInv

\* One step of a callback or task keeps the invariant.
LEMMA WorkerKeeps ==
    ASSUME IInv, TypeOK', NEW w \in Worker, WorkerStep(w)
    PROVE  IInv'
<1>type. TypeOK
  BY DEF IInv
<1>query. Query \cap Ingest = {}
  BY KindsDisjoint
<1>m. PICK m : m = job[w].msg
  OBVIOUS
<1>1. CASE HandleOk(w)
  <2>1. Grows
    BY <1>1, <1>type, StillGrows DEF HandleOk, broker, history
  <2> QED BY <1>1, <2>1, <1>m, MoveKeeps DEF HandleOk, At, BusyPC, HandlerPC, TaskPC
<1>2. CASE HandleFails(w)
  <2>1. Grows
    BY <1>2, <1>type, StillGrows DEF HandleFails, broker, history
  <2>2. CASE At(w, "running")
    BY <1>2, <2>1, <2>2, <1>m, MoveKeeps DEF HandleFails, At, BusyPC, TaskPC
  <2>3. CASE At(w, "handling")
    <3>1. PICK f, a \in BOOLEAN : Goto(w, RetryOrReject(job[w].msg, job[w].retry, f, a))
      BY <1>2, <2>3 DEF HandleFails, At
    <3> DEFINE p == RetryOrReject(job[w].msg, job[w].retry, f, a)
    <3>2. /\ p \in BusyPC /\ p \notin {"earlyAck", "ack"}
          /\ p = "republish" => job[w].retry < MaxRetries - 1
          /\ p = "reject" => job[w].msg \notin Query
      BY RetryOrRejectPC DEF RetryOrReject
    <3> HIDE DEF p
    <3>3. Goto(w, p)
      BY <3>1 DEF p
    <3> QED BY <2>1, <2>3, <3>2, <3>3, <1>m, MoveKeeps DEF At
  <2> QED BY <1>2, <2>2, <2>3 DEF HandleFails
<1>3. CASE PublishOk(w)
  <2>1. Grows
    BY <1>3, <1>type, CountGrows DEF PublishOk, Grows, broker, TypeOK
  <2>2. Answered(m)'
    <3>1. m \in Msg
      BY <1>3, <1>type, <1>m, BusyJob DEF PublishOk, TypeOK
    <3>2. answered'[m] > 0
      BY <1>3, <1>type, <1>m, CountGrows DEF PublishOk
    <3> QED BY <3>1, <3>2, CountedAnswered
  <2>3. CASE At(w, "publish")
    BY <1>3, <2>1, <2>2, <2>3, <1>m, MoveKeeps DEF PublishOk, At, BusyPC, HandlerPC
  <2>4. CASE At(w, "taskPublish")
    BY <1>3, <1>type, <2>1, <2>4, IdleKeeps DEF PublishOk, At, Return, TypeOK
  <2> QED BY <1>3, <2>3, <2>4 DEF PublishOk
<1>4. CASE PublishRaises(w)
  <2>1. Grows
    BY <1>4, <1>type, CountGrows DEF PublishRaises, Grows, broker, TypeOK
  <2>2. CASE At(w, "taskPublish")
    BY <1>4, <2>1, <2>2, <1>m, MoveKeeps DEF PublishRaises, At, BusyPC, TaskPC
  <2>3. CASE At(w, "publish")
    <3> DEFINE p == RetryOrReject(job[w].msg, job[w].retry, FALSE, FALSE)
    <3>2. /\ p \in BusyPC /\ p \notin {"earlyAck", "ack"}
          /\ p = "republish" => job[w].retry < MaxRetries - 1
          /\ p = "reject" => job[w].msg \notin Query
      BY RetryOrRejectPC DEF RetryOrReject
    <3> HIDE DEF p
    <3>3. Goto(w, p)
      BY <1>4, <2>3 DEF p, PublishRaises, At
    <3> QED BY <2>1, <2>3, <3>2, <3>3, <1>m, MoveKeeps DEF At
  <2> QED BY <1>4, <2>2, <2>3 DEF PublishRaises
<1>5. CASE RepublishOk(w)
  <2>1. Grows
    BY <1>5, <1>type, AddCopyGrows DEF RepublishOk, Grows, history, TypeOK
  <2>2. Answered(m)'
    <3>1. /\ m \in Msg /\ job[w].retry \in Retry
          /\ job[w].retry < MaxRetries - 1
      BY <1>5, <1>m, BusyJob DEF RepublishOk, At, IInv, TypeOK, RetryLeft
    <3>2. job[w].retry + 1 \in Retry
      BY <3>1, ConstantsOK DEF Retry
    <3>3. <<m, job[w].retry + 1>> \in Msg \X Retry
      BY <3>1, <3>2
    <3>4. ready'[<<m, job[w].retry + 1>>] > 0
      BY <1>5, <1>m, <1>type, <3>3 DEF RepublishOk, TypeOK
    <3> QED BY <3>2, <3>4 DEF Answered
  <2> QED BY <1>5, <2>1, <2>2, <1>m, MoveKeeps DEF RepublishOk, At, BusyPC, HandlerPC
<1>6. CASE RepublishRaises(w)
  <2>1. Grows
    BY <1>6, <1>type, AddCopyGrows DEF RepublishRaises, Grows, TypeOK
  <2> QED BY <1>6, <2>1, <1>m, MoveKeeps DEF RepublishRaises, At, BusyPC, HandlerPC
<1>7. CASE ErrorOk(w)
  <2>1. job[w].pc # "idle"
    BY <1>7 DEF ErrorOk, ErrorPC
  <2>2. Grows
    BY <1>7, <1>type, <2>1, CountGrows DEF ErrorOk, Grows, broker, TypeOK
  <2>3. Answered(m)'
    <3>1. m \in Msg
      BY <2>1, <1>type, <1>m, BusyJob DEF TypeOK
    <3>2. errored'[m] > 0
      BY <1>7, <1>type, <1>m, <2>1, CountGrows DEF ErrorOk
    <3> QED BY <3>1, <3>2, CountedAnswered
  <2>4. CASE At(w, "taskError")
    BY <1>7, <1>type, <2>2, <2>4, IdleKeeps DEF ErrorOk, At, Return, TypeOK
  <2> QED BY <1>7, <2>2, <2>3, <2>4, <1>m, MoveKeeps DEF ErrorOk, At, BusyPC, HandlerPC
<1>8. CASE ErrorRaises(w)
  <2>1. job[w].pc # "idle"
    BY <1>8 DEF ErrorRaises, ErrorPC
  <2>2. Grows
    BY <1>8, <1>type, <2>1, CountGrows DEF ErrorRaises, Grows, broker, TypeOK
  <2>3. Answered(m)'
    <3>1. m \in Msg
      BY <2>1, <1>type, <1>m, BusyJob DEF TypeOK
    <3>2. m \in failed' \/ errored'[m] > 0
      BY <1>8, <1>type, <1>m, <2>1, CountGrows DEF ErrorRaises
    <3> QED BY <3>1, <3>2, CountedAnswered DEF Answered
  <2>4. CASE At(w, "taskError")
    BY <1>8, <1>type, <2>2, <2>4, IdleKeeps DEF ErrorRaises, At, Return, TypeOK
  <2> QED BY <1>8, <2>1, <2>2, <2>3, <2>4, <1>m, MoveKeeps DEF ErrorRaises, At, BusyPC, HandlerPC
<1>9. CASE EarlyAck(w)
  <2>1. job[w].pc = "earlyAck" /\ job[w].msg \in Ingest /\ job[w].msg \notin Query
    BY <1>9, <1>query DEF EarlyAck, At, IInv, EarlyAckIngest
  <2>2. CASE UNCHANGED held
    <3>1. Grows
      BY <1>9, <2>2, <1>type, StillGrows DEF EarlyAck
    <3> QED BY <1>9, <2>1, <3>1, <1>m, MoveKeeps DEF EarlyAck, BusyPC, HandlerPC, TaskPC
  <2>3. CASE Live(w) /\ held' = {d \in held : d.by # w} /\ Goto(w, "running")
    <3>1. job'[w].pc = "running" /\ \A v \in Worker : v # w => job'[v] = job[v]
      <4>1. job[w] \in [pc : BusyPC, msg : Msg, retry : Retry]
        BY <2>1, <1>type, BusyJob DEF TypeOK
      <4> QED BY <2>3, <4>1, <1>type DEF Goto, TypeOK
    <3> QED BY <1>9, <2>1, <2>3, <3>1, SettledKeeps DEF EarlyAck
  <2> QED BY <1>9, <2>2, <2>3 DEF EarlyAck, SettleOk, SettleRaises
<1>10. CASE Settle(w)
  <2>1. job[w].pc \in {"ack", "reject"} /\ UNCHANGED <<ready, answered, errored, failed>>
    BY <1>10 DEF Settle, At, history
  <2>2. job'[w] = Idle /\ \A v \in Worker : v # w => job'[v] = job[v]
    BY <1>10, <1>type DEF Settle, Return, TypeOK
  <2>3. CASE UNCHANGED held
    <3>1. Grows
      BY <2>1, <2>3, <1>type, StillGrows
    <3> QED BY <2>2, <3>1, IdleKeeps
  <2>4. CASE Live(w) /\ held' = {d \in held : d.by # w}
    BY <2>1, <2>2, <2>4, SettledKeeps DEF IInv, SettlingAnswered, Idle
  <2> QED BY <1>10, <2>3, <2>4 DEF Settle, SettleOk, SettleRaises
<1> QED BY <1>1, <1>2, <1>3, <1>4, <1>5, <1>6, <1>7, <1>8, <1>9, <1>10 DEF WorkerStep

\* The broker sends a ready message to an idle slot: the copy moves from the
\* queue to `held'.
LEMMA DeliverKeeps ==
    ASSUME IInv, TypeOK', NEW w \in Worker, NEW m \in Msg, NEW k \in Retry, Deliver(w, m, k)
    PROVE  IInv'
<1>1. job'[w] = [pc |-> FirstAwait(m, k), msg |-> m, retry |-> k]
      /\ \A v \in Worker : v # w => job'[v] = job[v]
  BY DEF Deliver, IInv, TypeOK
<1>2. held = {} /\ held' = {[msg |-> m, retry |-> k, by |-> w]}
  BY DEF Deliver
<1>3. /\ FirstAwait(m, k) = "earlyAck" => m \in Ingest
      /\ FirstAwait(m, k) = "republish" => k < MaxRetries - 1
      /\ m \in Query => FirstAwait(m, k) = "handling"
  BY KindsDisjoint DEF FirstAwait, RetryOrReject, Msg
<1>4. SingleHeld' /\ HeldJob'
  BY <1>1, <1>2 DEF SingleHeld, HeldJob
<1>5. EarlyAckIngest' /\ RetryLeft'
  BY <1>1, <1>3 DEF IInv, EarlyAckIngest, RetryLeft
<1>6. SettlingAnswered'
  BY <1>1, <1>2, <1>3 DEF SettlingAnswered, Live
<1>7. QueryNeverLost'
  <2> SUFFICES ASSUME NEW q \in Query, InBroker(q) PROVE InBroker(q)'
    BY DEF IInv, QueryNeverLost, Deliver, Results
  <2>1. CASE q = m
    BY <2>1, <1>2 DEF InBroker
  <2>2. CASE q # m
    <3>1. PICK l \in Retry : ready[<<q, l>>] > 0
      BY <1>2 DEF InBroker
    <3>2. ready'[<<q, l>>] = ready[<<q, l>>]
      BY <2>2 DEF Deliver, IInv, TypeOK, Msg
    <3> QED BY <3>1, <3>2 DEF InBroker
  <2> QED BY <2>1, <2>2
<1> QED BY <1>4, <1>5, <1>6, <1>7 DEF IInv

\* One step of Delivery keeps the invariant.
LEMMA InvStep == IInv /\ [Next]_vars => IInv'
<1> SUFFICES ASSUME IInv, [Next]_vars PROVE IInv'
  OBVIOUS
<1>type. TypeOK /\ TypeOK'
  BY TypeStep DEF IInv
<1>1. CASE Delivers
  BY <1>1, <1>type, DeliverKeeps DEF Delivers
<1>2. ASSUME NEW w \in Worker, WorkerStep(w) PROVE IInv'
  BY <1>2, <1>type, WorkerKeeps
<1>3. CASE ChannelBreaks \/ Sigterm \/ Drained \/ GraceExpires \/ Start
  <2>1. Grows
    BY <1>3, <1>type, StillGrows DEF ChannelBreaks, Sigterm, Drained, GraceExpires, Start, broker, history
  <2>2. \A v \in Worker : job'[v] = job[v] \/ job'[v] = Idle
    BY <1>3, <1>type DEF ChannelBreaks, Sigterm, Drained, GraceExpires, Start, TypeOK
  <2> QED BY <1>type, <2>1, <2>2, IdleKeeps
<1>4. ASSUME Requeue, UNCHANGED <<answered, errored, failed>>,
             \A v \in Worker : job'[v] = job[v] \/ job'[v] = Idle
      PROVE  IInv'
  <2>1. held' = {}
    BY <1>4 DEF Requeue
  <2>2. SingleHeld' /\ HeldJob' /\ SettlingAnswered'
    BY <2>1 DEF SingleHeld, HeldJob, SettlingAnswered, Live
  <2>3. EarlyAckIngest' /\ RetryLeft'
    BY <1>4 DEF IInv, EarlyAckIngest, RetryLeft, Idle
  <2>4. QueryNeverLost'
    BY <1>4, RequeueKeeps DEF IInv
  <2> QED BY <1>type, <2>2, <2>3, <2>4 DEF IInv
<1>5. CASE Reconnect
  BY <1>4, <1>5 DEF Reconnect
<1>6. CASE Crash \/ Stop
  BY <1>4, <1>6, <1>type DEF Crash, Stop, Exit, TypeOK
<1>7. CASE UNCHANGED vars
  <2>1. Grows
    BY <1>7, <1>type, StillGrows DEF vars
  <2> QED BY <1>7, <1>type, <2>1, IdleKeeps DEF vars
<1> QED BY <1>1, <1>2, <1>3, <1>5, <1>6, <1>7 DEF Next, Shutdown

LEMMA InvInit == Init => IInv
<1> SUFFICES ASSUME Init PROVE IInv
  OBVIOUS
<1>1. TypeOK
  BY ConstantsOK DEF Init, TypeOK, Job, Retry
<1>2. QueryNeverLost
  <2> SUFFICES ASSUME NEW m \in Query PROVE \E k \in Retry : ready[<<m, k>>] > 0
    BY DEF QueryNeverLost, InBroker
  <2>1. 0 \in Retry /\ <<m, 0>> \in Msg \X Retry
    BY ConstantsOK DEF Retry, Msg
  <2>2. ready[<<m, 0>>] = 1
    BY <2>1 DEF Init
  <2> QED BY <2>1, <2>2
<1> QED BY <1>1, <1>2 DEF Init, IInv, SingleHeld, HeldJob, EarlyAckIngest, RetryLeft,
          SettlingAnswered, Live, Idle

\* Whatever the channel, crashes and shutdowns do, an engine query stays at the
\* broker until a result of it was published or the one attempt to publish its
\* terminal error was refused: the late ACK of on_message never drops a query.
THEOREM NeverLost == Spec => []QueryNeverLost
<1>1. IInv => QueryNeverLost
  BY DEF IInv
<1> QED BY <1>1, InvInit, InvStep, PTL DEF Spec

-----------------------------------------------------------------------------
(* Results, plugin runs and redeliveries are counted per message.  What    *)
(* bounds them: as long as the broker has not redelivered a message and no *)
(* confirm of it is missing, there is one token for it, a copy in the queue *)
(* or a slot that still works on it, and the token is spent by a result.   *)

\* Slot w works on m: it may still publish for it, republish it or run the plugin.
Works(w, m) == job[w].msg = m /\ job[w].pc \notin {"idle", "ack", "reject"}
\* m has not been redelivered, nor, where that adds a copy, left unconfirmed.
Undisturbed(m) == m \notin redelivered /\ (m \in Ingest \/ m \notin unconfirmed)

OneToken(m) ==
    /\ \A k \in Retry : ready[<<m, k>>] <= 1
    /\ \A k, l \in Retry : ready[<<m, k>>] > 0 /\ ready[<<m, l>>] > 0 => k = l
    /\ \A w \in Worker : Works(w, m) => \A k \in Retry : ready[<<m, k>>] = 0
    /\ \A w, v \in Worker : Works(w, m) /\ Works(v, m) => w = v
SpentByResult(m) ==
    /\ Results(m) <= 1
    /\ \A k \in Retry : ready[<<m, k>>] > 0 => Results(m) = 0
    /\ \A w \in Worker : Works(w, m) => Results(m) = 0
\* The header of the token bounds how often the plugin ran on a query.
RunsCounted(m) ==
    /\ executed[m] <= IF m \in Query THEN MaxRetries ELSE 1
    /\ \A k \in Retry : ready[<<m, k>>] > 0 => executed[m] <= IF m \in Query THEN k ELSE 0
    /\ \A w \in Worker : Works(w, m) =>
         executed[m] <= IF m \in Query THEN job[w].retry + 1
                        ELSE IF job[w].pc \in TaskPC THEN 1 ELSE 0
Counted(m) ==
    Undisturbed(m) => /\ OneToken(m)
                      /\ m \notin unconfirmed => SpentByResult(m) /\ RunsCounted(m)

\* Only ingest events are acknowledged early and become tasks, and they are
\* never retried.
KindOfPC ==
    \A w \in Worker :
        /\ job[w].pc \in TaskPC \cup {"earlyAck"} => job[w].msg \in Ingest
        /\ job[w].msg \in Ingest => job[w].pc \in TaskPC \cup {"earlyAck", "reject"}
\* The broker still holds the event of a task only if the ack went down with
\* the channel.
AckedFirst ==
    \A w \in Worker, d \in held :
        job[w].pc \in TaskPC /\ d.msg = job[w].msg =>
            channel = "broken" \/ d.msg \in redelivered

CInv == IInv /\ KindOfPC /\ AckedFirst /\ \A m \in Msg : Counted(m)

\* Moving a busy slot touches nothing but its pc.
LEMMA GotoFields ==
    ASSUME TypeOK, NEW w \in Worker, job[w].pc # "idle", NEW p, Goto(w, p)
    PROVE  /\ job'[w].pc = p /\ job'[w].msg = job[w].msg /\ job'[w].retry = job[w].retry
           /\ \A v \in Worker : v # w => job'[v] = job[v]
<1>1. job[w] \in [pc : BusyPC, msg : Msg, retry : Retry]
  BY BusyJob DEF TypeOK
<1> QED BY <1>1 DEF Goto, TypeOK

\* What a step may do to slot v, seen from message m: stop working on it or
\* go on with it.
GoesOn(v, m) ==
    Works(v, m)' => /\ Works(v, m) /\ job'[v].retry = job[v].retry
                    /\ job'[v].pc \in TaskPC <=> job[v].pc \in TaskPC

\* A message of which a step moves no copy and counts nothing stays counted.
LEMMA CountedKept ==
    ASSUME TypeOK, NEW m \in Msg, Counted(m),
           redelivered \subseteq redelivered', unconfirmed \subseteq unconfirmed',
           m \notin redelivered' => \A k \in Retry : ready'[<<m, k>>] = ready[<<m, k>>],
           m \notin unconfirmed' => answered'[m] = answered[m] /\ errored'[m] = errored[m],
           executed'[m] = executed[m],
           \A v \in Worker : GoesOn(v, m)
    PROVE  Counted(m)'
<1> SUFFICES ASSUME Undisturbed(m)'
             PROVE  /\ OneToken(m)'
                    /\ m \notin unconfirmed' => SpentByResult(m)' /\ RunsCounted(m)'
  BY DEF Counted
<1>1. Undisturbed(m) /\ \A k \in Retry : ready'[<<m, k>>] = ready[<<m, k>>]
  BY DEF Undisturbed
<1>2. OneToken(m)'
  BY <1>1 DEF Counted, OneToken, GoesOn
<1>3. ASSUME m \notin unconfirmed' PROVE SpentByResult(m)'
  <2>1. SpentByResult(m) /\ Results(m)' = Results(m)
    BY <1>1, <1>3 DEF Counted, Results
  <2> QED BY <1>1, <2>1 DEF SpentByResult, GoesOn
<1>4. ASSUME m \notin unconfirmed' PROVE RunsCounted(m)'
  <2>1. RunsCounted(m)
    BY <1>1, <1>4 DEF Counted
  <2> QED BY <1>1, <2>1 DEF RunsCounted, GoesOn
<1> QED BY <1>2, <1>3, <1>4

\* The other messages do not notice what a slot does with its own.
LEMMA OthersKept ==
    ASSUME TypeOK, NEW w \in Worker, job[w].pc # "idle",
           NEW m \in Msg, m # job[w].msg, Counted(m),
           redelivered' = redelivered, unconfirmed \subseteq unconfirmed',
           \A k \in Retry : ready'[<<m, k>>] = ready[<<m, k>>],
           answered'[m] = answered[m], errored'[m] = errored[m], executed'[m] = executed[m],
           \A v \in Worker : v # w => job'[v] = job[v],
           job'[w].msg # m
    PROVE  Counted(m)'
<1>1. \A v \in Worker : GoesOn(v, m)
  BY DEF GoesOn, Works
<1> QED BY <1>1, CountedKept

\* The counters of a step change for the slot's own message only.
LEMMA BumpOthers ==
    ASSUME NEW w \in Worker, NEW f \in [Msg -> Nat], NEW m \in Msg, m # job[w].msg
    PROVE  Bump(f, w)[m] = f[m]
BY DEF Bump

LEMMA BumpOwn ==
    ASSUME TypeOK, NEW w \in Worker, job[w].pc # "idle", NEW f \in [Msg -> Nat]
    PROVE  Bump(f, w)[job[w].msg] = f[job[w].msg] + 1
<1>1. job[w].msg \in Msg
  BY BusyJob DEF TypeOK
<1> QED BY <1>1 DEF Bump

\* A slot that moves on or ends, and neither executes nor republishes: its own
\* message stays counted unless it counted a result.
LEMMA MovesOn ==
    ASSUME TypeOK, NEW w \in Worker, job[w].pc \notin {"idle"},
           \A m \in Msg : Counted(m),
           redelivered' = redelivered, unconfirmed \subseteq unconfirmed',
           ready' = ready, executed' = executed,
           \A m \in Msg : m \notin unconfirmed' => answered'[m] = answered[m] /\ errored'[m] = errored[m],
           \A m \in Msg : m # job[w].msg => answered'[m] = answered[m] /\ errored'[m] = errored[m],
           \A v \in Worker : v # w => job'[v] = job[v],
           \/ job'[w].msg \notin Msg
           \/ job'[w].pc \in {"idle", "ack", "reject"}
           \/ /\ job'[w].msg = job[w].msg /\ job'[w].retry = job[w].retry
              /\ job[w].pc \notin {"ack", "reject"}
              /\ job'[w].pc \in TaskPC <=> job[w].pc \in TaskPC
    PROVE  \A m \in Msg : Counted(m)'
<1> TAKE m \in Msg
<1>1. \A v \in Worker : GoesOn(v, m)
  BY DEF GoesOn, Works
<1> QED BY <1>1, CountedKept

\* A confirmed result spends the token of its message.
LEMMA ResultSpends ==
    ASSUME TypeOK, NEW w \in Worker, job[w].pc \notin {"idle", "ack", "reject"},
           \A m \in Msg : Counted(m),
           UNCHANGED <<ready, redelivered, unconfirmed, executed>>,
           \/ answered' = Bump(answered, w) /\ errored' = errored
           \/ errored' = Bump(errored, w) /\ answered' = answered,
           \A v \in Worker : v # w => job'[v] = job[v],
           job'[w].pc \in {"idle", "ack", "reject"}
    PROVE  \A m \in Msg : Counted(m)'
<1> TAKE m \in Msg
<1>1. \A v \in Worker : GoesOn(v, m)
  BY DEF GoesOn, Works
<1>2. CASE m # job[w].msg
  <2>1. answered'[m] = answered[m] /\ errored'[m] = errored[m]
    BY <1>2, BumpOthers DEF TypeOK
  <2> QED BY <1>1, <2>1, CountedKept
<1>3. CASE m = job[w].msg
  <2> SUFFICES ASSUME Undisturbed(m)
               PROVE  /\ OneToken(m)'
                      /\ m \notin unconfirmed => SpentByResult(m)' /\ RunsCounted(m)'
    BY DEF Counted, Undisturbed
  <2>1. Works(w, m) /\ OneToken(m)
    BY <1>3 DEF Works, Counted
  <2>2. OneToken(m)'
    BY <1>1, <2>1 DEF OneToken, GoesOn
  <2>3. (\A v \in Worker : ~Works(v, m)') /\ (\A k \in Retry : ready'[<<m, k>>] = 0)
    <3>1. \A v \in Worker : v # w => ~Works(v, m)
      BY <2>1 DEF OneToken
    <3>2. ~Works(w, m)'
      BY DEF Works
    <3>3. \A v \in Worker : ~Works(v, m)'
      BY <1>1, <3>1, <3>2 DEF GoesOn
    <3> QED BY <2>1, <3>3 DEF OneToken
  <2>4. ASSUME m \notin unconfirmed PROVE SpentByResult(m)' /\ RunsCounted(m)'
    <3>1. Results(m) = 0 /\ RunsCounted(m)
      BY <2>1, <2>4 DEF Counted, SpentByResult
    <3>2. Results(m)' = 1
      <4>1. answered \in [Msg -> Nat] /\ errored \in [Msg -> Nat]
        BY DEF TypeOK
      <4>2. Bump(answered, w)[m] = answered[m] + 1 /\ Bump(errored, w)[m] = errored[m] + 1
        BY <1>3, <4>1, BumpOwn
      <4>3. answered[m] \in Nat /\ errored[m] \in Nat
        BY <4>1
      <4> QED BY <3>1, <4>2, <4>3 DEF Results
    <3>3. SpentByResult(m)'
      BY <2>3, <3>2 DEF SpentByResult
    <3>4. RunsCounted(m)'
      BY <2>3, <3>1 DEF RunsCounted
    <3> QED BY <3>3, <3>4
  <2> QED BY <2>2, <2>4
<1> QED BY <1>2, <1>3

\* The early ack turns the token of an ingest event into its one plugin run.
LEMMA AckRuns ==
    ASSUME TypeOK, KindOfPC, NEW w \in Worker, job[w].pc = "earlyAck",
           \A m \in Msg : Counted(m),
           UNCHANGED <<ready, redelivered, unconfirmed, answered, errored>>,
           executed' = Bump(executed, w), Goto(w, "running")
    PROVE  \A m \in Msg : Counted(m)'
<1> TAKE m \in Msg
<1>0. /\ job'[w].pc = "running" /\ job'[w].msg = job[w].msg
      /\ \A v \in Worker : v # w => job'[v] = job[v]
  BY GotoFields
<1>1. CASE m # job[w].msg
  <2>1. executed'[m] = executed[m]
    BY <1>1, BumpOthers DEF TypeOK
  <2> QED BY <1>0, <1>1, <2>1, OthersKept
<1>2. CASE m = job[w].msg
  <2>1. m \in Ingest /\ m \notin Query
    BY <1>2, KindsDisjoint DEF KindOfPC
  <2>2. Works(w, m) /\ \A v \in Worker : Works(v, m)' <=> Works(v, m)
    BY <1>0, <1>2 DEF Works
  <2>3. OneToken(m) => OneToken(m)'
    BY <2>2 DEF OneToken
  <2>4. SpentByResult(m) => SpentByResult(m)'
    BY <2>2 DEF SpentByResult, Results
  <2>5. ASSUME OneToken(m), RunsCounted(m) PROVE RunsCounted(m)'
    <3>1. executed[m] = 0 /\ executed'[m] = 1
      <4>1. executed[m] <= 0
        BY <2>1, <2>2, <2>5 DEF RunsCounted, TaskPC
      <4> QED BY <1>2, <4>1, BumpOwn DEF TypeOK
    <3>2. \A k \in Retry : ready'[<<m, k>>] = 0
      BY <2>2, <2>5 DEF OneToken
    <3>3. \A v \in Worker : Works(v, m)' => v = w
      BY <2>2, <2>5 DEF OneToken
    <3> QED BY <1>0, <2>1, <3>1, <3>2, <3>3 DEF RunsCounted, TaskPC
  <2> QED BY <2>3, <2>4, <2>5 DEF Counted, Undisturbed
<1> QED BY <1>1, <1>2

\* A retry hands the token from the slot back to the queue, one header higher.
LEMMA RepublishHands ==
    ASSUME TypeOK, RetryLeft, KindOfPC, NEW w \in Worker, RepublishOk(w),
           \A m \in Msg : Counted(m)
    PROVE  \A m \in Msg : Counted(m)'
<1> TAKE m \in Msg
<1>0. /\ job[w].pc = "republish" /\ job'[w].pc = "reject" /\ job'[w].msg = job[w].msg
      /\ \A v \in Worker : v # w => job'[v] = job[v]
  BY GotoFields DEF RepublishOk, At
<1> DEFINE j == job[w].retry + 1
           x == job[w].msg
<1>t. x \in Msg /\ j \in Retry /\ job[w].retry \in Nat
  <2>1. x \in Msg /\ job[w].retry \in Retry /\ job[w].retry < MaxRetries - 1
    BY <1>0, BusyJob DEF TypeOK, RetryLeft
  <2> QED BY <2>1, ConstantsOK DEF Retry
<1>r. \A y \in Msg, k \in Retry :
        ready'[<<y, k>>] = IF y = x /\ k = j THEN ready[<<y, k>>] + 1 ELSE ready[<<y, k>>]
  BY <1>t DEF RepublishOk, TypeOK
<1>u. UNCHANGED <<answered, errored, executed, redelivered, unconfirmed>>
  BY DEF RepublishOk, history
<1> HIDE DEF j, x
<1>1. CASE m # x
  BY <1>0, <1>r, <1>u, <1>1, OthersKept DEF x
<1>2. CASE m = x
  <2> SUFFICES ASSUME Undisturbed(m)
               PROVE  /\ OneToken(m)'
                      /\ m \notin unconfirmed => SpentByResult(m)' /\ RunsCounted(m)'
    BY <1>u DEF Counted, Undisturbed
  <2>1. Works(w, m) /\ OneToken(m)
    BY <1>0, <1>2 DEF Works, Counted, x
  <2>2. \A v \in Worker : ~Works(v, m)'
    BY <1>0, <2>1 DEF OneToken, Works
  <2>3. \A k \in Retry : ready'[<<m, k>>] = IF k = j THEN 1 ELSE 0
    BY <1>r, <1>2, <2>1 DEF OneToken
  <2>4. OneToken(m)'
    BY <2>2, <2>3 DEF OneToken
  <2>5. ASSUME m \notin unconfirmed PROVE SpentByResult(m)' /\ RunsCounted(m)'
    <3>1. Results(m)' = 0
      BY <1>u, <2>1, <2>5 DEF Counted, SpentByResult, Results
    <3>2. SpentByResult(m)'
      BY <2>2, <3>1 DEF SpentByResult
    <3>3. executed'[m] = executed[m] /\ RunsCounted(m)
      BY <1>u, <2>5 DEF Counted
    <3>4. executed[m] <= IF m \in Query THEN j ELSE 0
      BY <1>0, <2>1, <3>3 DEF RunsCounted, TaskPC, j
    <3>5. RunsCounted(m)'
      BY <2>2, <2>3, <3>3, <3>4 DEF RunsCounted
    <3> QED BY <3>2, <3>5
  <2> QED BY <2>4, <2>5
<1> QED BY <1>1, <1>2

\* A delivery takes the token from the queue to a slot.
LEMMA DeliverTakes ==
    ASSUME TypeOK, NEW w \in Worker, NEW n \in Msg, NEW k \in Retry, Deliver(w, n, k),
           \A m \in Msg : Counted(m)
    PROVE  \A m \in Msg : Counted(m)'
<1> TAKE m \in Msg
<1>0. /\ job[w] = Idle /\ job'[w] = [pc |-> FirstAwait(n, k), msg |-> n, retry |-> k]
      /\ \A v \in Worker : v # w => job'[v] = job[v]
  BY DEF Deliver, TypeOK
<1>r. /\ ready[<<n, k>>] > 0
      /\ \A y \in Msg, l \in Retry :
           ready'[<<y, l>>] = IF y = n /\ l = k THEN ready[<<y, l>>] - 1 ELSE ready[<<y, l>>]
  BY DEF Deliver, TypeOK
<1>u. /\ UNCHANGED <<answered, errored, redelivered, unconfirmed>>
      /\ executed'[m] = IF m = n /\ m \in Query THEN executed[m] + 1 ELSE executed[m]
  BY DEF Deliver, TypeOK
<1>n. executed[m] \in Nat /\ k \in Nat /\ k < MaxRetries /\ MaxRetries \in Nat
      /\ \A l \in Retry : ready[<<m, l>>] \in Nat
  BY ConstantsOK DEF TypeOK, Retry
<1>1. CASE m # n
  <2>1. \A v \in Worker : GoesOn(v, m)
    BY <1>0, <1>1 DEF GoesOn, Works
  <2> QED BY <1>r, <1>u, <1>1, <2>1, CountedKept
<1>2. CASE m = n
  <2> SUFFICES ASSUME Undisturbed(m)
               PROVE  /\ OneToken(m)'
                      /\ m \notin unconfirmed => SpentByResult(m)' /\ RunsCounted(m)'
    BY <1>u DEF Counted, Undisturbed
  <2>1. OneToken(m) /\ ready[<<m, k>>] > 0
    BY <1>r, <1>2 DEF Counted
  <2>2. \A v \in Worker : Works(v, m)' => v = w
    <3>1. \A v \in Worker : ~Works(v, m)
      BY <2>1 DEF OneToken
    <3> QED BY <1>0, <3>1 DEF Works
  <2>3. \A l \in Retry : ready'[<<m, l>>] = 0
    <3> TAKE l \in Retry
    <3>1. CASE l = k
      <4>1. ready[<<m, k>>] <= 1
        BY <2>1 DEF OneToken
      <4> QED BY <1>r, <1>n, <1>2, <2>1, <3>1, <4>1
    <3>2. CASE l # k
      <4>1. ~(ready[<<m, l>>] > 0)
        BY <2>1, <3>2 DEF OneToken
      <4> QED BY <1>r, <1>n, <3>2, <4>1
    <3> QED BY <3>1, <3>2
  <2>4. OneToken(m)'
    BY <2>2, <2>3 DEF OneToken
  <2>5. ASSUME m \notin unconfirmed PROVE SpentByResult(m)' /\ RunsCounted(m)'
    <3>1. Results(m)' = 0
      BY <1>u, <2>1, <2>5 DEF Counted, SpentByResult, Results
    <3>2. SpentByResult(m)'
      BY <2>3, <3>1 DEF SpentByResult
    <3>3. executed[m] <= IF m \in Query THEN k ELSE 0
      BY <2>1, <2>5 DEF Counted, RunsCounted
    <3>4. job'[w].retry = k
      BY <1>0
    <3>5. CASE m \in Query
      <4>1. executed'[m] <= k + 1 /\ executed'[m] <= MaxRetries
        BY <1>u, <1>n, <1>2, <3>3, <3>5
      <4>2. \A v \in Worker : Works(v, m)' => executed'[m] <= job'[v].retry + 1
        BY <2>2, <3>4, <4>1
      <4>3. \A l \in Retry : ~(ready'[<<m, l>>] > 0)
        BY <2>3
      <4> QED BY <3>2, <3>5, <4>1, <4>2, <4>3 DEF RunsCounted
    <3>6. CASE m \notin Query
      <4>1. executed'[m] = 0
        BY <1>u, <1>n, <3>3, <3>6
      <4>2. \A l \in Retry : ~(ready'[<<m, l>>] > 0)
        BY <2>3
      <4>3. \A v \in Worker : executed'[m] <= IF job'[v].pc \in TaskPC THEN 1 ELSE 0
        BY <4>1
      <4> QED BY <3>2, <3>6, <4>1, <4>2, <4>3 DEF RunsCounted
    <3> QED BY <3>5, <3>6
  <2> QED BY <2>4, <2>5
<1> QED BY <1>1, <1>2

\* The callback of a query or a malformed message never reaches the pcs of an
\* ingest event, and the other way round.
LEMMA KindKept ==
    ASSUME TypeOK, KindOfPC, NEW w \in Worker, job[w].pc # "idle", NEW p, Goto(w, p),
           \/ p = "reject"
           \/ p \in TaskPC /\ job[w].pc \in TaskPC \cup {"earlyAck"}
           \/ p \in HandlerPC \ {"earlyAck"} /\ job[w].pc \notin TaskPC \cup {"earlyAck", "reject"}
    PROVE  KindOfPC'
<1>1. /\ job'[w].pc = p /\ job'[w].msg = job[w].msg
      /\ \A v \in Worker : v # w => job'[v] = job[v]
  BY GotoFields
<1> QED BY <1>1 DEF KindOfPC, TaskPC, HandlerPC

\* Slots that return or die lose their kind with their message.
LEMMA KindIdle ==
    ASSUME KindOfPC, \A v \in Worker : job'[v] = job[v] \/ job'[v] = Idle
    PROVE  KindOfPC'
<1>1. NoMsg \notin Ingest
  BY ConstantsOK DEF Msg
<1> QED BY <1>1 DEF KindOfPC, Idle, TaskPC

\* A task that goes on does not change what the broker holds.
LEMMA AckedKept ==
    ASSUME TypeOK, AckedFirst, held' \subseteq held, redelivered \subseteq redelivered',
           channel = "broken" => channel' = "broken",
           \A v \in Worker : job'[v].pc \in TaskPC =>
                                job[v].pc \in TaskPC /\ job'[v].msg = job[v].msg
    PROVE  AckedFirst'
BY DEF AckedFirst

\* One step of a callback or task keeps the counts.
LEMMA WorkerCounts ==
    ASSUME CInv, NEW w \in Worker, WorkerStep(w)
    PROVE  KindOfPC' /\ AckedFirst' /\ \A m \in Msg : Counted(m)'
<1>inv. TypeOK /\ RetryLeft /\ SingleHeld /\ KindOfPC /\ AckedFirst /\ \A m \in Msg : Counted(m)
  BY DEF CInv, IInv
<1>goto. \A p : job[w].pc # "idle" /\ Goto(w, p) =>
           /\ job'[w].pc = p /\ job'[w].msg = job[w].msg /\ job'[w].retry = job[w].retry
           /\ \A v \in Worker : v # w => job'[v] = job[v]
  BY <1>inv, GotoFields
<1>return. Return(w) => job'[w] = Idle /\ \A v \in Worker : v # w => job'[v] = job[v]
  BY <1>inv DEF Return, TypeOK
<1>retry. \A f, a : RetryOrReject(job[w].msg, job[w].retry, f, a) \in
                      {"republish", "reject", "publishPermanent", "publishError"}
  BY DEF RetryOrReject
<1>bump. \A m \in Msg : m # job[w].msg =>
           Bump(answered, w)[m] = answered[m] /\ Bump(errored, w)[m] = errored[m]
  BY <1>inv, BumpOthers DEF TypeOK
<1>1. CASE HandleOk(w)
  <2>1. PICK p \in {"publish", "taskPublish"} :
          /\ Goto(w, p)
          /\ job[w].pc = (IF p = "publish" THEN "handling" ELSE "running")
    BY <1>1 DEF HandleOk, At
  <2>2. UNCHANGED <<ready, held, channel, answered, errored, executed, redelivered, unconfirmed>>
    BY <1>1 DEF HandleOk, broker, net, history
  <2>3. KindOfPC'
    BY <1>inv, <2>1, KindKept DEF TaskPC, HandlerPC
  <2>4. AckedFirst'
    BY <1>inv, <1>goto, <2>1, <2>2, AckedKept DEF TaskPC
  <2>5. \A m \in Msg : Counted(m)'
    BY <1>inv, <1>goto, <2>1, <2>2, MovesOn DEF TaskPC
  <2> QED BY <2>3, <2>4, <2>5
<1>2. CASE HandleFails(w)
  <2>1. PICK p \in {"republish", "reject", "publishPermanent", "publishError", "taskError"} :
          /\ Goto(w, p)
          /\ job[w].pc = (IF p = "taskError" THEN "running" ELSE "handling")
    BY <1>2, <1>retry DEF HandleFails, At
  <2>2. UNCHANGED <<ready, held, channel, answered, errored, executed, redelivered, unconfirmed>>
    BY <1>2 DEF HandleFails, broker, net, history
  <2>3. KindOfPC'
    BY <1>inv, <2>1, KindKept DEF TaskPC, HandlerPC
  <2>4. AckedFirst'
    BY <1>inv, <1>goto, <2>1, <2>2, AckedKept DEF TaskPC
  <2>5. \A m \in Msg : Counted(m)'
    BY <1>inv, <1>goto, <2>1, <2>2, MovesOn DEF TaskPC
  <2> QED BY <2>3, <2>4, <2>5
<1>3. CASE PublishOk(w)
  <2>1. /\ UNCHANGED <<ready, held, channel, executed, redelivered, unconfirmed, errored>>
        /\ answered' = Bump(answered, w)
    BY <1>3 DEF PublishOk, Confirmed, broker, net
  <2>2. /\ job[w].pc \in {"publish", "taskPublish"}
        /\ (job[w].pc = "publish" /\ Goto(w, "ack")) \/ Return(w)
    BY <1>3 DEF PublishOk, At
  <2>3. KindOfPC'
    BY <1>inv, <1>return, <2>2, KindKept, KindIdle DEF TaskPC, HandlerPC
  <2>4. job'[w].pc \in {"idle", "ack", "reject"} /\ \A v \in Worker : v # w => job'[v] = job[v]
    BY <1>goto, <1>return, <2>2 DEF Idle
  <2>5. AckedFirst'
    BY <1>inv, <2>1, <2>4, AckedKept DEF TaskPC
  <2>6. \A m \in Msg : Counted(m)'
    BY <1>inv, <2>1, <2>2, <2>4, ResultSpends
  <2> QED BY <2>3, <2>5, <2>6
<1>4. CASE PublishRaises(w)
  <2>1. /\ UNCHANGED <<ready, held, executed, redelivered, errored>>
        /\ channel' = "broken"
    BY <1>4 DEF PublishRaises, Refused, BreaksDuring, broker, net
  <2>2. \/ UNCHANGED <<answered, unconfirmed>>
        \/ answered' = Bump(answered, w) /\ unconfirmed' = unconfirmed \cup {job[w].msg}
    BY <1>4 DEF PublishRaises
  <2>3. PICK p \in {"republish", "reject", "publishPermanent", "publishError", "taskError"} :
          /\ Goto(w, p)
          /\ job[w].pc = (IF p = "taskError" THEN "taskPublish" ELSE "publish")
    BY <1>4, <1>retry DEF PublishRaises, At
  <2>4. KindOfPC'
    BY <1>inv, <2>3, KindKept DEF TaskPC, HandlerPC
  <2>5. AckedFirst'
    BY <2>1 DEF AckedFirst
  <2>6. \A m \in Msg : Counted(m)'
    BY <1>inv, <1>goto, <1>bump, <2>1, <2>2, <2>3, MovesOn DEF TaskPC
  <2> QED BY <2>4, <2>5, <2>6
<1>5. CASE RepublishOk(w)
  <2>1. job[w].pc = "republish" /\ Goto(w, "reject") /\ UNCHANGED <<held, channel, redelivered>>
    BY <1>5 DEF RepublishOk, At, Confirmed, net, history
  <2>2. KindOfPC'
    BY <1>inv, <2>1, KindKept
  <2>3. AckedFirst'
    BY <1>inv, <1>goto, <2>1, AckedKept DEF TaskPC
  <2> QED BY <1>5, <1>inv, <2>2, <2>3, RepublishHands
<1>6. CASE RepublishRaises(w)
  <2>1. /\ UNCHANGED <<held, executed, redelivered, answered, errored>>
        /\ channel' = "broken"
    BY <1>6 DEF RepublishRaises, Refused, BreaksDuring, net
  <2>2. PICK p \in {"fallback", "reject"} : Goto(w, p)
    BY <1>6 DEF RepublishRaises
  <2>3. job[w].pc = "republish" /\ job[w].msg \notin Ingest
    BY <1>6, <1>inv DEF RepublishRaises, At, KindOfPC, TaskPC
  <2>4. KindOfPC'
    BY <1>inv, <2>2, <2>3, KindKept DEF TaskPC, HandlerPC
  <2>5. AckedFirst'
    BY <2>1 DEF AckedFirst
  <2>6. CASE UNCHANGED <<ready, unconfirmed>>
    <3>1. \A m \in Msg : Counted(m)'
      BY <1>inv, <1>goto, <2>1, <2>2, <2>3, <2>6, MovesOn DEF TaskPC
    <3> QED BY <2>4, <2>5, <3>1
  <2>7. CASE /\ ready' = [ready EXCEPT ![<<job[w].msg, job[w].retry + 1>>] = @ + 1]
             /\ unconfirmed' = unconfirmed \cup {job[w].msg}
    <3>1. ASSUME NEW m \in Msg, m # job[w].msg PROVE Counted(m)'
      <4>1. \A k \in Retry : ready'[<<m, k>>] = ready[<<m, k>>]
        BY <1>inv, <2>7, <3>1 DEF TypeOK
      <4>2. job'[w].msg # m /\ \A v \in Worker : v # w => job'[v] = job[v]
        BY <1>goto, <2>2, <2>3, <3>1
      <4> QED BY <1>inv, <2>1, <2>3, <2>7, <3>1, <4>1, <4>2, OthersKept
    <3>2. ASSUME NEW m \in Msg, m = job[w].msg PROVE Counted(m)'
      BY <2>3, <2>7, <3>2 DEF Counted, Undisturbed
    <3> QED BY <2>4, <2>5, <3>1, <3>2
  <2> QED BY <1>6, <2>6, <2>7 DEF RepublishRaises
<1>7. CASE ErrorOk(w)
  <2>1. /\ UNCHANGED <<ready, held, channel, executed, redelivered, unconfirmed, answered>>
        /\ errored' = Bump(errored, w)
    BY <1>7 DEF ErrorOk, Confirmed, broker, net
  <2>2. /\ job[w].pc \in ErrorPC
        /\ \/ job[w].pc = "publishPermanent" /\ Goto(w, "ack")
           \/ Goto(w, "reject")
           \/ Return(w)
    BY <1>7 DEF ErrorOk, At
  <2>3. KindOfPC'
    BY <1>inv, <1>return, <2>2, KindKept, KindIdle DEF TaskPC, HandlerPC, ErrorPC
  <2>4. job'[w].pc \in {"idle", "ack", "reject"} /\ \A v \in Worker : v # w => job'[v] = job[v]
    BY <1>goto, <1>return, <2>2 DEF Idle, ErrorPC
  <2>5. AckedFirst'
    BY <1>inv, <2>1, <2>4, AckedKept DEF TaskPC
  <2>6. \A m \in Msg : Counted(m)'
    BY <1>inv, <2>1, <2>2, <2>4, ResultSpends DEF ErrorPC
  <2> QED BY <2>3, <2>5, <2>6
<1>8. CASE ErrorRaises(w)
  <2>1. /\ UNCHANGED <<ready, held, executed, redelivered, answered>>
        /\ channel' = "broken"
    BY <1>8 DEF ErrorRaises, Refused, BreaksDuring, broker, net
  <2>2. /\ job[w].pc \in ErrorPC
        /\ Goto(w, "reject") \/ Return(w)
        /\ \/ UNCHANGED <<errored, unconfirmed>>
           \/ errored' = Bump(errored, w) /\ unconfirmed' = unconfirmed \cup {job[w].msg}
    BY <1>8 DEF ErrorRaises
  <2>3. KindOfPC'
    BY <1>inv, <1>return, <2>2, KindKept, KindIdle DEF ErrorPC
  <2>4. job'[w].pc \in {"idle", "ack", "reject"} /\ \A v \in Worker : v # w => job'[v] = job[v]
    BY <1>goto, <1>return, <2>2 DEF Idle, ErrorPC
  <2>5. AckedFirst'
    BY <2>1 DEF AckedFirst
  <2>6. \A m \in Msg : Counted(m)'
    BY <1>inv, <1>bump, <2>1, <2>2, <2>4, MovesOn DEF ErrorPC
  <2> QED BY <2>3, <2>5, <2>6
<1>9. CASE EarlyAck(w)
  <2>1. job[w].pc = "earlyAck" /\ UNCHANGED <<ready, answered, errored, redelivered, unconfirmed>>
    BY <1>9 DEF EarlyAck, At
  <2>2. CASE SettleOk(w) /\ Goto(w, "running") /\ executed' = Bump(executed, w)
    <3>1. KindOfPC'
      BY <1>inv, <2>1, <2>2, KindKept DEF TaskPC
    <3>2. \A m \in Msg : Counted(m)'
      BY <1>inv, <2>1, <2>2, AckRuns
    <3>3. held' = {} \/ channel' = "broken"
      BY <1>inv, <2>2 DEF SettleOk, SingleHeld, Live, BreaksDuring
    <3> QED BY <3>1, <3>2, <3>3 DEF AckedFirst
  <2>3. CASE SettleRaises(w) /\ Goto(w, "reject") /\ UNCHANGED executed
    <3>1. KindOfPC'
      BY <1>inv, <2>1, <2>3, KindKept
    <3>2. AckedFirst'
      BY <1>inv, <1>goto, <2>1, <2>3, AckedKept DEF SettleRaises, net, TaskPC
    <3>3. \A m \in Msg : Counted(m)'
      BY <1>inv, <1>goto, <2>1, <2>3, MovesOn
    <3> QED BY <3>1, <3>2, <3>3
  <2> QED BY <1>9, <2>2, <2>3 DEF EarlyAck
<1>10. CASE Settle(w)
  <2>1. /\ job[w].pc \in {"ack", "reject"} /\ Return(w)
        /\ UNCHANGED <<ready, answered, errored, executed, redelivered, unconfirmed>>
    BY <1>10 DEF Settle, At, history
  <2>2. held' \subseteq held /\ (channel = "broken" => channel' = "broken")
    BY <1>10 DEF Settle, SettleOk, SettleRaises, Confirmed, BreaksDuring, net
  <2>3. job'[w].pc = "idle" /\ \A v \in Worker : v # w => job'[v] = job[v]
    BY <1>return, <2>1 DEF Idle
  <2>4. KindOfPC'
    BY <1>inv, <1>return, <2>1, KindIdle
  <2>5. AckedFirst'
    BY <1>inv, <2>1, <2>2, <2>3, AckedKept DEF TaskPC
  <2>6. \A m \in Msg : Counted(m)'
    BY <1>inv, <2>1, <2>3, MovesOn
  <2> QED BY <2>4, <2>5, <2>6
<1> QED BY <1>1, <1>2, <1>3, <1>4, <1>5, <1>6, <1>7, <1>8, <1>9, <1>10 DEF WorkerStep

\* Reconnecting, crashing and exiting disturb the messages they requeue, and
\* leave the others as they are.
LEMMA RequeueCounts ==
    ASSUME CInv, Requeue, UNCHANGED <<answered, errored, executed, unconfirmed>>,
           \A v \in Worker : job'[v] = job[v] \/ job'[v] = Idle
    PROVE  KindOfPC' /\ AckedFirst' /\ \A m \in Msg : Counted(m)'
<1>1. KindOfPC'
  BY KindIdle DEF CInv
<1>2. AckedFirst'
  BY DEF Requeue, AckedFirst
<1>3. ASSUME NEW m \in Msg PROVE Counted(m)'
  <2>1. redelivered \subseteq redelivered'
    BY DEF Requeue
  <2>2. m \notin redelivered' => \A k \in Retry : ready'[<<m, k>>] = ready[<<m, k>>]
    BY DEF Requeue
  <2>3. \A v \in Worker : GoesOn(v, m)
    BY DEF GoesOn, Works, Idle
  <2> QED BY <1>3, <2>1, <2>2, <2>3, CountedKept DEF CInv, IInv
<1> QED BY <1>1, <1>2, <1>3

\* Steps that move no message: slots stay as they are or become idle.
LEMMA IdleCounts ==
    ASSUME CInv,
           UNCHANGED <<ready, held, answered, errored, executed, redelivered, unconfirmed>>,
           channel = "broken" => channel' = "broken",
           \A v \in Worker : job'[v] = job[v] \/ job'[v] = Idle
    PROVE  KindOfPC' /\ AckedFirst' /\ \A m \in Msg : Counted(m)'
<1>1. KindOfPC'
  BY KindIdle DEF CInv
<1>2. AckedFirst'
  BY AckedKept DEF CInv, IInv, Idle, TaskPC
<1>3. ASSUME NEW m \in Msg PROVE Counted(m)'
  <2>1. \A v \in Worker : GoesOn(v, m)
    BY DEF GoesOn, Works, Idle
  <2> QED BY <1>3, <2>1, CountedKept DEF CInv, IInv
<1> QED BY <1>1, <1>2, <1>3

\* One step of Delivery keeps the counts.
LEMMA CountStep == CInv /\ [Next]_vars => CInv'
<1> SUFFICES ASSUME CInv, [Next]_vars PROVE KindOfPC' /\ AckedFirst' /\ \A m \in Msg : Counted(m)'
  BY InvStep DEF CInv
<1>type. TypeOK
  BY DEF CInv, IInv
<1>1. ASSUME NEW w \in Worker, NEW m \in Msg, NEW k \in Retry, Deliver(w, m, k)
      PROVE  KindOfPC' /\ AckedFirst' /\ \A n \in Msg : Counted(n)'
  <2>1. /\ job'[w].pc = FirstAwait(m, k) /\ job'[w].msg = m
        /\ \A v \in Worker : v # w => job'[v] = job[v]
    BY <1>1, <1>type DEF Deliver, TypeOK
  <2>2. KindOfPC'
    <3>1. /\ FirstAwait(m, k) \in TaskPC \cup {"earlyAck"} => m \in Ingest
          /\ m \in Ingest => FirstAwait(m, k) = "earlyAck"
      BY KindsDisjoint DEF FirstAwait, RetryOrReject, TaskPC
    <3> QED BY <2>1, <3>1 DEF CInv, KindOfPC
  <2>3. AckedFirst'
    <3> SUFFICES ASSUME NEW v \in Worker, job'[v].pc \in TaskPC, m = job'[v].msg
                 PROVE  m \in redelivered
      BY <1>1 DEF AckedFirst, Deliver
    <3>1. v # w
      BY <2>1 DEF FirstAwait, RetryOrReject, TaskPC
    <3>2. Works(v, m) /\ m \in Ingest
      BY <2>1, <3>1 DEF Works, TaskPC, CInv, KindOfPC
    <3>3. ready[<<m, k>>] > 0
      BY <1>1 DEF Deliver
    <3>4. ~OneToken(m)
      BY <3>2, <3>3 DEF OneToken
    <3> QED BY <3>2, <3>4 DEF CInv, Counted, Undisturbed
  <2> QED BY <1>1, <1>type, <2>2, <2>3, DeliverTakes DEF CInv
<1>2. ASSUME NEW w \in Worker, WorkerStep(w)
      PROVE  KindOfPC' /\ AckedFirst' /\ \A m \in Msg : Counted(m)'
  BY <1>2, WorkerCounts
<1>3. CASE ChannelBreaks \/ Sigterm \/ Drained \/ GraceExpires \/ Start
  <2>1. UNCHANGED <<ready, held, answered, errored, executed, redelivered, unconfirmed>>
    BY <1>3 DEF ChannelBreaks, Sigterm, Drained, GraceExpires, Start, broker, history
  <2>2. channel = "broken" => channel' = "broken"
    BY <1>3 DEF ChannelBreaks, BreaksDuring, Sigterm, Drained, GraceExpires, Start, net
  <2>3. \A v \in Worker : job'[v] = job[v] \/ job'[v] = Idle
    BY <1>3 DEF ChannelBreaks, Sigterm, Drained, GraceExpires, Start
  <2> QED BY <2>1, <2>2, <2>3, IdleCounts
<1>4. CASE Reconnect
  BY <1>4, RequeueCounts DEF Reconnect
<1>5. CASE Crash \/ Stop
  <2>1. Exit
    BY <1>5 DEF Crash, Stop
  <2>2. \A v \in Worker : job'[v] = Idle
    BY <2>1 DEF Exit
  <2> QED BY <2>1, <2>2, RequeueCounts DEF Exit
<1>6. CASE UNCHANGED vars
  BY <1>6, IdleCounts DEF vars
<1> QED BY <1>1, <1>2, <1>3, <1>4, <1>5, <1>6 DEF Next, Delivers, Shutdown

LEMMA CountInit == Init => CInv
<1> SUFFICES ASSUME Init PROVE CInv
  OBVIOUS
<1>1. IInv
  BY InvInit
<1>2. \A w \in Worker : job[w].pc = "idle" /\ job[w].msg = NoMsg
  BY DEF Init, Idle
<1>3. KindOfPC /\ AckedFirst
  BY <1>2, ConstantsOK DEF KindOfPC, AckedFirst, Init, Msg, TaskPC
<1>4. ASSUME NEW m \in Msg PROVE Counted(m)
  <2>1. \A k \in Retry : ready[<<m, k>>] = IF k = 0 THEN 1 ELSE 0
    BY DEF Init
  <2>2. Results(m) = 0 /\ executed[m] = 0
    BY DEF Init, Results
  <2>3. \A w \in Worker : ~Works(w, m)
    BY <1>2 DEF Works
  <2>4. \A k \in Retry : k \in Nat
    BY ConstantsOK DEF Retry
  <2>5. OneToken(m)
    BY <2>1, <2>3 DEF OneToken
  <2>6. SpentByResult(m) /\ RunsCounted(m)
    BY <2>2, <2>3, <2>4, ConstantsOK DEF SpentByResult, RunsCounted
  <2> QED BY <2>5, <2>6 DEF Counted
<1> QED BY <1>1, <1>3, <1>4 DEF CInv

\* However callbacks, retries and tasks interleave, a query or ingest event that
\* was neither redelivered nor left without a confirm has at most one result on
\* the result queue.
THEOREM AtMostOneResult == Spec => []OneResult
<1>1. CInv => OneResult
  BY DEF CInv, Counted, Undisturbed, SpentByResult, OneResult
<1> QED BY <1>1, CountInit, CountStep, PTL DEF Spec

\* The plugin runs at most max_retries times on such a query, and once on an
\* ingest event.
THEOREM ExecutionsBounded == Spec => []BoundedExecutions
<1>1. CInv => BoundedExecutions
  BY DEF CInv, Counted, Undisturbed, RunsCounted, BoundedExecutions
<1> QED BY <1>1, CountInit, CountStep, PTL DEF Spec

\* _retry_or_reject publishes nothing as long as a retry of the query is still to come.
THEOREM RetriesAreSilent == Spec => []SilentRetries
<1>1. CInv => SilentRetries
  BY DEF CInv, Counted, Undisturbed, SpentByResult, SilentRetries, Msg
<1> QED BY <1>1, CountInit, CountStep, PTL DEF Spec

\* The early ACK: while _run_pipeline works on an ingest event the broker has no
\* copy of it, unless it redelivered the event or the ack went down with the channel.
THEOREM NoSecondIngestion == Spec => []NoRedeliveryWhileIngesting
<1>1. CInv => NoRedeliveryWhileIngesting
  <2> SUFFICES ASSUME CInv, NEW w \in Worker, job[w].pc \in TaskPC, InBroker(job[w].msg),
                      job[w].msg \notin redelivered
               PROVE  channel = "broken"
    BY DEF NoRedeliveryWhileIngesting
  <2>0. PICK m : m = job[w].msg
    OBVIOUS
  <2>1. m \in Ingest /\ Works(w, m)
    BY <2>0 DEF CInv, KindOfPC, Works, TaskPC
  <2>2. \A k \in Retry : ready[<<m, k>>] = 0
    BY <2>0, <2>1 DEF CInv, Counted, Undisturbed, OneToken, Msg
  <2>3. \A k \in Retry : ~(ready[<<m, k>>] > 0)
    BY <2>2
  <2>4. PICK d \in held : d.msg = m
    BY <2>0, <2>3, Zenon DEF InBroker
  <2> QED BY <2>0, <2>4 DEF CInv, AckedFirst
<1> QED BY <1>1, CountInit, CountStep, PTL DEF Spec
=============================================================================
